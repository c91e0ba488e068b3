------------------------- MODULE AppointmentsProofs -------------------------
(***************************************************************************)
(* Proofs about Appointments, for any events, contents, appointments and   *)
(* deliveries and any faults.  One inductive invariant in three parts:     *)
(* what receipts, steps and plans say of a delivery at each of its points, *)
(* what the ledger says of the hand-overs under way, and how far the       *)
(* lead's pointer may lag behind the appointments while a local step is    *)
(* still due.                                                              *)
(***************************************************************************)
EXTENDS Appointments, WellFoundedInduction, TLAPS

-----------------------------------------------------------------------------
(* Receipts, steps and plans *)

Ran(e, s) == row[e][s].state = "done"

\* Who holds a receipt is handling its event with its content.
HoldersHandle ==
  \A e \in Events : receipt[e].holder # None =>
    /\ receipt[e].state = "claimed"
    /\ task[receipt[e].holder].event = e
    /\ task[receipt[e].holder].content = receipt[e].content

\* What ran, ran with the content of the receipt.
RowsAgree ==
  \A e \in Events :
    /\ receipt[e].state = "none" => receipt[e].content = None
    /\ \A s \in Steps : Ran(e, s) => row[e][s].of = receipt[e].content /\ row[e][s].of # None

\* Plans are made by the steps that keep them; an end that applies is recorded.
PlansAgree ==
  \A e \in Events :
    /\ ~Ran(e, "transition") => plan[e].verdict = "none"
    /\ ~Ran(e, "local") => plan[e].outcome = "none"
    /\ Ran(e, "local") => plan[e].verdict = "apply"
    /\ plan[e].verdict = "apply" /\ e.kind \in TERMINAL_STATUSES => appt[e.appt].status = e.kind

\* The step s of e is due: what comes before it ran.
Due(e, s) ==
  /\ Ran(e, "transition") /\ plan[e].verdict = "apply" /\ Ran(e, "local")
  /\ \/ s = FirstCall(e, plan[e].outcome)
     \/ s = "confirm" /\ FirstCall(e, plan[e].outcome) = "pause" /\ Ran(e, "pause")

\* Everything that e calls for ran.
Through(e) ==
  /\ Ran(e, "transition")
  /\ plan[e].verdict = "apply" => Ran(e, "local")
  /\ FirstCall(e, plan[e].outcome) # None => Ran(e, FirstCall(e, plan[e].outcome))
  /\ FirstCall(e, plan[e].outcome) = "pause" => Ran(e, "confirm") \/ Superseded(e)

HandoverPoints == {"dispatch", "send", "settle", "defer"}
CallPoints     == {"check", "claim", "call", "complete", "release"} \cup HandoverPoints

\* What is durable when a delivery has come to its point.
Position(t) ==
  /\ t.point = "idle" => t = Idle
  /\ t.point # "idle" => t.event \in Events /\ t.content \in Contents
  /\ t.point = "local" => Ran(t.event, "transition") /\ plan[t.event].verdict = "apply"
  /\ t.point \in CallPoints => t.step \in CallSteps /\ Due(t.event, t.step)
  /\ t.point \in HandoverPoints => t.step = "confirm"
  /\ t.point = "recheck" => Due(t.event, "confirm")
  /\ t.point = "end" => Through(t.event)

Tasks == {task[d] : d \in Deliveries}

\* What is acknowledged is applied, and what is applied is through.
AppliedIsThrough ==
  \A e \in Events :
    /\ receipt[e].state = "applied" => Through(e)
    /\ acked[e] # {} => receipt[e].state = "applied" /\ acked[e] \subseteq {receipt[e].content}

ReceiptsAgree ==
  /\ HoldersHandle /\ RowsAgree /\ PlansAgree /\ AppliedIsThrough
  /\ \A t \in Tasks : Position(t)

-----------------------------------------------------------------------------
(* The hand-over *)

Requesting(d) == task[d].point \in {"send", "settle"}
Recovering    == recovery.point \in {"send", "settle"}

\* The ledger knows how often the confirmation was taken, but for what started.
LedgerAgrees ==
  \A a \in Appts :
    /\ ledger[a] \in {"none", "refused"} => confirmed[a] = 0
    /\ ledger[a] = "accepted" => confirmed[a] = 1
    /\ confirmed[a] <= 1

\* One request at a time.
OneRequest ==
  /\ \A d \in Deliveries : Requesting(d) => ledger[ApptOf(d)] = "started"
  /\ Recovering => ledger[recovery.appt] = "started"
  /\ \A c, d \in Deliveries : Requesting(c) /\ Requesting(d) /\ ApptOf(c) = ApptOf(d) => c = d
  /\ \A d \in Deliveries : Requesting(d) /\ Recovering => ApptOf(d) # recovery.appt

\* What an answer says of the confirmations that the provider took.
Says(reply, a) ==
  /\ reply = "accepted" => confirmed[a] = 1
  /\ reply \in {"held", "rejected"} => confirmed[a] = 0

IsOwed(a) == confirmed[a] = 1 \/ owed[a] # "none" \/ Ended(a)

DeliveryAgrees(d) ==
  /\ answer[d] # "none" => task[d].point \in {"settle", "defer", "complete", "release"}
  /\ answer[d] # "none" => StepOf(d) = "confirm"
  /\ At(d, "send") => confirmed[ApptOf(d)] = 0
  /\ At(d, "settle") => Says(answer[d], ApptOf(d))
  /\ answer[d] = "accepted" => confirmed[ApptOf(d)] = 1
  /\ At(d, "complete") /\ answer[d] = "held" => IsOwed(ApptOf(d))

RecoveryAgrees ==
  /\ recovery.point # "idle" => recovery.appt \in Appts
  /\ RecoveryAt("send") => confirmed[recovery.appt] = 0
  /\ RecoveryAt("settle") => Says(recovery.answer, recovery.appt)
  /\ RecoveryAt("retire") /\ recovery.answer = "accepted" => confirmed[recovery.appt] = 1
  /\ Locked(recovery.appt) => owed[recovery.appt] = "pending"

CutAgrees   == \A a \in cut : owed[a] # "pending"
TardyAgrees == \A d \in tardy : task[d].point # "idle" =>
                 Superseded(EventOf(d)) /\ StepOf(d) # "confirm"

HandoverAgrees ==
  /\ LedgerAgrees /\ OneRequest /\ RecoveryAgrees /\ CutAgrees /\ TardyAgrees /\ HandoffIsOwned
  /\ \A d \in Deliveries : DeliveryAgrees(d)

-----------------------------------------------------------------------------
(* The pointer of the lead *)

\* Appointments with an event that moved them and whose local step is due.
Pending(e) == plan[e].verdict = "apply" /\ ~Ran(e, "local")
Lagging    == {a \in Appts : \E e \in Events : e.appt = a /\ Pending(e) /\ ~Superseded(e)}

\* A booked event is recorded, and so is whatever applies.
ApptsAgree ==
  /\ \A a \in Appts : appt[a].status = "none" => ~appt[a].booked
  /\ \A e \in Events : plan[e].verdict = "apply" => appt[e.appt].status # "none"

\* In the meeting stage the pointer lags, or is the first of those that do not.
LeadPoints ==
  lead.stage = "MEETING_SET" =>
    \/ lead.meeting \in Lagging
    \/ lead.meeting \in Open /\ \A b \in Open \ Lagging : Before(lead.meeting, b)

\* A booked appointment has its meeting, or its local step is due.
BookedIsMet ==
  \A a \in Open : appt[a].booked =>
    \/ lead.stage = "MEETING_SET"
    \/ \E e \in Events : e.appt = a /\ e.kind = "booked" /\ Pending(e)

PointerAgrees == ApptsAgree /\ LeadPoints /\ BookedIsMet

IInv == TypeOK /\ ReceiptsAgree /\ HandoverAgrees /\ PointerAgrees

-----------------------------------------------------------------------------
(* The current appointment *)

\* Every nonempty set of numbers has a least element.
LEMMA LeastNumber ==
  ASSUME NEW T \in SUBSET Nat, T # {}
  PROVE  \E t \in T : \A u \in T : t <= u
<1> DEFINE R == {ss \in Nat \X Nat : ss[1] < ss[2]}
<1>1. IsWellFoundedOn(R, Nat)
  BY NatLessThanWellFounded DEF OpToRel
<1>2. PICK x \in T : \A y \in T : ~ (<<y, x>> \in R)
  BY <1>1, WFMin
<1>3. \A y \in T : ~(y < x)
  BY <1>2
<1>4. QED
  BY <1>3

\* Appointments have a time, or none, and are otherwise told apart by their id.
ApptsTyped == appt \in [Appts -> [status : Kinds \cup {"none"}, last : Nat,
                                  start : Nat \cup {None}, booked : BOOLEAN]]

\* Of any appointments one comes before the others: the first of the earliest,
\* or the first if none has a time.
LEMMA FirstExists ==
  ASSUME ApptsTyped, NEW A \in SUBSET Appts, A # {}
  PROVE  \E a \in A : \A b \in A : Before(a, b)
<1> DEFINE Timed == {a \in A : appt[a].start # None}
           Times == {appt[a].start : a \in Timed}
<1>0. \A a \in A : a \in Nat /\ appt[a].start \in Nat \cup {None}
  BY ApptsAreNumbers DEF ApptsTyped
<1>1. CASE Timed = {}
  <2>1. PICK a \in A : \A b \in A : a <= b
    BY <1>0, LeastNumber
  <2>2. \A b \in A : appt[b].start = None
    BY <1>1
  <2>3. QED
    BY <2>1, <2>2 DEF Before
<1>2. CASE Timed # {}
  <2>1. Times \in SUBSET Nat /\ Times # {}
    BY <1>0, <1>2
  <2>2. PICK s \in Times : \A t \in Times : s <= t
    BY <2>1, LeastNumber
  <2> DEFINE Earliest == {a \in A : appt[a].start = s}
  <2>3. Earliest \in SUBSET Nat /\ Earliest # {}
    BY <1>0, <2>2
  <2>4. PICK a \in Earliest : \A b \in Earliest : a <= b
    BY <2>3, LeastNumber
  <2>5. s \in Nat /\ s # None /\ appt[a].start = s /\ a \in A
    BY <2>1, <2>2, <2>4, ApptsAreNumbers
  <2>6. ASSUME NEW b \in A
        PROVE  Before(a, b)
    <3>1. CASE appt[b].start = s
      BY <2>4, <2>5, <3>1 DEF Before
    <3>2. CASE appt[b].start = None
      BY <2>5, <3>2 DEF Before
    <3>3. CASE appt[b].start # None /\ appt[b].start # s
      <4>1. appt[b].start \in Times /\ appt[b].start \in Nat
        BY <1>0, <3>3
      <4>2. s <= appt[b].start
        BY <2>2, <4>1
      <4>3. s < appt[b].start
        BY <2>5, <3>3, <4>1, <4>2
      <4>4. QED
        BY <2>5, <4>3 DEF Before
    <3>4. QED
      BY <3>1, <3>2, <3>3
  <2>7. QED
    BY <2>5, <2>6
<1>3. QED
  BY <1>1, <1>2

\* The current appointment is the first of those that are open.
LEMMA CurrentIsFirst ==
  ASSUME ApptsTyped
  PROVE  /\ Open = {} => Current = None
         /\ Open # {} => Current \in Open /\ \A b \in Open : Before(Current, b)
         /\ Current \in Appts \cup {None} /\ (Current = None => Open = {})
<1>1. Open \in SUBSET Appts
  BY DEF Open
<1>2. CASE Open = {}
  BY <1>2 DEF Current
<1>3. CASE Open # {}
  <2>1. \E a \in Open : \A b \in Open : Before(a, b)
    BY <1>1, <1>3, FirstExists
  <2>2. Current = CHOOSE a \in Open : \A b \in Open : Before(a, b)
    BY <1>3 DEF Current
  <2>3. Current \in Open /\ \A b \in Open : Before(Current, b)
    BY <2>1, <2>2
  <2>4. QED
    BY <1>1, <1>3, <2>3, ApptsAreNumbers
<1>4. QED
  BY <1>2, <1>3

\* There is one such appointment.
LEMMA FirstIsCurrent ==
  ASSUME ApptsTyped, NEW m \in Open, \A b \in Open : Before(m, b)
  PROVE  m = Current
<1>1. Current \in Open /\ Before(Current, m) /\ Before(m, Current)
  BY CurrentIsFirst
<1>2. m \in Nat /\ Current \in Nat /\ m \in Appts /\ Current \in Appts
  BY <1>1, ApptsAreNumbers DEF Open
<1>3. appt[m].start \in Nat \cup {None} /\ appt[Current].start \in Nat \cup {None}
  BY <1>2 DEF ApptsTyped
<1> HIDE DEF Current
<1>4. QED
  BY <1>1, <1>2, <1>3, ApptsAreNumbers DEF Before

-----------------------------------------------------------------------------
(* Types *)

\* A delivery at a point handles an event with a content.
LEMMA Handles ==
  ASSUME TypeOK, ReceiptsAgree, NEW d \in Deliveries, task[d].point # "idle"
  PROVE  /\ EventOf(d) \in Events /\ task[d].content \in Contents
         /\ EventOf(d) \in [kind : Kinds, appt : Appts, at : Nat, start : Nat \cup {None}]
         /\ ApptOf(d) \in Appts
BY EventsAreTyped DEF ReceiptsAgree, Position, Tasks, EventOf, ApptOf

\* A move of a delivery is typed and leaves the other deliveries where they are.
LEMMA GoToMoves ==
  ASSUME ReceiptsTypeOK, NEW d \in Deliveries, NEW point \in Points, GoTo(d, point)
  PROVE  /\ task' \in [Deliveries -> [point : Points, event : Events \cup {None},
                              content : Contents \cup {None}, step : Steps \cup {None}]]
         /\ task'[d].point = point /\ task'[d].event = task[d].event
         /\ task'[d].content = task[d].content /\ task'[d].step = task[d].step
         /\ \A c \in Deliveries : c # d => task'[c] = task[c]
BY DEF ReceiptsTypeOK, GoTo

\* So does a move to another step.
LEMMA BeginMoves ==
  ASSUME ReceiptsTypeOK, NEW d \in Deliveries, NEW point \in Points,
         NEW s \in Steps \cup {None}, Begin(d, point, s)
  PROVE  /\ task' \in [Deliveries -> [point : Points, event : Events \cup {None},
                              content : Contents \cup {None}, step : Steps \cup {None}]]
         /\ task'[d].point = point /\ task'[d].event = task[d].event
         /\ task'[d].content = task[d].content /\ task'[d].step = s
         /\ \A c \in Deliveries : c # d => task'[c] = task[c]
BY DEF ReceiptsTypeOK, Begin

\* A fault leaves a number of faults to come.
LEMMA FaultyTyped ==
  ASSUME faults \in Nat, Faulty
  PROVE  faults' \in Nat
BY DEF Faulty

\* The local step of an event leaves a lead, and has an outcome.
LEMMA LocalTyped ==
  ASSUME TypeOK, NEW e \in Events
  PROVE  /\ Local(e).lead \in [stage : Stages, meeting : Appts \cup {None}]
         /\ Local(e).outcome \in {"over", "applied", "resumes"}
<1>1. Current \in Appts \cup {None}
  BY CurrentIsFirst DEF TypeOK, ApptsTyped
<1>2. e.kind \in Kinds /\ e.appt \in Appts
  BY EventsAreTyped
<1>3. lead \in [stage : Stages, meeting : Appts \cup {None}]
  BY DEF TypeOK
<1>4. \A a \in Appts \cup {None} : Moved(a) \in [stage : Stages, meeting : Appts \cup {None}]
  BY <1>3 DEF Moved
<1>5. \A l, o : Effect(l, o).lead = l /\ Effect(l, o).outcome = o
  BY DEF Effect
<1> DEFINE Good(x) == /\ x.lead \in [stage : Stages, meeting : Appts \cup {None}]
                      /\ x.outcome \in {"over", "applied", "resumes"}
<1> HIDE DEF Current, Moved, Effect
<1>6. Good(Effect(lead, "over"))
  BY <1>3, <1>5
<1>7. Good(Booked(e))
  BY <1>1, <1>5 DEF Booked, Stages
<1>8. Good(Showed(e))
  BY <1>1, <1>2, <1>3, <1>4, <1>5 DEF Showed, Stages
<1>9. Good(EndedOne(e))
  BY <1>1, <1>2, <1>3, <1>4, <1>5 DEF EndedOne, Stages
<1>10. Good(TimeChange(e))
  BY <1>1, <1>2, <1>3, <1>4, <1>5 DEF TimeChange, Stages
<1> HIDE DEF Good
<1>11. Good(Local(e))
  BY <1>2, <1>6, <1>7, <1>8, <1>9, <1>10 DEF Local, Kinds, TERMINAL_STATUSES
<1>12. QED
  BY <1>11 DEF Good

\* What a transition records is an appointment.
LEMMA RecordedTyped ==
  ASSUME TypeOK, NEW e \in Events
  PROVE  Recorded(e) \in [status : Kinds \cup {"none"}, last : Nat,
                          start : Nat \cup {None}, booked : BOOLEAN]
<1>1. e \in [kind : Kinds, appt : Appts, at : Nat, start : Nat \cup {None}]
  BY EventsAreTyped
<1>2. appt[e.appt] \in [status : Kinds \cup {"none"}, last : Nat,
                        start : Nat \cup {None}, booked : BOOLEAN]
  BY <1>1 DEF TypeOK
<1>3. "booked" \in Kinds
  BY DEF Kinds
<1>4. QED
  BY <1>1, <1>2, <1>3 DEF Recorded

RowRecords     == [state : RowStates, holder : Deliveries \cup {None},
                   live : BOOLEAN, of : Contents \cup {None}]
ReceiptRecords == [state : ReceiptStates, holder : Deliveries \cup {None},
                   live : BOOLEAN, content : Contents \cup {None}]
Rows           == [Events -> [Steps -> RowRecords]]

\* Of the rows one is written.
Written(e, s, r) ==
  /\ row' \in Rows /\ row'[e][s] = r
  /\ \A f \in Events, t \in Steps : f # e \/ t # s => row'[f][t] = row[f][t]

\* Writing one row in place is such a writing.
LEMMA RowIsWritten ==
  ASSUME row \in Rows, NEW e \in Events, NEW s \in Steps, NEW r \in RowRecords,
         row' = [row EXCEPT ![e][s] = r]
  PROVE  Written(e, s, r)
<1>1. row' = [row EXCEPT ![e] = [row[e] EXCEPT ![s] = r]]
  OBVIOUS
<1>2. row[e] \in [Steps -> RowRecords]
  BY DEF Rows
<1>3. [row[e] EXCEPT ![s] = r] \in [Steps -> RowRecords]
  BY <1>2
<1>4. row' \in Rows
  BY <1>1, <1>3 DEF Rows
<1>5. row'[e] = [row[e] EXCEPT ![s] = r] /\ \A f \in Events : f # e => row'[f] = row[f]
  BY <1>1 DEF Rows
<1>6. QED
  BY <1>2, <1>4, <1>5 DEF Written

\* A lease that ends is such a writing.
LEMMA RowIsFreed ==
  ASSUME row \in Rows, NEW e \in Events, NEW s \in Steps,
         row' = [row EXCEPT ![e][s].live = FALSE]
  PROVE  Written(e, s, [row[e][s] EXCEPT !.live = FALSE])
<1>1. row' = [row EXCEPT ![e][s] = [row[e][s] EXCEPT !.live = FALSE]]
  OBVIOUS
<1>2. row[e][s] \in RowRecords
  BY DEF Rows
<1>3. \A r \in RowRecords : [r EXCEPT !.live = FALSE] \in RowRecords
  BY DEF RowRecords
<1>4. QED
  BY <1>1, <1>2, <1>3, RowIsWritten

\* A receipt that is marked keeps its content and is held by nobody.
LEMMA ReceiptIsMarked ==
  ASSUME receipt \in [Events -> ReceiptRecords], NEW e \in Events, NEW s \in ReceiptStates,
         receipt' = [receipt EXCEPT ![e].state = s, ![e].holder = None, ![e].live = FALSE]
  PROVE  /\ receipt' \in [Events -> ReceiptRecords]
         /\ receipt'[e].state = s /\ receipt'[e].holder = None
         /\ receipt'[e].content = receipt[e].content
         /\ \A f \in Events : f # e => receipt'[f] = receipt[f]
<1>1. receipt[e] \in ReceiptRecords
  OBVIOUS
<1> DEFINE r1 == [receipt EXCEPT ![e].state = s]
           r2 == [r1 EXCEPT ![e].holder = None]
<1>3. /\ r1 \in [Events -> ReceiptRecords] /\ r1[e].state = s /\ r1[e].content = receipt[e].content
      /\ \A f \in Events : f # e => r1[f] = receipt[f]
  BY <1>1 DEF ReceiptRecords
<1>4. /\ r2 \in [Events -> ReceiptRecords] /\ r2[e].state = s /\ r2[e].content = receipt[e].content
      /\ r2[e].holder = None /\ \A f \in Events : f # e => r2[f] = receipt[f]
  <2> HIDE DEF r1
  <2>1. QED
    BY <1>3 DEF ReceiptRecords
<1> DEFINE r3 == [r2[e] EXCEPT !.live = FALSE]
<1>5. receipt' = [r2 EXCEPT ![e] = r3]
  OBVIOUS
<1> HIDE DEF r1, r2
<1>6. /\ r3 \in ReceiptRecords /\ r3.state = s /\ r3.holder = None
      /\ r3.content = receipt[e].content
  <2>1. r2[e] \in ReceiptRecords
    BY <1>4
  <2>2. \A q \in ReceiptRecords :
          LET r == [q EXCEPT !.live = FALSE]
          IN r \in ReceiptRecords /\ r.state = q.state /\ r.holder = q.holder /\ r.content = q.content
    BY DEF ReceiptRecords
  <2>3. QED
    BY <1>4, <2>1, <2>2
<1> HIDE DEF r3
<1>7. r2 \in [Events -> ReceiptRecords] /\ \A f \in Events : f # e => r2[f] = receipt[f]
  BY <1>4
<1>8. receipt' \in [Events -> ReceiptRecords]
  BY <1>5, <1>6, <1>7
<1>9. receipt'[e] = r3
  BY <1>5, <1>7
<1>10. QED
  BY <1>5, <1>6, <1>7, <1>8, <1>9

\* Types of rows are the types of their records.
LEMMA RowsTyped ==
  /\ ReceiptsTypeOK => row \in Rows
  /\ (/\ receipt' \in [Events -> ReceiptRecords] /\ row' \in Rows
      /\ task' \in [Deliveries -> [point : Points, event : Events \cup {None},
                              content : Contents \cup {None}, step : Steps \cup {None}]]
      /\ acked' \in [Events -> SUBSET Contents] /\ faults' \in Nat) => ReceiptsTypeOK'
BY DEF ReceiptsTypeOK, Rows, RowRecords, ReceiptRecords

\* The operations on receipts and steps are typed.
LEMMA TxTyped ==
  ASSUME TypeOK, ReceiptsAgree, NEW d \in Deliveries, task[d].point # "idle",
         NEW s \in Steps, NEW point \in Points, NEW call \in Steps \cup {None},
         \/ TxFails(d) \/ TxReplay(d, s, point, call) \/ TxCommit(d, s, point, call)
  PROVE  /\ ReceiptsTypeOK'
         /\ TxCommit(d, s, point, call) =>
              Written(EventOf(d), s, [state |-> "done", holder |-> None,
                                      live |-> FALSE, of |-> task[d].content])
<1> USE DEF TypeOK
<1>1. EventOf(d) \in Events /\ task[d].content \in Contents /\ ReceiptsTypeOK /\ row \in Rows
  BY Handles, RowsTyped
<1> DEFINE r == [state |-> "done", holder |-> None, live |-> FALSE, of |-> task[d].content]
<1>0. TxCommit(d, s, point, call) => Written(EventOf(d), s, r)
  <2>1. r \in RowRecords
    BY <1>1 DEF RowRecords, RowStates
  <2>2. QED
    BY <1>1, <2>1, RowIsWritten DEF TxCommit
<1>2. CASE TxFails(d)
  <2>1. "fail" \in Points
    BY DEF Points
  <2>2. faults' \in Nat
    BY <1>1, <1>2, FaultyTyped DEF TxFails, ReceiptsTypeOK
  <2>3. QED
    BY <1>0, <1>1, <1>2, <2>1, <2>2, GoToMoves DEF TxFails, ReceiptsTypeOK
<1>3. CASE TxReplay(d, s, point, call)
  BY <1>0, <1>1, <1>3, BeginMoves DEF TxReplay, ReceiptsTypeOK
<1>4. CASE TxCommit(d, s, point, call)
  <2>1. row' \in Rows
    BY <1>0, <1>4 DEF Written
  <2>2. QED
    BY <1>0, <1>1, <1>4, <2>1, BeginMoves, RowsTyped DEF TxCommit, ReceiptsTypeOK, ReceiptRecords
<1>5. QED
  BY <1>0, <1>2, <1>3, <1>4

\* A step that calls out claims its row, or finds it done or taken.
LEMMA ClaimRowTyped ==
  ASSUME TypeOK, ReceiptsAgree, NEW d \in Deliveries,
         NEW first \in Points, NEW next \in Points, ClaimRow(d, first, next)
  PROVE  /\ ReceiptsTypeOK'
         /\ \/ RowOf(d).state # "done" /\ GoTo(d, first)
               /\ Written(EventOf(d), StepOf(d), [state |-> "running", holder |-> d,
                                                  live |-> TRUE, of |-> None])
            \/ RowOf(d).state = "done" /\ GoTo(d, next) /\ UNCHANGED row
            \/ GoTo(d, "fail") /\ UNCHANGED row
<1>1. task[d].point = "claim" /\ ReceiptsTypeOK /\ "fail" \in Points /\ row \in Rows
  BY RowsTyped DEF TypeOK, Points, ClaimRow, At
<1>2. EventOf(d) \in Events /\ StepOf(d) \in Steps
  BY <1>1, Handles DEF ReceiptsAgree, Position, Tasks, CallPoints, Steps, StepOf
<1> DEFINE r == [state |-> "running", holder |-> d, live |-> TRUE, of |-> None]
<1>3. r \in RowRecords
  BY DEF RowRecords, RowStates
<1>4. \/ RowOf(d).state # "done" /\ GoTo(d, first) /\ Written(EventOf(d), StepOf(d), r)
      \/ RowOf(d).state = "done" /\ GoTo(d, next) /\ UNCHANGED row
      \/ GoTo(d, "fail") /\ UNCHANGED row
  BY <1>1, <1>2, <1>3, RowIsWritten DEF ClaimRow
<1>5. row' \in Rows
  BY <1>1, <1>4 DEF Written
<1>6. QED
  BY <1>1, <1>4, <1>5, GoToMoves, RowsTyped DEF ClaimRow, ReceiptsTypeOK, ReceiptRecords

\* It completes its row, or is sent to release it.
LEMMA CompleteRowTyped ==
  ASSUME TypeOK, ReceiptsAgree, NEW d \in Deliveries, NEW next \in Points, CompleteRow(d, next)
  PROVE  /\ ReceiptsTypeOK'
         /\ \/ OwnsRow(d) /\ Holds(d) /\ GoTo(d, next)
               /\ Written(EventOf(d), StepOf(d), [state |-> "done", holder |-> None,
                                                  live |-> FALSE, of |-> task[d].content])
            \/ GoTo(d, "release") /\ UNCHANGED row
<1>1. task[d].point = "complete" /\ ReceiptsTypeOK /\ "release" \in Points /\ row \in Rows
  BY RowsTyped DEF TypeOK, Points, CompleteRow, At
<1>2. EventOf(d) \in Events /\ StepOf(d) \in Steps /\ task[d].content \in Contents
  BY <1>1, Handles DEF ReceiptsAgree, Position, Tasks, CallPoints, Steps, StepOf
<1> DEFINE r == [state |-> "done", holder |-> None, live |-> FALSE, of |-> task[d].content]
<1>3. r \in RowRecords
  BY <1>2 DEF RowRecords, RowStates
<1>4. \/ OwnsRow(d) /\ Holds(d) /\ GoTo(d, next) /\ Written(EventOf(d), StepOf(d), r)
      \/ GoTo(d, "release") /\ UNCHANGED row
  BY <1>1, <1>2, <1>3, RowIsWritten DEF CompleteRow, DoneRow
<1>5. row' \in Rows
  BY <1>1, <1>4 DEF Written
<1>6. faults' \in Nat
  BY <1>1, FaultyTyped DEF CompleteRow, ReceiptsTypeOK
<1>7. QED
  BY <1>1, <1>4, <1>5, <1>6, GoToMoves, RowsTyped DEF CompleteRow, ReceiptsTypeOK, ReceiptRecords

\* It releases its row, if the row is still its own.
LEMMA ReleaseRowTyped ==
  ASSUME TypeOK, ReceiptsAgree, NEW d \in Deliveries, ReleaseRow(d)
  PROVE  /\ ReceiptsTypeOK'
         /\ \/ OwnsRow(d) /\ Written(EventOf(d), StepOf(d), [RowOf(d) EXCEPT !.live = FALSE])
            \/ UNCHANGED row
<1>1. task[d].point = "release" /\ ReceiptsTypeOK /\ "fail" \in Points /\ row \in Rows
  BY RowsTyped DEF TypeOK, Points, ReleaseRow, At
<1>2. EventOf(d) \in Events /\ StepOf(d) \in Steps
  BY <1>1, Handles DEF ReceiptsAgree, Position, Tasks, CallPoints, Steps, StepOf
<1>3. \/ OwnsRow(d) /\ Written(EventOf(d), StepOf(d), [RowOf(d) EXCEPT !.live = FALSE])
      \/ UNCHANGED row
  BY <1>1, <1>2, RowIsFreed DEF ReleaseRow, FreeRow, RowOf
<1>4. row' \in Rows
  BY <1>1, <1>3 DEF Written
<1>5. QED
  BY <1>1, <1>3, <1>4, GoToMoves, RowsTyped DEF ReleaseRow, ReceiptsTypeOK, ReceiptRecords

\* Ends, refusals, heartbeats and checks of the claim are typed.
LEMMA EndsTyped ==
  ASSUME TypeOK, ReceiptsAgree, NEW d \in Deliveries, End(d) \/ Refuse(d) \/ Renew(d) \/ CheckClaim(d)
  PROVE  ReceiptsTypeOK'
<1>1. EventOf(d) \in Events /\ task[d].content \in Contents /\ ReceiptsTypeOK /\ row \in Rows
      /\ "fail" \in Points /\ "claim" \in Points
  BY Handles, RowsTyped DEF TypeOK, Points, End, Refuse, Renew, CheckClaim, At
<1>2. Idle \in [point : Points, event : Events \cup {None},
                content : Contents \cup {None}, step : Steps \cup {None}]
  BY DEF Idle, Points
<1>3. CASE End(d)
  <2>1. faults' \in Nat
    BY <1>1, <1>3, FaultyTyped DEF End, ReceiptsTypeOK
  <2>2. acked[EventOf(d)] \cup {task[d].content} \in SUBSET Contents
    BY <1>1 DEF ReceiptsTypeOK
  <2>3. acked' \in [Events -> SUBSET Contents]
    BY <1>1, <1>3, <2>2 DEF End, ReceiptsTypeOK
  <2>4. receipt' \in [Events -> ReceiptRecords]
    <3>1. receipt \in [Events -> ReceiptRecords] /\ "applied" \in ReceiptStates
      BY <1>1 DEF ReceiptsTypeOK, ReceiptRecords, ReceiptStates
    <3>2. QED
      BY <1>1, <1>3, <3>1, ReceiptIsMarked DEF End
  <2>5. task' \in [Deliveries -> [point : Points, event : Events \cup {None},
                              content : Contents \cup {None}, step : Steps \cup {None}]]
    BY <1>1, <1>2, <1>3 DEF End, ReceiptsTypeOK
  <2>6. QED
    BY <1>1, <1>3, <2>1, <2>3, <2>4, <2>5, RowsTyped DEF End
<1>4. CASE Refuse(d)
  <2>1. receipt' \in [Events -> ReceiptRecords]
    <3>1. receipt \in [Events -> ReceiptRecords] /\ "failed" \in ReceiptStates
      BY <1>1 DEF ReceiptsTypeOK, ReceiptRecords, ReceiptStates
    <3>2. QED
      BY <1>1, <1>4, <3>1, ReceiptIsMarked DEF Refuse
  <2>2. task' \in [Deliveries -> [point : Points, event : Events \cup {None},
                              content : Contents \cup {None}, step : Steps \cup {None}]]
    BY <1>1, <1>2, <1>4 DEF Refuse, ReceiptsTypeOK
  <2>3. QED
    BY <1>1, <1>4, <2>1, <2>2 DEF Refuse, ReceiptsTypeOK, ReceiptRecords
<1>5. CASE Renew(d)
  BY <1>1, <1>5 DEF Renew, ReceiptsTypeOK
<1>6. CASE CheckClaim(d)
  BY <1>1, <1>6, GoToMoves DEF CheckClaim, ReceiptsTypeOK
<1>7. QED
  BY <1>3, <1>4, <1>5, <1>6

\* The death of a process changes who holds, nothing else.
LEMMA DieTyped ==
  ASSUME ReceiptsTypeOK, NEW d \in Deliveries, Die(d)
  PROVE  /\ ReceiptsTypeOK'
         /\ \A f \in Events : receipt'[f] = receipt[f] \/ receipt'[f] = [receipt[f] EXCEPT !.holder = None]
         /\ \A f \in Events : receipt'[f].holder # d
         /\ \A f \in Events, t \in Steps : row'[f][t].state = row[f][t].state /\ row'[f][t].of = row[f][t].of
         /\ task'[d] = Idle /\ \A c \in Deliveries : c # d => task'[c] = task[c]
<1>1. row \in Rows
  BY RowsTyped
<1>2. \A f \in Events :
        /\ receipt[f] \in ReceiptRecords
        /\ receipt'[f] = IF receipt[f].holder = d THEN [receipt[f] EXCEPT !.holder = None] ELSE receipt[f]
  BY DEF Die, ReceiptsTypeOK, ReceiptRecords
<1>3. \A f \in Events :
        /\ receipt'[f] \in ReceiptRecords /\ receipt'[f].holder # d
        /\ receipt'[f] = receipt[f] \/ receipt'[f] = [receipt[f] EXCEPT !.holder = None]
  BY <1>2, NoneIsNothing DEF ReceiptRecords
<1>4. receipt' \in [Events -> ReceiptRecords]
  <2>1. receipt' = [f \in Events |-> receipt'[f]]
    BY DEF Die
  <2>2. QED
    BY <1>3, <2>1
<1>5. \A f \in Events, t \in Steps :
        /\ row[f][t] \in RowRecords
        /\ row'[f][t] = IF row[f][t].holder = d THEN [row[f][t] EXCEPT !.holder = None] ELSE row[f][t]
  BY <1>1 DEF Die, Rows
<1>6. \A f \in Events, t \in Steps :
        row'[f][t] \in RowRecords /\ row'[f][t].state = row[f][t].state /\ row'[f][t].of = row[f][t].of
  BY <1>5 DEF RowRecords
<1>7. row' \in Rows
  <2>1. row' = [f \in Events |-> [t \in Steps |-> row'[f][t]]]
    BY DEF Die
  <2>2. QED
    BY <1>6, <2>1 DEF Rows
<1>8. faults' \in Nat
  BY FaultyTyped DEF Die, ReceiptsTypeOK
<1>9. Idle \in [point : Points, event : Events \cup {None},
                content : Contents \cup {None}, step : Steps \cup {None}]
  BY DEF Idle, Points
<1>10. /\ task' \in [Deliveries -> [point : Points, event : Events \cup {None},
                              content : Contents \cup {None}, step : Steps \cup {None}]]
       /\ task'[d] = Idle /\ \A c \in Deliveries : c # d => task'[c] = task[c]
  BY <1>9 DEF Die, ReceiptsTypeOK
<1>11. acked' \in [Events -> SUBSET Contents]
  BY DEF Die, ReceiptsTypeOK
<1>12. QED
  BY <1>3, <1>4, <1>6, <1>7, <1>8, <1>10, <1>11, RowsTyped

\* The lease of a running row ends, and nothing else of it.
LEMMA LapseRowTyped ==
  ASSUME ReceiptsTypeOK, NEW e \in Events, NEW s \in CallSteps, LapseRow(e, s)
  PROVE  /\ ReceiptsTypeOK' /\ row[e][s].state = "running"
         /\ Written(e, s, [row[e][s] EXCEPT !.live = FALSE])
<1>1. row \in Rows /\ s \in Steps /\ row[e][s].state = "running"
  BY RowsTyped DEF Steps, LapseRow
<1>2. Written(e, s, [row[e][s] EXCEPT !.live = FALSE])
  BY <1>1, RowIsFreed DEF LapseRow
<1>3. faults' \in Nat
  BY FaultyTyped DEF LapseRow, ReceiptsTypeOK
<1>4. QED
  BY <1>1, <1>2, <1>3, RowsTyped DEF LapseRow, Written, ReceiptsTypeOK, ReceiptRecords

\* Claims of receipts, acknowledged duplicates and lapsed receipts are typed.
LEMMA OutsideTyped ==
  ASSUME ReceiptsTypeOK, NEW e \in Events,
         \/ \E d \in Deliveries, c \in Contents : ClaimReceipt(d, e, c)
         \/ \E c \in Contents : AckDuplicate(e, c)
         \/ LapseReceipt(e)
  PROVE  ReceiptsTypeOK'
<1>1. ASSUME NEW d \in Deliveries, NEW c \in Contents, ClaimReceipt(d, e, c)
      PROVE  ReceiptsTypeOK'
  BY <1>1 DEF ClaimReceipt, ReceiptsTypeOK, ReceiptStates, Points
<1>2. ASSUME NEW c \in Contents, AckDuplicate(e, c)
      PROVE  ReceiptsTypeOK'
  BY <1>2 DEF AckDuplicate, ReceiptsTypeOK
<1>3. CASE LapseReceipt(e)
  <2>1. faults' \in Nat
    BY <1>3, FaultyTyped DEF LapseReceipt, ReceiptsTypeOK
  <2>2. QED
    BY <1>3, <2>1 DEF LapseReceipt, ReceiptsTypeOK
<1>4. QED
  BY <1>1, <1>2, <1>3

\* One lemma per kind of step: transitions,
LEMMA TypesOfTransition ==
  ASSUME TypeOK, ReceiptsAgree, NEW d \in Deliveries, Transition(d)
  PROVE  TypeOK'
<1> DEFINE e == EventOf(d)
<1>1. task[d].point # "idle" /\ e \in Events /\ e.appt \in Appts
  BY Handles DEF Transition, At
<1>2. Recorded(e) \in [status : Kinds \cup {"none"}, last : Nat,
                        start : Nat \cup {None}, booked : BOOLEAN]
  BY <1>1, RecordedTyped
<1>3. "local" \in Points /\ "end" \in Points /\ "transition" \in Steps
  BY DEF Points, Steps, TxSteps
<1>4. ReceiptsTypeOK'
  <2>1. \E point \in {"local", "end"} :
          \/ TxFails(d) \/ TxReplay(d, "transition", point, None)
          \/ TxCommit(d, "transition", point, None)
    BY Zenon DEF Transition
  <2>2. QED
    BY <1>1, <1>3, <2>1, TxTyped
<1>5. appt' \in [Appts -> [status : Kinds \cup {"none"}, last : Nat,
                           start : Nat \cup {None}, booked : BOOLEAN]]
  BY <1>1, <1>2 DEF Transition, TypeOK
<1>6. plan' \in [Events -> [verdict : Verdicts, outcome : Outcomes, handoff : Answers]]
  BY <1>1 DEF Transition, TypeOK, Verdicts
<1>7. QED
  BY <1>4, <1>5, <1>6 DEF Transition, TypeOK, handoffVars, history

\* local steps,
LEMMA TypesOfLocalStep ==
  ASSUME TypeOK, ReceiptsAgree, NEW d \in Deliveries, LocalStep(d)
  PROVE  TypeOK'
<1> DEFINE e == EventOf(d)
<1>1. task[d].point # "idle" /\ e \in Events /\ e.appt \in Appts
  BY Handles DEF LocalStep, At
<1>2. /\ Local(e).lead \in [stage : Stages, meeting : Appts \cup {None}]
      /\ Local(e).outcome \in Outcomes
  BY <1>1, LocalTyped DEF Outcomes
<1>3. /\ \A o : After(e, o) \in Points /\ FirstCall(e, o) \in Steps \cup {None}
      /\ "local" \in Steps
  BY DEF Points, Steps, TxSteps, CallSteps, After, FirstCall
<1> HIDE DEF e
<1>4. ReceiptsTypeOK'
  <2>1. \E o \in {plan[e].outcome, Local(e).outcome} :
          \/ TxFails(d) \/ TxReplay(d, "local", After(e, o), FirstCall(e, o))
          \/ TxCommit(d, "local", After(e, o), FirstCall(e, o))
    BY Zenon DEF LocalStep, e
  <2>2. QED
    BY <1>1, <1>3, <2>1, TxTyped
<1>5. lead' \in [stage : Stages, meeting : Appts \cup {None}]
  BY <1>2 DEF LocalStep, TypeOK, e
<1>6. plan' \in [Events -> [verdict : Verdicts, outcome : Outcomes, handoff : Answers]]
  <2>1. plan' = plan \/ plan' = [plan EXCEPT ![e].outcome = Local(e).outcome]
    BY DEF LocalStep, e
  <2>2. QED
    BY <1>1, <1>2, <2>1 DEF TypeOK
<1>7. owed' \in [Appts -> Owed] /\ cut' \subseteq Appts
  <2>1. \/ owed' = owed /\ cut' = cut
        \/ /\ owed' = [owed EXCEPT ![e.appt] = IF @ = "pending" THEN "none" ELSE @]
           /\ cut' = cut \cup {e.appt}
    BY DEF LocalStep, e
  <2>2. QED
    BY <1>1, <2>1 DEF TypeOK, Owed
<1>8. QED
  BY <1>4, <1>5, <1>6, <1>7 DEF LocalStep, TypeOK

\* A move that changes no receipt and no row.
LEMMA MoveTyped ==
  ASSUME TypeOK, NEW d \in Deliveries, NEW point \in Points,
         GoTo(d, point) \/ \E s \in Steps \cup {None} : Begin(d, point, s),
         UNCHANGED <<receipt, row, acked>>, UNCHANGED faults \/ Faulty
  PROVE  ReceiptsTypeOK'
<1>1. ReceiptsTypeOK /\ row' \in Rows
  BY RowsTyped DEF TypeOK
<1>2. faults' \in Nat
  BY <1>1, FaultyTyped DEF ReceiptsTypeOK
<1>3. QED
  BY <1>1, <1>2, GoToMoves, BeginMoves, RowsTyped DEF ReceiptsTypeOK, ReceiptRecords

\* the steps that call out and the ends of a delivery,
LEMMA TypesOfSteps ==
  ASSUME TypeOK, ReceiptsAgree, NEW d \in Deliveries,
         \/ StepClaim(d) \/ Call(d) \/ StepDone(d) \/ Recheck(d)
         \/ ((CheckClaim(d) \/ End(d) \/ Refuse(d) \/ Renew(d)) /\ ReceiptFrame)
         \/ (ReleaseRow(d) /\ Forget(d)) \/ (Die(d) /\ Forget(d))
  PROVE  TypeOK'
<1>1. /\ \A p \in {"dispatch", "call", "recheck", "end", "check", "complete", "release"} : p \in Points
      /\ "confirm" \in Steps /\ None \in Steps \cup {None}
  BY DEF Points, Steps, CallSteps
<1>2. CASE StepClaim(d)
  <2>1. \E first \in Points, next \in Points : ClaimRow(d, first, next)
    BY <1>1, <1>2, Zenon DEF StepClaim
  <2>2. ReceiptsTypeOK'
    BY <2>1, ClaimRowTyped
  <2>3. QED
    BY <1>2, <2>2 DEF StepClaim, TypeOK, apptVars, handoffVars, history
<1>3. CASE Call(d)
  <2>1. ReceiptsTypeOK'
    BY <1>1, <1>3, MoveTyped DEF Call
  <2>2. QED
    BY <1>3, <2>1 DEF Call, TypeOK, handoffVars, history
<1>4. CASE StepDone(d)
  <2>1. \E next \in Points : CompleteRow(d, next)
    BY <1>1, <1>4, Zenon DEF StepDone
  <2>2. ReceiptsTypeOK'
    BY <2>1, CompleteRowTyped
  <2>3. EventOf(d) \in Events
    BY <1>4, Handles DEF StepDone, CompleteRow, At
  <2>4. plan' = plan \/ plan' = [plan EXCEPT ![EventOf(d)].handoff = answer[d]]
    BY <1>4 DEF StepDone
  <2>5. /\ plan' \in [Events -> [verdict : Verdicts, outcome : Outcomes, handoff : Answers]]
        /\ answer' \in [Deliveries -> Answers]
    BY <1>4, <2>3, <2>4 DEF StepDone, TypeOK, Answers
  <2>6. QED
    BY <1>4, <2>2, <2>5 DEF StepDone, TypeOK, history
<1>5. CASE Recheck(d)
  <2>1. ReceiptsTypeOK'
    BY <1>1, <1>5, MoveTyped DEF Recheck
  <2>2. QED
    BY <1>5, <2>1 DEF Recheck, TypeOK, apptVars, handoffVars, history
<1>6. CASE (CheckClaim(d) \/ End(d) \/ Refuse(d) \/ Renew(d)) /\ ReceiptFrame
  <2>1. ReceiptsTypeOK'
    BY <1>6, EndsTyped
  <2>2. QED
    BY <1>6, <2>1 DEF ReceiptFrame, TypeOK, apptVars, handoffVars, history
<1>7. CASE (ReleaseRow(d) \/ Die(d)) /\ Forget(d)
  <2>1. ReceiptsTypeOK'
    BY <1>7, ReleaseRowTyped, DieTyped DEF TypeOK
  <2>2. QED
    BY <1>7, <2>1 DEF Forget, TypeOK, apptVars, history, Answers
<1>8. QED
  BY <1>2, <1>3, <1>4, <1>5, <1>6, <1>7

\* A settlement changes the entry that it is of, and only one that started.
LEMMA SettleWrites ==
  ASSUME TypeOK, NEW a \in Appts, NEW reply, Settle(a, reply) \/ UNCHANGED ledger
  PROVE  /\ ledger' \in [Appts -> Ledger]
         /\ \A b \in Appts : b # a => ledger'[b] = ledger[b]
         /\ \/ ledger'[a] = ledger[a]
            \/ ledger[a] = "started" /\ reply = "accepted" /\ ledger'[a] = "accepted"
            \/ ledger[a] = "started" /\ reply \in {"held", "rejected"} /\ ledger'[a] = "refused"
<1>1. ledger \in [Appts -> Ledger]
  BY DEF TypeOK
<1>2. \/ ledger' = ledger
      \/ reply = "accepted" /\ ledger[a] = "started" /\ ledger' = [ledger EXCEPT ![a] = "accepted"]
      \/ reply \in {"held", "rejected"} /\ ledger[a] = "started"
         /\ ledger' = [ledger EXCEPT ![a] = "refused"]
  <2>1. CASE ledger[a] = "started"
    BY <1>1, <2>1 DEF Settle
  <2>2. CASE ledger[a] # "started"
    <3>1. [ledger EXCEPT ![a] = ledger[a]] = ledger
      BY <1>1
    <3>2. QED
      BY <1>1, <2>2, <3>1 DEF Settle
  <2>3. QED
    BY <2>1, <2>2
<1>3. QED
  BY <1>1, <1>2 DEF Ledger

\* the hand-over of a delivery,
LEMMA TypesOfHandover ==
  ASSUME TypeOK, ReceiptsAgree, NEW d \in Deliveries,
         Dispatch(d) \/ Send(d) \/ SettleSent(d) \/ Defer(d)
  PROVE  TypeOK'
<1>1. ApptOf(d) \in Appts
  BY Handles DEF Dispatch, Send, SettleSent, Defer, At
<1>2. \A p \in {"send", "complete", "settle", "defer", "release"} : p \in Points
  BY DEF Points
<1>3. CASE Dispatch(d)
  <2>1. ReceiptsTypeOK'
    BY <1>2, <1>3, MoveTyped DEF Dispatch
  <2>2. ledger' \in [Appts -> Ledger] /\ answer' \in [Deliveries -> Answers]
    BY <1>1, <1>3 DEF Dispatch, Start, TypeOK, Ledger, Answers
  <2>3. QED
    BY <1>3, <2>1, <2>2 DEF Dispatch, TypeOK, apptVars, history
<1>4. CASE Send(d)
  <2>1. UNCHANGED faults \/ Faulty
    BY <1>4 DEF Send
  <2>2. ReceiptsTypeOK'
    BY <1>2, <1>4, <2>1, MoveTyped DEF Send
  <2>3. confirmed' \in [Appts -> 0 .. 2] /\ answer' \in [Deliveries -> Answers]
    BY <1>1, <1>4 DEF Send, Reply, TypeOK
  <2>4. QED
    BY <1>4, <2>2, <2>3 DEF Send, TypeOK, apptVars, history
<1>5. CASE SettleSent(d)
  <2>1. \E p \in Points : GoTo(d, p)
    BY <1>2, <1>5 DEF SettleSent
  <2>2. UNCHANGED faults \/ Faulty
    BY <1>5 DEF SettleSent
  <2>3. ReceiptsTypeOK'
    BY <1>5, <2>1, <2>2, MoveTyped DEF SettleSent
  <2>4. ledger' \in [Appts -> Ledger]
    BY <1>1, <1>5, SettleWrites DEF SettleSent
  <2>5. QED
    BY <1>5, <2>3, <2>4 DEF SettleSent, TypeOK, apptVars, history
<1>6. CASE Defer(d)
  <2>1. ReceiptsTypeOK'
    BY <1>2, <1>6, MoveTyped DEF Defer
  <2>2. owed' \in [Appts -> Owed] /\ cut' \subseteq Appts
    BY <1>1, <1>6 DEF Defer, TypeOK, Owed
  <2>3. QED
    BY <1>6, <2>1, <2>2 DEF Defer, TypeOK, apptVars
<1>7. QED
  BY <1>3, <1>4, <1>5, <1>6

\* what comes from outside: deliveries, deaths and lapses,
LEMMA TypesOfOutside ==
  ASSUME TypeOK,
         \/ \E d \in Deliveries, e \in Events, c \in Contents : Deliver(d, e, c)
         \/ \E m \in sent : AckDuplicate(m[1], m[2]) /\ ReceiptFrame
         \/ \E e \in Events : LapseReceipt(e) /\ ReceiptFrame
         \/ \E e \in Events, s \in CallSteps : LapseRow(e, s) /\ ReceiptFrame
  PROVE  TypeOK'
<1>0. ReceiptsTypeOK
  BY DEF TypeOK
<1>1. ASSUME NEW d \in Deliveries, NEW e \in Events, NEW c \in Contents, Deliver(d, e, c)
      PROVE  TypeOK'
  <2>1. ReceiptsTypeOK'
    BY <1>0, <1>1, OutsideTyped DEF Deliver
  <2>2. tardy' \subseteq Deliveries
    BY <1>1 DEF Deliver, TypeOK
  <2>3. QED
    BY <1>1, <2>1, <2>2 DEF Deliver, TypeOK, apptVars, handoffVars
<1>2. ASSUME NEW m \in sent, AckDuplicate(m[1], m[2]), ReceiptFrame
      PROVE  TypeOK'
  <2>1. m[1] \in Events /\ m[2] \in Contents
    BY ScenariosAreBounded DEF TypeOK
  <2>2. ReceiptsTypeOK'
    BY <1>0, <1>2, <2>1, OutsideTyped
  <2>3. QED
    BY <1>2, <2>2 DEF ReceiptFrame, TypeOK, apptVars, handoffVars, history
<1>3. ASSUME NEW e \in Events, LapseReceipt(e), ReceiptFrame
      PROVE  TypeOK'
  <2>1. ReceiptsTypeOK'
    BY <1>0, <1>3, OutsideTyped
  <2>2. QED
    BY <1>3, <2>1 DEF ReceiptFrame, TypeOK, apptVars, handoffVars, history
<1>4. ASSUME NEW e \in Events, NEW s \in CallSteps, LapseRow(e, s), ReceiptFrame
      PROVE  TypeOK'
  <2>1. ReceiptsTypeOK'
    BY <1>0, <1>4, LapseRowTyped
  <2>2. QED
    BY <1>4, <2>1 DEF ReceiptFrame, TypeOK, apptVars, handoffVars, history
<1>5. QED
  BY <1>1, <1>2, <1>3, <1>4

\* and the recovery worker.
LEMMA TypesOfRecovery ==
  ASSUME TypeOK, RecoveryAgrees, (\E a \in Appts : Recover(a)) \/ RecoveryStep \/ RecoveryDies
  PROVE  TypeOK'
<1> DEFINE a == recovery.appt
           Moves == /\ recovery' \in [point : Working, appt : Appts \cup {None}, answer : Answers]
                    /\ owed' \in [Appts -> Owed] /\ ledger' \in [Appts -> Ledger]
                    /\ confirmed' \in [Appts -> 0 .. 2]
<1>1. faults \in Nat /\ AtRest \in [point : Working, appt : Appts \cup {None}, answer : Answers]
  BY DEF TypeOK, ReceiptsTypeOK, AtRest, Working, Answers
<1>2. UNCHANGED faults \/ Faulty
  BY DEF Recover, RecoveryStep, RecoveryDies, Lock, DispatchRecovered, SendRecovered,
         SettleRecovered, Retire, Park
<1>3. faults' \in Nat
  BY <1>1, <1>2, FaultyTyped
<1>4. RecoveryFrame
  BY DEF Recover, RecoveryStep, RecoveryDies, Lock, DispatchRecovered, SendRecovered,
         SettleRecovered, Retire, Park
<1>5. Moves
  <2>1. ASSUME NEW b \in Appts, Recover(b)
        PROVE  Moves
    BY <2>1 DEF Recover, TypeOK, Working, Answers
  <2>2. CASE Lock
    BY <1>1, <2>2 DEF Lock, RecoveryGoes, TypeOK, Working
  <2>3. CASE DispatchRecovered
    <3>1. a \in Appts
      BY <2>3 DEF DispatchRecovered, RecoveryAt, RecoveryAgrees
    <3>2. recovery' \in [point : Working, appt : Appts \cup {None}, answer : Answers]
      BY <1>1, <2>3 DEF DispatchRecovered, RecoveryGoes, TypeOK, Working, Answers
    <3>3. owed' \in [Appts -> Owed] /\ ledger' \in [Appts -> Ledger]
      BY <2>3, <3>1 DEF DispatchRecovered, Start, TypeOK, Owed, Ledger
    <3>4. QED
      BY <2>3, <3>2, <3>3 DEF DispatchRecovered, TypeOK
  <2>4. CASE SendRecovered
    <3>1. a \in Appts
      BY <2>4 DEF SendRecovered, RecoveryAt, RecoveryAgrees
    <3>2. confirmed' \in [Appts -> 0 .. 2]
      BY <2>4, <3>1 DEF SendRecovered, Reply, TypeOK
    <3>3. QED
      BY <2>4, <3>2 DEF SendRecovered, TypeOK, Working, Answers
  <2>5. CASE SettleRecovered
    <3>1. a \in Appts
      BY <2>5 DEF SettleRecovered, RecoveryAt, RecoveryAgrees
    <3>2. ledger' \in [Appts -> Ledger]
      BY <2>5, <3>1, SettleWrites DEF SettleRecovered
    <3>3. QED
      BY <2>5, <3>2 DEF SettleRecovered, RecoveryGoes, TypeOK, Working, Answers
  <2>6. CASE Retire
    BY <1>1, <2>6 DEF Retire, RecoveryAt, RecoveryAgrees, RecoveryGoes, TypeOK, Working, Owed
  <2>7. CASE Park
    BY <1>1, <2>7 DEF Park, RecoveryAt, RecoveryAgrees, TypeOK, Owed
  <2>8. CASE RecoveryDies
    BY <1>1, <2>8 DEF RecoveryDies, TypeOK
  <2>9. QED
    BY <2>1, <2>2, <2>3, <2>4, <2>5, <2>6, <2>7, <2>8 DEF RecoveryStep
<1>6. QED
  BY <1>3, <1>4, <1>5 DEF RecoveryFrame, apptVars, history, TypeOK, ReceiptsTypeOK

\* Every step is typed.
LEMMA TypesHold ==
  ASSUME TypeOK, ReceiptsAgree, RecoveryAgrees, [Next]_vars
  PROVE  TypeOK'
<1>1. CASE UNCHANGED vars
  BY <1>1 DEF vars, receiptVars, apptVars, handoffVars, history, TypeOK, ReceiptsTypeOK
<1>2. CASE Next
  BY <1>2, TypesOfTransition, TypesOfLocalStep, TypesOfSteps, TypesOfHandover, TypesOfOutside,
     TypesOfRecovery, Zenon DEF Next, DeliveryStep
<1>3. QED
  BY <1>1, <1>2

-----------------------------------------------------------------------------
(* Receipts agree: what is durable stays *)

\* A step keeps what ran, the plans that it made and the ends of appointments.
Kept ==
  /\ \A e \in Events, s \in Steps : Ran(e, s) => Ran(e, s)' /\ row'[e][s].of = row[e][s].of
  /\ \A e \in Events : /\ Ran(e, "transition") => plan'[e].verdict = plan[e].verdict
                       /\ Ran(e, "local") \/ plan[e].verdict # "apply" =>
                            plan'[e].outcome = plan[e].outcome
  /\ \A a \in Appts : Ended(a) => appt'[a] = appt[a]

\* A step completes nothing, plans nothing and records nothing.
Quiet ==
  /\ \A e \in Events, s \in Steps :
       (Ran(e, s)' <=> Ran(e, s)) /\ (Ran(e, s) => row'[e][s].of = row[e][s].of)
  /\ \A e \in Events : plan'[e].verdict = plan[e].verdict /\ plan'[e].outcome = plan[e].outcome
  /\ appt' = appt

StaysPut(d) == task'[d] = task[d]
SameWork(d) == task'[d].event = task[d].event /\ task'[d].content = task[d].content

\* A quiet step keeps what is durable.
LEMMA QuietIsKept ==
  ASSUME Quiet
  PROVE  Kept
BY DEF Quiet, Kept

\* So does one that writes no row, plan or appointment.
LEMMA UnchangedIsQuiet ==
  ASSUME UNCHANGED <<row, plan, appt>>
  PROVE  Quiet
BY DEF Quiet, Ran

\* The first call is a pause, a resumption or none, never the confirmation.
LEMMA FirstCallIsStep ==
  ASSUME NEW e, NEW o
  PROVE  /\ FirstCall(e, o) \in {"pause", "resume", None}
         /\ FirstCall(e, o) # "confirm"
BY NoneIsNothing DEF FirstCall, Steps, CallSteps

\* A superseded event stays superseded.
LEMMA SupersededStays ==
  ASSUME Kept, NEW e \in Events, Superseded(e)
  PROVE  Superseded(e)'
BY EventsAreTyped DEF Kept, Superseded, Ended

\* A step that is due stays due.
LEMMA DueStays ==
  ASSUME Kept, NEW e \in Events, NEW s, Due(e, s)
  PROVE  Due(e, s)'
<1>1. "transition" \in Steps /\ "local" \in Steps /\ "pause" \in Steps
  BY DEF Steps, TxSteps, CallSteps
<1>2. /\ plan'[e].verdict = plan[e].verdict /\ plan'[e].outcome = plan[e].outcome
      /\ Ran(e, "transition")' /\ Ran(e, "local")' /\ (Ran(e, "pause") => Ran(e, "pause")')
  BY <1>1 DEF Due, Kept
<1>3. QED
  BY <1>2 DEF Due

\* An event that is through stays through.
LEMMA ThroughStays ==
  ASSUME Kept, NEW e \in Events, Through(e)
  PROVE  Through(e)'
<1> DEFINE s == FirstCall(e, plan[e].outcome)
<1>1. "transition" \in Steps /\ "local" \in Steps /\ "confirm" \in Steps
  BY DEF Steps, TxSteps, CallSteps
<1>2. plan'[e].verdict = plan[e].verdict /\ Ran(e, "transition")'
  BY <1>1 DEF Through, Kept
<1>3. plan'[e].outcome = plan[e].outcome /\ (plan[e].verdict = "apply" => Ran(e, "local")')
  BY <1>1 DEF Through, Kept
<1>4. FirstCall(e, plan'[e].outcome) = s
  BY <1>3
<1>5. s # None => row'[e][s].state = "done"
  <2>1. s # None => s \in Steps /\ Ran(e, s)
    BY FirstCallIsStep DEF Steps, CallSteps, Through
  <2>2. \A t \in Steps : Ran(e, t) => row'[e][t].state = "done"
    BY DEF Kept, Ran
  <2> HIDE DEF s
  <2>3. QED
    BY <2>1, <2>2
<1>6. s = "pause" => Ran(e, "confirm")' \/ Superseded(e)'
  BY <1>1, SupersededStays DEF Through, Kept
<1> HIDE DEF s
<1>7. QED
  BY <1>2, <1>3, <1>4, <1>5, <1>6 DEF Through, Ran

\* A delivery that stays where it is keeps its position.
LEMMA PositionStays ==
  ASSUME Kept, NEW t, Position(t)
  PROVE  Position(t)'
<1>1. CASE t.point = "idle"
  BY <1>1 DEF Position, CallPoints, HandoverPoints
<1>2. CASE t.point # "idle"
  <2>1. t.event \in Events
    BY <1>2 DEF Position
  <2>2. "transition" \in Steps
    BY DEF Steps, TxSteps
  <2>3. t.point = "local" => Ran(t.event, "transition")' /\ plan'[t.event].verdict = "apply"
    BY <2>1, <2>2 DEF Position, Kept
  <2>4. t.point \in CallPoints => Due(t.event, t.step)'
    BY <2>1, DueStays DEF Position
  <2>5. t.point = "recheck" => Due(t.event, "confirm")'
    BY <2>1, DueStays DEF Position
  <2>6. t.point = "end" => Through(t.event)'
    BY <2>1, ThroughStays DEF Position
  <2>7. QED
    BY <1>2, <2>1, <2>3, <2>4, <2>5, <2>6 DEF Position
<1>3. QED
  BY <1>1, <1>2

\* So that a move of one delivery is to be looked at for that delivery alone.
LEMMA OneMoves ==
  ASSUME Kept, \A t \in Tasks : Position(t), NEW d \in Deliveries,
         \A c \in Deliveries : c # d => task'[c] = task[c],
         NEW u, u = task'[d], Position(u)'
  PROVE  \A t \in Tasks' : Position(t)'
<1>1. ASSUME NEW t \in Tasks'
      PROVE  Position(t)'
  <2>1. PICK c \in Deliveries : t = task'[c]
    BY DEF Tasks
  <2>2. CASE c = d
    BY <2>1, <2>2
  <2>3. CASE c # d
    <3>1. t \in Tasks
      BY <2>1, <2>3 DEF Tasks
    <3>2. QED
      BY <3>1, PositionStays
  <2>4. QED
    BY <2>2, <2>3
<1>2. QED
  BY <1>1

\* If no delivery moves, all keep their positions.
LEMMA NoneMoves ==
  ASSUME Kept, \A t \in Tasks : Position(t), task' = task
  PROVE  \A t \in Tasks' : Position(t)'
<1>1. Tasks' = Tasks
  BY DEF Tasks
<1>2. QED
  BY <1>1, PositionStays

\* A quiet step leaves what rows and plans say.
LEMMA QuietAgrees ==
  ASSUME ReceiptsAgree, Quiet,
         \A e \in Events : receipt'[e].content = receipt[e].content
                           /\ (receipt'[e].state = "none" => receipt[e].state = "none")
  PROVE  RowsAgree' /\ PlansAgree'
<1>1. RowsAgree'
  BY DEF ReceiptsAgree, RowsAgree, Quiet, Ran
<1>2. "transition" \in Steps /\ "local" \in Steps
  BY DEF Steps, TxSteps
<1>3. PlansAgree'
  BY <1>2 DEF ReceiptsAgree, PlansAgree, Quiet
<1>4. QED
  BY <1>1, <1>3

\* A step that keeps what ran and leaves the receipts keeps what is applied.
LEMMA KeptAgrees ==
  ASSUME ReceiptsAgree, Kept, UNCHANGED <<receipt, acked>>
  PROVE  AppliedIsThrough'
<1>1. \A e \in Events : Through(e) => Through(e)'
  BY ThroughStays
<1>2. QED
  BY <1>1 DEF ReceiptsAgree, AppliedIsThrough

\* Moves of a delivery at its work leave the holders.
LEMMA HoldersStay ==
  ASSUME TypeOK, ReceiptsAgree, receipt' = receipt, NEW d \in Deliveries,
         \A c \in Deliveries : c # d => task'[c] = task[c], SameWork(d)
  PROVE  HoldersHandle'
<1>1. \A e \in Events : receipt[e].holder \in Deliveries \cup {None}
  BY DEF TypeOK, ReceiptsTypeOK
<1>2. \A c \in Deliveries : task'[c].event = task[c].event /\ task'[c].content = task[c].content
  BY DEF SameWork
<1>3. QED
  BY <1>1, <1>2 DEF ReceiptsAgree, HoldersHandle

\* A quiet step that moves one delivery to a position it may have.
LEMMA QuietMove ==
  ASSUME TypeOK, ReceiptsAgree, Quiet, UNCHANGED <<receipt, acked>>, NEW d \in Deliveries,
         \A c \in Deliveries : c # d => task'[c] = task[c], SameWork(d),
         NEW u, u = task'[d], Position(u)'
  PROVE  ReceiptsAgree'
<1>1. Kept
  BY QuietIsKept
<1>2. RowsAgree' /\ PlansAgree'
  BY QuietAgrees
<1>3. AppliedIsThrough'
  BY <1>1, KeptAgrees
<1>4. HoldersHandle'
  BY HoldersStay
<1>5. \A t \in Tasks' : Position(t)'
  BY <1>1, OneMoves DEF ReceiptsAgree
<1>6. QED
  BY <1>2, <1>3, <1>4, <1>5 DEF ReceiptsAgree

\* A quiet step that moves none.
LEMMA QuietStill ==
  ASSUME TypeOK, ReceiptsAgree, Quiet, UNCHANGED <<receipt, acked, task>>
  PROVE  ReceiptsAgree'
<1>1. Kept
  BY QuietIsKept
<1>2. RowsAgree' /\ PlansAgree'
  BY QuietAgrees
<1>3. AppliedIsThrough'
  BY <1>1, KeptAgrees
<1>4. HoldersHandle'
  BY DEF ReceiptsAgree, HoldersHandle
<1>5. \A t \in Tasks' : Position(t)'
  BY <1>1, NoneMoves DEF ReceiptsAgree
<1>6. QED
  BY <1>2, <1>3, <1>4, <1>5 DEF ReceiptsAgree

-----------------------------------------------------------------------------
(* Receipts agree: quiet steps *)

\* In a quiet step it is enough that the new position holds of what is durable.
LEMMA QuietGo ==
  ASSUME TypeOK, ReceiptsAgree, Quiet, UNCHANGED <<receipt, acked>>, NEW d \in Deliveries,
         \A c \in Deliveries : c # d => task'[c] = task[c], SameWork(d), Position(task'[d])
  PROVE  ReceiptsAgree'
<1>1. PICK u : u = task'[d]
  OBVIOUS
<1>2. Position(u)
  BY <1>1
<1>3. Position(u)'
  BY <1>2, PositionStays, QuietIsKept
<1>4. QED
  BY <1>1, <1>3, QuietMove

\* What is due, and when an event is through.
LEMMA DueOrder ==
  ASSUME ReceiptsAgree, NEW e \in Events
  PROVE  /\ Ran(e, "transition") /\ plan[e].verdict # "apply" => Through(e)
         /\ Due(e, "pause") /\ Ran(e, "pause") => Due(e, "confirm")
         /\ Due(e, "confirm") /\ (Ran(e, "confirm") \/ Superseded(e)) => Through(e)
         /\ Due(e, "resume") /\ Ran(e, "resume") => Through(e)
         /\ Ran(e, "transition") /\ plan[e].verdict = "apply" /\ Ran(e, "local") =>
              IF FirstCall(e, plan[e].outcome) = None THEN Through(e)
              ELSE /\ Due(e, FirstCall(e, plan[e].outcome))
                   /\ FirstCall(e, plan[e].outcome) \in CallSteps
<1> DEFINE s == FirstCall(e, plan[e].outcome)
<1>1. s \in {"pause", "resume", None} /\ s # "confirm" /\ None \notin CallSteps
  BY FirstCallIsStep, NoneIsNothing DEF Steps
<1>2. Ran(e, "transition") /\ plan[e].verdict # "apply" => s = None
  BY NoneIsNothing DEF ReceiptsAgree, PlansAgree, FirstCall
<1>3. None # "pause" /\ None # "resume"
  BY <1>1 DEF CallSteps
<1> HIDE DEF s
<1>4. QED
  BY <1>1, <1>2, <1>3 DEF Due, Through, s, CallSteps

\* A quiet move within the step that a delivery is at.
LEMMA GoQuiet ==
  ASSUME TypeOK, ReceiptsAgree, NEW d \in Deliveries, NEW point \in Points \ {"idle"},
         GoTo(d, point), Quiet, UNCHANGED <<receipt, acked>>,
         LET e == task[d].event s == task[d].step
         IN /\ e \in Events /\ task[d].content \in Contents
            /\ point # "local"
            /\ point \in CallPoints => s \in CallSteps /\ Due(e, s)
            /\ point \in HandoverPoints => s = "confirm"
            /\ point = "recheck" => Due(e, "confirm")
            /\ point = "end" => Through(e)
  PROVE  ReceiptsAgree'
<1>1. /\ task'[d].point = point /\ task'[d].event = task[d].event
      /\ task'[d].content = task[d].content /\ task'[d].step = task[d].step
      /\ \A c \in Deliveries : c # d => task'[c] = task[c]
  BY GoToMoves DEF TypeOK
<1>2. Position(task'[d])
  BY <1>1 DEF Position
<1>3. QED
  BY <1>1, <1>2, QuietGo DEF SameWork

\* A quiet move to another step.
LEMMA BeginQuiet ==
  ASSUME TypeOK, ReceiptsAgree, NEW d \in Deliveries, NEW point \in Points \ {"idle"},
         NEW s \in Steps \cup {None}, Begin(d, point, s), Quiet, UNCHANGED <<receipt, acked>>,
         LET e == task[d].event
         IN /\ e \in Events /\ task[d].content \in Contents
            /\ point = "local" => Ran(e, "transition") /\ plan[e].verdict = "apply"
            /\ point \in CallPoints => s \in CallSteps /\ Due(e, s)
            /\ point \notin HandoverPoints /\ point # "recheck"
            /\ point = "end" => Through(e)
  PROVE  ReceiptsAgree'
<1>1. /\ task'[d].point = point /\ task'[d].event = task[d].event
      /\ task'[d].content = task[d].content /\ task'[d].step = s
      /\ \A c \in Deliveries : c # d => task'[c] = task[c]
  BY BeginMoves DEF TypeOK
<1>2. Position(task'[d])
  BY <1>1 DEF Position
<1>3. QED
  BY <1>1, <1>2, QuietGo DEF SameWork

\* What a delivery at work has behind it.
LEMMA AtWork ==
  ASSUME TypeOK, ReceiptsAgree, NEW d \in Deliveries, task[d].point # "idle"
  PROVE  /\ task[d].event \in Events /\ task[d].content \in Contents
         /\ EventOf(d) = task[d].event /\ StepOf(d) = task[d].step
         /\ At(d, "local") => Ran(EventOf(d), "transition") /\ plan[EventOf(d)].verdict = "apply"
         /\ task[d].point \in CallPoints => task[d].step \in CallSteps /\ Due(EventOf(d), task[d].step)
         /\ task[d].point \in HandoverPoints => task[d].step = "confirm"
         /\ At(d, "recheck") => Due(EventOf(d), "confirm")
         /\ At(d, "end") => Through(EventOf(d))
BY DEF ReceiptsAgree, Position, Tasks, EventOf, StepOf, At

\* A running row that is written and not completed is a quiet step.
LEMMA RunningIsQuiet ==
  ASSUME NEW e \in Events, NEW s \in Steps, NEW r, Written(e, s, r), ~Ran(e, s), r.state # "done",
         UNCHANGED <<plan, appt>>
  PROVE  Quiet
BY DEF Quiet, Ran, Written

\* Steps that move a delivery and write nothing durable.
LEMMA AgreeAfterMoves ==
  ASSUME TypeOK, ReceiptsAgree, NEW d \in Deliveries,
         \/ Call(d) \/ Recheck(d) \/ Dispatch(d) \/ Send(d) \/ SettleSent(d) \/ Defer(d)
         \/ (CheckClaim(d) /\ ReceiptFrame)
  PROVE  ReceiptsAgree'
<1>1. /\ \A p \in {"call", "complete", "release", "dispatch", "send", "settle", "defer", "check",
                   "claim"} : p \in CallPoints /\ p # "local" /\ p # "recheck" /\ p # "end"
      /\ \A p \in {"dispatch", "send", "settle", "defer"} : p \in HandoverPoints
      /\ \A p \in {"complete", "release", "check", "claim"} : p \notin HandoverPoints
      /\ \A p \in {"fail", "end"} : p \notin CallPoints /\ p \notin HandoverPoints
      /\ \A p \in CallPoints \cup {"fail", "end"} : p \in Points \ {"idle"}
      /\ "confirm" \in CallSteps /\ "confirm" \in Steps
  BY DEF CallPoints, HandoverPoints, Points, CallSteps, Steps
<1>2. UNCHANGED <<receipt, acked>> /\ Quiet
  BY UnchangedIsQuiet DEF Call, Recheck, Dispatch, Send, SettleSent, Defer, CheckClaim, ReceiptFrame,
         apptVars
<1>3. /\ task[d].point \in CallPoints \cup {"recheck"}
      /\ task[d].point # "idle"
  BY <1>1 DEF Call, Recheck, Dispatch, Send, SettleSent, Defer, CheckClaim, At
<1>4. /\ task[d].event \in Events /\ task[d].content \in Contents /\ EventOf(d) = task[d].event
      /\ task[d].point \in CallPoints => task[d].step \in CallSteps /\ Due(task[d].event, task[d].step)
      /\ task[d].point \in HandoverPoints => task[d].step = "confirm"
  BY <1>3, AtWork
<1>5. CASE Recheck(d)
  <2>1. Due(task[d].event, "confirm")
    BY <1>4, <1>5, AtWork DEF Recheck, At
  <2>2. CASE Superseded(EventOf(d))
    <3>1. Begin(d, "end", None)
      BY <1>5, <2>2 DEF Recheck
    <3>2. Through(task[d].event)
      BY <1>4, <2>1, <2>2, DueOrder
    <3>3. QED
      BY <1>1, <1>2, <1>4, <3>1, <3>2, BeginQuiet
  <2>3. CASE ~Superseded(EventOf(d))
    <3>1. Begin(d, "check", "confirm")
      BY <1>5, <2>3 DEF Recheck
    <3>2. QED
      BY <1>1, <1>2, <1>4, <2>1, <3>1, BeginQuiet
  <2>4. QED
    BY <2>2, <2>3
<1>6. ASSUME task[d].point \in CallPoints,
             NEW p \in {"complete", "release", "claim", "fail"}, GoTo(d, p)
      PROVE  ReceiptsAgree'
  BY <1>1, <1>2, <1>4, <1>6, GoQuiet
<1>7. ASSUME task[d].point \in HandoverPoints, NEW p \in {"send", "settle", "defer"}, GoTo(d, p)
      PROVE  ReceiptsAgree'
  <2>1. task[d].point \in CallPoints
    BY <1>7 DEF CallPoints
  <2>2. QED
    BY <1>1, <1>2, <1>4, <1>7, <2>1, GoQuiet
<1>8. CASE Call(d) \/ Dispatch(d) \/ Send(d) \/ SettleSent(d) \/ Defer(d) \/ CheckClaim(d)
  <2>1. task[d].point \in CallPoints
    BY <1>1, <1>8 DEF Call, Dispatch, Send, SettleSent, Defer, CheckClaim, At
  <2>2. CASE Call(d) \/ CheckClaim(d) \/ Defer(d)
    <3>1. \E p \in {"complete", "release", "claim", "fail"} : GoTo(d, p)
      BY <2>2 DEF Call, CheckClaim, Defer
    <3>2. QED
      BY <1>6, <2>1, <3>1
  <2>3. CASE Dispatch(d) \/ Send(d) \/ SettleSent(d)
    <3>1. task[d].point \in HandoverPoints
      BY <1>1, <2>3 DEF Dispatch, Send, SettleSent, At
    <3>2. \E p \in {"complete", "release", "send", "settle", "defer"} : GoTo(d, p)
      BY <2>3 DEF Dispatch, Send, SettleSent
    <3>3. QED
      BY <1>6, <1>7, <2>1, <3>1, <3>2
  <2>4. QED
    BY <1>8, <2>2, <2>3
<1>9. QED
  BY <1>5, <1>8

\* A claimed row changes nothing that ran.
LEMMA AgreeAfterClaim ==
  ASSUME TypeOK, ReceiptsAgree, NEW d \in Deliveries, StepClaim(d)
  PROVE  ReceiptsAgree'
<1> DEFINE first == IF StepOf(d) = "confirm" THEN "dispatch" ELSE "call"
           next  == IF StepOf(d) = "pause" THEN "recheck" ELSE "end"
<1>1. /\ At(d, "claim") /\ ClaimRow(d, first, next)
      /\ UNCHANGED <<receipt, acked>> /\ UNCHANGED <<plan, appt>>
  BY DEF StepClaim, ClaimRow, apptVars
<1>2. task[d].point = "claim" /\ task[d].point # "idle" /\ "claim" \in CallPoints
  BY <1>1 DEF At, CallPoints
<1>3. /\ task[d].event \in Events /\ task[d].content \in Contents
      /\ EventOf(d) = task[d].event /\ StepOf(d) = task[d].step
      /\ task[d].step \in CallSteps /\ Due(task[d].event, task[d].step) /\ task[d].step \in Steps
  BY <1>2, AtWork DEF Steps
<1>4. /\ first \in Points \ {"idle"} /\ next \in Points \ {"idle"} /\ "fail" \in Points \ {"idle"}
      /\ first \in Points /\ next \in Points
  BY DEF Points
<1>5. CASE RowOf(d).state # "done" /\ GoTo(d, first)
             /\ Written(EventOf(d), StepOf(d), [state |-> "running", holder |-> d,
                                                live |-> TRUE, of |-> None])
  <2>1. Quiet
    BY <1>1, <1>3, <1>5, RunningIsQuiet DEF Ran, RowOf
  <2>2. /\ first # "local" /\ first # "recheck" /\ first # "end"
        /\ first \in HandoverPoints => task[d].step = "confirm"
    BY <1>3 DEF HandoverPoints
  <2> HIDE DEF first
  <2>3. QED
    BY <1>1, <1>3, <1>4, <1>5, <2>1, <2>2, GoQuiet
<1>6. CASE RowOf(d).state = "done" /\ GoTo(d, next) /\ UNCHANGED row
  <2>1. Quiet
    BY <1>1, <1>6, UnchangedIsQuiet
  <2>2. Ran(task[d].event, task[d].step)
    BY <1>3, <1>6 DEF Ran, RowOf
  <2>3. next # "local" /\ next \notin CallPoints /\ next \notin HandoverPoints
    BY DEF CallPoints, HandoverPoints
  <2>4. next = "recheck" => Due(task[d].event, "confirm")
    BY <1>3, <2>2, DueOrder
  <2>5. next = "end" => Through(task[d].event)
    BY <1>3, <2>2, DueOrder DEF CallSteps
  <2> HIDE DEF next
  <2>6. QED
    BY <1>1, <1>3, <1>4, <1>6, <2>1, <2>3, <2>4, <2>5, GoQuiet
<1>7. CASE GoTo(d, "fail") /\ UNCHANGED row
  <2>1. Quiet
    BY <1>1, <1>7, UnchangedIsQuiet
  <2>2. "fail" \notin CallPoints /\ "fail" \notin HandoverPoints
    BY DEF CallPoints, HandoverPoints
  <2>3. QED
    BY <1>1, <1>3, <1>4, <1>7, <2>1, <2>2, GoQuiet
<1>8. QED
  BY <1>1, <1>4, <1>5, <1>6, <1>7, ClaimRowTyped

\* Nor does a released one.
LEMMA AgreeAfterRelease ==
  ASSUME TypeOK, ReceiptsAgree, NEW d \in Deliveries, ReleaseRow(d), Forget(d)
  PROVE  ReceiptsAgree'
<1>1. /\ task[d].point = "release" /\ task[d].point # "idle" /\ GoTo(d, "fail")
      /\ UNCHANGED <<receipt, acked>> /\ UNCHANGED <<plan, appt>> /\ "release" \in CallPoints
  BY DEF ReleaseRow, Forget, apptVars, At, CallPoints
<1>2. /\ task[d].event \in Events /\ task[d].content \in Contents
      /\ EventOf(d) = task[d].event /\ StepOf(d) = task[d].step /\ task[d].step \in Steps
  BY <1>1, AtWork DEF Steps
<1>3. Quiet
  <2>1. CASE UNCHANGED row
    BY <1>1, <2>1, UnchangedIsQuiet
  <2>2. CASE OwnsRow(d) /\ Written(EventOf(d), StepOf(d), [RowOf(d) EXCEPT !.live = FALSE])
    <3>1. RowOf(d) \in RowRecords /\ RowOf(d).state = "running"
      BY <1>2, <2>2, RowsTyped DEF OwnsRow, RowOf, Rows, TypeOK
    <3>2. [RowOf(d) EXCEPT !.live = FALSE].state = "running"
      BY <3>1 DEF RowRecords
    <3>3. ~Ran(EventOf(d), StepOf(d))
      BY <3>1 DEF Ran, RowOf
    <3>4. QED
      BY <1>1, <1>2, <2>2, <3>2, <3>3, RunningIsQuiet
  <2>3. QED
    BY <2>1, <2>2, ReleaseRowTyped
<1>4. "fail" \in Points \ {"idle"} /\ "fail" \notin CallPoints /\ "fail" \notin HandoverPoints
  BY DEF Points, CallPoints, HandoverPoints
<1>5. QED
  BY <1>1, <1>2, <1>3, <1>4, GoQuiet

-----------------------------------------------------------------------------
(* Receipts agree: steps that complete a row *)

\* A row is completed under a claim, with the content of the receipt.
LEMMA CompletionAgrees ==
  ASSUME TypeOK, ReceiptsAgree, NEW d \in Deliveries, task[d].point # "idle", Holds(d),
         NEW s \in Steps, NEW e, e = EventOf(d),
         Written(EventOf(d), s, [state |-> "done", holder |-> None, live |-> FALSE,
                                 of |-> task[d].content]),
         receipt' = receipt
  PROVE  /\ RowsAgree' /\ Ran(e, s)' /\ e \in Events
         /\ \A f \in Events, t \in Steps : Ran(f, t) => Ran(f, t)' /\ row'[f][t].of = row[f][t].of
         /\ \A f \in Events, t \in Steps : f # e \/ t # s => (Ran(f, t)' <=> Ran(f, t))
<1>1. e \in Events /\ task[d].content \in Contents /\ task[d].event = e
  BY AtWork
<1>2. receipt[e].holder = d /\ d # None
  BY <1>1, NoneIsNothing DEF Holds, Owns
<1>3. task[d].content = receipt[e].content /\ receipt[e].state = "claimed" /\ task[d].content # None
  BY <1>1, <1>2, NoneIsNothing DEF ReceiptsAgree, HoldersHandle
<1>4. /\ row'[e][s].state = "done" /\ row'[e][s].of = receipt[e].content
      /\ \A f \in Events, t \in Steps : f # e \/ t # s => row'[f][t] = row[f][t]
  BY <1>1, <1>3 DEF Written
<1>5. Ran(e, s) => row[e][s].of = receipt[e].content
  BY <1>1 DEF ReceiptsAgree, RowsAgree
<1>6. \A f \in Events, t \in Steps : Ran(f, t) => Ran(f, t)' /\ row'[f][t].of = row[f][t].of
  BY <1>4, <1>5 DEF Ran
<1>7. \A f \in Events, t \in Steps : f # e \/ t # s => (Ran(f, t)' <=> Ran(f, t))
  BY <1>4 DEF Ran
<1>8. RowsAgree'
  BY <1>3, <1>4, <1>7 DEF ReceiptsAgree, RowsAgree, Ran
<1>9. Ran(e, s)'
  BY <1>4 DEF Ran
<1>10. QED
  BY <1>1, <1>6, <1>7, <1>8, <1>9

\* What such a step still owes: it keeps, plans as it may, and has its position.
LEMMA CompletionMove ==
  ASSUME TypeOK, ReceiptsAgree, NEW d \in Deliveries, Kept, RowsAgree', PlansAgree',
         UNCHANGED <<receipt, acked>>,
         \A c \in Deliveries : c # d => task'[c] = task[c], SameWork(d),
         NEW u, u = task'[d], Position(u)'
  PROVE  ReceiptsAgree'
<1>1. AppliedIsThrough'
  BY KeptAgrees
<1>2. HoldersHandle'
  BY HoldersStay
<1>3. \A t \in Tasks' : Position(t)'
  BY OneMoves DEF ReceiptsAgree
<1>4. QED
  BY <1>1, <1>2, <1>3 DEF ReceiptsAgree

\* The step that called out completes its row.
LEMMA AgreeAfterDone ==
  ASSUME TypeOK, ReceiptsAgree, NEW d \in Deliveries, StepDone(d)
  PROVE  ReceiptsAgree'
<1> DEFINE next == IF StepOf(d) = "pause" THEN "recheck" ELSE "end"
<1>1. /\ CompleteRow(d, next) /\ UNCHANGED <<receipt, acked>> /\ UNCHANGED appt
      /\ task[d].point = "complete" /\ task[d].point # "idle" /\ "complete" \in CallPoints
  BY DEF StepDone, CompleteRow, At, CallPoints
<1>2. PICK e \in Events : e = task[d].event
  BY <1>1, AtWork
<1>3. PICK s \in CallSteps : s = task[d].step
  BY <1>1, AtWork
<1>4. /\ task[d].content \in Contents /\ EventOf(d) = e /\ StepOf(d) = s
      /\ Due(e, s) /\ s \in Steps
  BY <1>1, <1>2, <1>3, AtWork DEF Steps
<1>5. next \in Points \ {"idle"} /\ next \in Points /\ "release" \in Points \ {"idle"}
  BY DEF Points
<1>6. \A f \in Events : plan'[f].verdict = plan[f].verdict /\ plan'[f].outcome = plan[f].outcome
  BY <1>2, <1>4 DEF StepDone, TypeOK
<1>7. CASE GoTo(d, "release") /\ UNCHANGED row
  <2>1. Quiet
    BY <1>1, <1>6, <1>7 DEF Quiet, Ran
  <2>2. "release" \notin HandoverPoints
    BY DEF HandoverPoints
  <2>3. QED
    BY <1>1, <1>2, <1>3, <1>4, <1>5, <1>7, <2>1, <2>2, GoQuiet
<1>8. CASE /\ OwnsRow(d) /\ Holds(d) /\ GoTo(d, next)
           /\ Written(EventOf(d), StepOf(d), [state |-> "done", holder |-> None,
                                              live |-> FALSE, of |-> task[d].content])
  <2>1. /\ RowsAgree' /\ Ran(e, s)'
        /\ \A f \in Events, t \in Steps : Ran(f, t) => Ran(f, t)' /\ row'[f][t].of = row[f][t].of
        /\ \A f \in Events, t \in Steps : f # e \/ t # s => (Ran(f, t)' <=> Ran(f, t))
    BY <1>1, <1>4, <1>8, CompletionAgrees
  <2>2. Kept
    BY <1>1, <1>6, <2>1 DEF Kept
  <2>3. "transition" \in Steps /\ "local" \in Steps /\ s # "transition" /\ s # "local"
    BY <1>3 DEF Steps, TxSteps, CallSteps
  <2>4. PlansAgree'
    BY <1>1, <1>6, <2>1, <2>3 DEF ReceiptsAgree, PlansAgree
  <2>5. PICK u : u = task'[d]
    OBVIOUS
  <2>6. /\ u.point = next /\ u.event = e /\ u.content \in Contents /\ SameWork(d)
        /\ \A c \in Deliveries : c # d => task'[c] = task[c]
    BY <1>2, <1>4, <1>5, <1>8, <2>5, GoToMoves DEF TypeOK, SameWork
  <2>7. Due(e, s)'
    BY <1>4, <2>2, DueStays
  <2>8. /\ s = "pause" => Due(e, "confirm")'
        /\ s # "pause" => Through(e)'
    <3>1. \A o : FirstCall(e, o) \in {"pause", "resume", None} /\ FirstCall(e, o) # "confirm"
                 /\ None # "pause" /\ None # "resume"
      BY FirstCallIsStep, NoneIsNothing DEF Steps, CallSteps
    <3>2. PICK o : o = FirstCall(e, plan'[e].outcome)
      OBVIOUS
    <3>3. /\ Ran(e, "transition")' /\ Ran(e, "local")'
          /\ s = o \/ (s = "confirm" /\ o = "pause" /\ Ran(e, "pause")')
      BY <2>7, <3>2 DEF Due
    <3>4. o \in {"pause", "resume", None} /\ o # "confirm" /\ None # "pause"
      BY <3>1, <3>2
    <3>5. s = "pause" => Due(e, "confirm")'
      BY <2>1, <2>7, <3>2, <3>3, <3>4 DEF Due
    <3>6. s # "pause" => Through(e)'
      BY <2>1, <3>2, <3>3, <3>4 DEF Through, Ran
    <3>7. QED
      BY <3>5, <3>6
  <2>9. Position(u)'
    BY <1>4, <2>6, <2>8 DEF Position, CallPoints, HandoverPoints
  <2>10. QED
    BY <1>1, <2>1, <2>2, <2>4, <2>5, <2>6, <2>9, CompletionMove
<1>9. QED
  BY <1>1, <1>5, <1>7, <1>8, CompleteRowTyped

\* A transaction that fails leaves nothing.
LEMMA FailAgrees ==
  ASSUME TypeOK, ReceiptsAgree, NEW d \in Deliveries, task[d].point # "idle", TxFails(d),
         UNCHANGED <<plan, appt>>
  PROVE  ReceiptsAgree'
<1>1. "fail" \in Points \ {"idle"} /\ "fail" \notin CallPoints /\ "fail" \notin HandoverPoints
  BY DEF Points, CallPoints, HandoverPoints
<1>2. UNCHANGED <<receipt, acked>> /\ Quiet /\ GoTo(d, "fail")
  BY UnchangedIsQuiet DEF TxFails
<1>3. task[d].event \in Events /\ task[d].content \in Contents
  BY AtWork
<1>4. QED
  BY <1>1, <1>2, <1>3, GoQuiet

\* A transition plans whether its event applies, and records it if so.
LEMMA AgreeAfterTransition ==
  ASSUME TypeOK, ReceiptsAgree, NEW d \in Deliveries, Transition(d)
  PROVE  ReceiptsAgree'
<1>1. task[d].point # "idle"
  BY DEF Transition, At
<1>2. PICK e \in Events : e = task[d].event
  BY <1>1, AtWork
<1>3. EventOf(d) = e /\ task[d].content \in Contents /\ e.appt \in Appts
  BY <1>1, <1>2, AtWork, EventsAreTyped
<1>4. /\ "local" \in Points \ {"idle"} /\ "end" \in Points \ {"idle"} /\ "transition" \in Steps
      /\ "local" \in Steps /\ None \in Steps \cup {None}
      /\ \A p \in {"local", "end"} : p \notin CallPoints /\ p \notin HandoverPoints /\ p # "recheck"
  BY DEF Points, Steps, TxSteps, CallPoints, HandoverPoints
<1>5. CASE TxFails(d) /\ UNCHANGED <<appt, plan>>
  BY <1>1, <1>5, FailAgrees
<1>6. CASE /\ TxReplay(d, "transition", IF plan[e].verdict = "apply" THEN "local" ELSE "end", None)
           /\ UNCHANGED <<appt, plan>>
  <2> DEFINE p == IF plan[e].verdict = "apply" THEN "local" ELSE "end"
  <2>1. Begin(d, p, None) /\ Quiet /\ UNCHANGED <<receipt, acked>> /\ Ran(e, "transition")
    BY <1>3, <1>6, UnchangedIsQuiet DEF TxReplay, Ran
  <2>2. p \in {"local", "end"} /\ (p = "end" => Through(e))
        /\ (p = "local" => plan[e].verdict = "apply")
    BY <2>1, DueOrder
  <2> HIDE DEF p
  <2>3. QED
    BY <1>2, <1>3, <1>4, <2>1, <2>2, BeginQuiet
<1>7. CASE /\ TxCommit(d, "transition", IF Applies(e) THEN "local" ELSE "end", None)
           /\ plan' = [plan EXCEPT ![e].verdict = IF Applies(e) THEN "apply" ELSE "ignore"]
           /\ appt' = IF Applies(e) THEN [appt EXCEPT ![e.appt] = Recorded(e)] ELSE appt
  <2> DEFINE p == IF Applies(e) THEN "local" ELSE "end"
  <2>1. /\ Holds(d) /\ ~Ran(e, "transition") /\ Begin(d, p, None) /\ UNCHANGED <<receipt, acked>>
        /\ p \in Points
    BY <1>3, <1>4, <1>7 DEF TxCommit, Ran
  <2>2. /\ RowsAgree' /\ Ran(e, "transition")'
        /\ \A f \in Events, t \in Steps : Ran(f, t) => Ran(f, t)' /\ row'[f][t].of = row[f][t].of
        /\ \A f \in Events, t \in Steps : f # e \/ t # "transition" => (Ran(f, t)' <=> Ran(f, t))
    <3>1. Written(EventOf(d), "transition", [state |-> "done", holder |-> None, live |-> FALSE,
                                             of |-> task[d].content])
      BY <1>1, <1>4, <1>7, <2>1, TxTyped
    <3>2. QED
      BY <1>1, <1>3, <1>4, <2>1, <3>1, CompletionAgrees
  <2>3. ~Ran(e, "local") /\ plan[e].verdict = "none" /\ plan[e].outcome = "none"
    BY <2>1 DEF ReceiptsAgree, PlansAgree
  <2>4. /\ plan'[e].verdict = IF Applies(e) THEN "apply" ELSE "ignore"
        /\ plan'[e].outcome = "none"
        /\ \A f \in Events : f # e => plan'[f] = plan[f]
    BY <1>7, <2>3 DEF TypeOK
  <2>5. /\ \A a \in Appts : Ended(a) => appt'[a] = appt[a]
        /\ Applies(e) /\ e.kind \in TERMINAL_STATUSES => appt'[e.appt].status = e.kind
    <3>1. Applies(e) => ~Ended(e.appt)
      BY DEF Applies, Ended, TERMINAL_STATUSES
    <3>2. \A a \in Appts : a # e.appt => appt'[a] = appt[a]
      BY <1>7 DEF TypeOK
    <3>3. Applies(e) => appt'[e.appt] = Recorded(e)
      BY <1>3, <1>7 DEF TypeOK
    <3>4. e.kind \in TERMINAL_STATUSES => Recorded(e).status = e.kind
      BY DEF Recorded, TERMINAL_STATUSES
    <3>5. ~Applies(e) => appt' = appt
      BY <1>7
    <3> HIDE DEF p
    <3>6. QED
      BY <3>1, <3>2, <3>3, <3>4, <3>5
  <2>6. Kept
    BY <1>4, <2>1, <2>2, <2>3, <2>4, <2>5 DEF Kept
  <2>7. PlansAgree'
    <3>1. ASSUME NEW f \in Events
          PROVE  /\ ~Ran(f, "transition")' => plan'[f].verdict = "none"
                 /\ ~Ran(f, "local")' => plan'[f].outcome = "none"
                 /\ Ran(f, "local")' => plan'[f].verdict = "apply"
                 /\ plan'[f].verdict = "apply" /\ f.kind \in TERMINAL_STATUSES =>
                      appt'[f.appt].status = f.kind
      <4>1. CASE f = e
        <5>1. ~Ran(e, "local")'
          BY <1>4, <2>2, <2>3
        <5>2. plan'[e].verdict = "apply" /\ e.kind \in TERMINAL_STATUSES =>
                appt'[e.appt].status = e.kind
          BY <2>4, <2>5
        <5>3. QED
          BY <2>2, <2>4, <4>1, <5>1, <5>2
      <4>2. CASE f # e
        <5>1. /\ Ran(f, "transition")' <=> Ran(f, "transition")
              /\ Ran(f, "local")' <=> Ran(f, "local")
          BY <1>4, <2>2, <4>2
        <5>2. f.appt \in Appts
          BY EventsAreTyped
        <5>3. plan[f].verdict = "apply" /\ f.kind \in TERMINAL_STATUSES => appt'[f.appt].status = f.kind
          BY <2>5, <5>2 DEF ReceiptsAgree, PlansAgree, Ended
        <5>4. QED
          BY <2>4, <4>2, <5>1, <5>3 DEF ReceiptsAgree, PlansAgree
      <4>3. QED
        BY <4>1, <4>2
    <3> HIDE DEF p
    <3>2. QED
      BY <3>1 DEF PlansAgree
  <2>8. PICK u : u = task'[d]
    OBVIOUS
  <2>9. /\ u.point = p /\ u.event = e /\ u.content \in Contents /\ SameWork(d)
        /\ \A c \in Deliveries : c # d => task'[c] = task[c]
    BY <1>2, <1>3, <1>4, <2>1, <2>8, BeginMoves DEF TypeOK, SameWork
  <2>10. Position(u)'
    <3>1. p \in {"local", "end"} /\ (p = "local" <=> Applies(e))
      OBVIOUS
    <3>2. p = "local" => plan'[e].verdict = "apply"
      BY <2>4
    <3>3. p = "end" => Through(e)'
      <4>1. FirstCall(e, plan'[e].outcome) = None /\ None # "pause"
        BY <2>4, NoneIsNothing DEF FirstCall, Steps, CallSteps
      <4>2. p = "end" => plan'[e].verdict # "apply"
        BY <2>4
      <4>3. QED
        BY <2>2, <4>1, <4>2 DEF Through
    <3> HIDE DEF p
    <3>4. QED
      BY <1>3, <1>4, <2>2, <2>9, <3>1, <3>2, <3>3 DEF Position
  <2>11. QED
    BY <2>1, <2>2, <2>6, <2>7, <2>8, <2>9, <2>10, CompletionMove
<1>8. QED
  BY <1>3, <1>5, <1>6, <1>7, Zenon DEF Transition

\* A local step plans the calls that follow.
LEMMA AgreeAfterLocalStep ==
  ASSUME TypeOK, ReceiptsAgree, NEW d \in Deliveries, LocalStep(d)
  PROVE  ReceiptsAgree'
<1>1. task[d].point # "idle" /\ At(d, "local") /\ appt' = appt
  BY DEF LocalStep, At
<1>2. PICK e \in Events : e = task[d].event
  BY <1>1, AtWork
<1>3. /\ EventOf(d) = e /\ task[d].content \in Contents
      /\ Ran(e, "transition") /\ plan[e].verdict = "apply"
  BY <1>1, <1>2, AtWork
<1>4. /\ "local" \in Steps /\ "transition" \in Steps
      /\ "check" \in CallPoints /\ "end" \notin CallPoints
      /\ \A p \in {"check", "end"} : p \in Points \ {"idle"} /\ p \notin HandoverPoints
                                     /\ p # "local" /\ p # "recheck"
  BY DEF Points, Steps, TxSteps, CallPoints, HandoverPoints
<1>5. \A o : /\ FirstCall(e, o) \in Steps \cup {None} /\ FirstCall(e, o) # "confirm"
             /\ FirstCall(e, o) # None => FirstCall(e, o) \in CallSteps
             /\ After(e, o) \in {"check", "end"}
             /\ After(e, o) = "end" <=> FirstCall(e, o) = None
             /\ None # "pause"
  BY FirstCallIsStep, NoneIsNothing DEF After, Steps, CallSteps
<1>6. CASE TxFails(d) /\ UNCHANGED <<lead, plan, owed, cut>>
  BY <1>1, <1>6, FailAgrees
<1>7. CASE /\ TxReplay(d, "local", After(e, plan[e].outcome), FirstCall(e, plan[e].outcome))
           /\ UNCHANGED <<lead, plan, owed, cut>>
  <2>1. PICK o : o = plan[e].outcome
    OBVIOUS
  <2>2. /\ Begin(d, After(e, o), FirstCall(e, o)) /\ Quiet /\ UNCHANGED <<receipt, acked>>
        /\ Ran(e, "local")
    BY <1>1, <1>3, <1>7, <2>1, UnchangedIsQuiet DEF TxReplay, Ran
  <2>3. IF FirstCall(e, o) = None THEN Through(e) ELSE Due(e, FirstCall(e, o))
    BY <1>3, <2>1, <2>2, DueOrder
  <2>4. QED
    BY <1>2, <1>3, <1>4, <1>5, <2>2, <2>3, BeginQuiet
<1>8. ASSUME NEW o, o = Local(e).outcome, TxCommit(d, "local", After(e, o), FirstCall(e, o)),
             plan' = [plan EXCEPT ![e].outcome = o]
      PROVE  ReceiptsAgree'
  <2>1. /\ Holds(d) /\ ~Ran(e, "local") /\ Begin(d, After(e, o), FirstCall(e, o))
        /\ UNCHANGED <<receipt, acked>>
    BY <1>3, <1>8 DEF TxCommit, Ran
  <2>2. /\ RowsAgree' /\ Ran(e, "local")'
        /\ \A f \in Events, t \in Steps : Ran(f, t) => Ran(f, t)' /\ row'[f][t].of = row[f][t].of
        /\ \A f \in Events, t \in Steps : f # e \/ t # "local" => (Ran(f, t)' <=> Ran(f, t))
    <3>1. After(e, o) \in Points /\ FirstCall(e, o) \in Steps \cup {None}
      BY <1>4, <1>5
    <3>2. Written(EventOf(d), "local", [state |-> "done", holder |-> None, live |-> FALSE,
                                        of |-> task[d].content])
      BY <1>1, <1>4, <1>8, <3>1, TxTyped
    <3>3. QED
      BY <1>1, <1>3, <1>4, <2>1, <3>2, CompletionAgrees
  <2>3. /\ plan'[e].verdict = "apply" /\ plan'[e].outcome = o
        /\ \A f \in Events : plan'[f].verdict = plan[f].verdict
        /\ \A f \in Events : f # e => plan'[f].outcome = plan[f].outcome
    BY <1>3, <1>8 DEF TypeOK
  <2>4. Kept
    BY <1>1, <1>3, <2>1, <2>2, <2>3 DEF Kept
  <2>5. PlansAgree'
    BY <1>1, <1>3, <1>4, <2>2, <2>3 DEF ReceiptsAgree, PlansAgree
  <2>6. PICK u : u = task'[d]
    OBVIOUS
  <2>7. /\ u.point = After(e, o) /\ u.step = FirstCall(e, o) /\ u.event = e
        /\ u.content \in Contents /\ SameWork(d)
        /\ \A c \in Deliveries : c # d => task'[c] = task[c]
    BY <1>2, <1>3, <1>4, <1>5, <2>1, <2>6, BeginMoves DEF TypeOK, SameWork
  <2>8. Ran(e, "transition")'
    BY <1>3, <1>4, <2>2
  <2>9. FirstCall(e, o) = None => Through(e)'
    BY <1>5, <2>2, <2>3, <2>8 DEF Through
  <2>10. FirstCall(e, o) # None => Due(e, FirstCall(e, o))'
    BY <2>2, <2>3, <2>8 DEF Due
  <2>11. Position(u)'
    BY <1>4, <1>5, <2>7, <2>9, <2>10 DEF Position
  <2>12. QED
    BY <2>1, <2>2, <2>4, <2>5, <2>6, <2>7, <2>11, CompletionMove
<1>9. \/ TxFails(d) /\ UNCHANGED <<lead, plan, owed, cut>>
      \/ /\ TxReplay(d, "local", After(e, plan[e].outcome), FirstCall(e, plan[e].outcome))
         /\ UNCHANGED <<lead, plan, owed, cut>>
      \/ /\ TxCommit(d, "local", After(e, Local(e).outcome), FirstCall(e, Local(e).outcome))
         /\ plan' = [plan EXCEPT ![e].outcome = Local(e).outcome]
  BY <1>3, Zenon DEF LocalStep
<1>10. QED
  BY <1>6, <1>7, <1>8, <1>9

-----------------------------------------------------------------------------
(* Receipts agree: receipts that change *)

\* A delivery that leaves its work holds nothing any more.
LEMMA HoldersLeave ==
  ASSUME TypeOK, ReceiptsAgree, NEW d \in Deliveries,
         \A c \in Deliveries : c # d => task'[c] = task[c],
         \A f \in Events : receipt'[f].holder # None =>
           /\ receipt'[f].holder = receipt[f].holder /\ receipt'[f].holder # d
           /\ receipt'[f].state = receipt[f].state /\ receipt'[f].content = receipt[f].content
  PROVE  HoldersHandle'
<1>1. \A e \in Events : receipt[e].holder \in Deliveries \cup {None}
  BY DEF TypeOK, ReceiptsTypeOK
<1>2. QED
  BY <1>1 DEF ReceiptsAgree, HoldersHandle

\* An idle delivery is at its position.
LEMMA IdleHasPosition ==
  ASSUME Kept, \A t \in Tasks : Position(t), NEW d \in Deliveries, task'[d] = Idle,
         \A c \in Deliveries : c # d => task'[c] = task[c]
  PROVE  \A t \in Tasks' : Position(t)'
<1>1. PICK u : u = Idle
  OBVIOUS
<1>2. Position(u)'
  BY <1>1 DEF Position, Idle, CallPoints, HandoverPoints
<1>3. QED
  BY <1>1, <1>2, OneMoves

\* The holder of a receipt is at work on it.
LEMMA HolderIsAtWork ==
  ASSUME ReceiptsAgree, NEW d \in Deliveries, NEW e \in Events, receipt[e].holder = d
  PROVE  task[d].event = e /\ task[d].content = receipt[e].content /\ receipt[e].state = "claimed"
BY NoneIsNothing DEF ReceiptsAgree, HoldersHandle

\* Who ends has everything behind it that its event called for.
LEMMA AgreeAfterEnd ==
  ASSUME TypeOK, ReceiptsAgree, NEW d \in Deliveries, End(d) \/ Refuse(d), ReceiptFrame
  PROVE  ReceiptsAgree'
<1>1. task[d].point # "idle" /\ row' = row /\ UNCHANGED <<plan, appt>>
  BY DEF End, Refuse, At, ReceiptFrame, apptVars
<1>2. PICK e \in Events : e = task[d].event
  BY <1>1, AtWork
<1>3. EventOf(d) = e
  BY <1>1, <1>2, AtWork
<1>4. task'[d] = Idle /\ \A c \in Deliveries : c # d => task'[c] = task[c]
  BY DEF End, Refuse, TypeOK, ReceiptsTypeOK
<1>5. Quiet /\ Kept
  BY <1>1, UnchangedIsQuiet, QuietIsKept
<1>6. receipt \in [Events -> ReceiptRecords]
  BY DEF TypeOK, ReceiptsTypeOK, ReceiptRecords
<1>7. \A t \in Tasks' : Position(t)'
  BY <1>4, <1>5, IdleHasPosition DEF ReceiptsAgree
<1>8. \A f \in Events : receipt[f].holder = d => f = e /\ Owns(d)
  BY <1>2, <1>3, HolderIsAtWork DEF Owns
<1>9. CASE ~Owns(d)
  <2>1. UNCHANGED <<receipt, acked>>
    BY <1>9 DEF End, Refuse
  <2>2. HoldersHandle'
    BY <1>4, <1>8, <1>9, <2>1, HoldersLeave
  <2>3. QED
    BY <1>5, <1>7, <2>1, <2>2, QuietAgrees, KeptAgrees DEF ReceiptsAgree
<1>10. CASE Owns(d)
  <2>1. receipt[e].state = "claimed" /\ task[d].content = receipt[e].content
        /\ (acked[e] = {})
    <3>1. receipt[e].holder = d /\ receipt[e].state = "claimed"
      BY <1>3, <1>10 DEF Owns
    <3>2. QED
      BY <3>1, HolderIsAtWork DEF ReceiptsAgree, AppliedIsThrough
  <2>2. PICK s \in {"applied", "failed"} :
          /\ receipt' = [receipt EXCEPT ![e].state = s, ![e].holder = None, ![e].live = FALSE]
          /\ s = "applied" => At(d, "end")
          /\ s = "failed" => acked' = acked
    BY <1>3, <1>10 DEF End, Refuse
  <2>3. /\ receipt'[e].state = s /\ receipt'[e].holder = None
        /\ receipt'[e].content = receipt[e].content
        /\ \A f \in Events : f # e => receipt'[f] = receipt[f]
    BY <1>6, <2>2, ReceiptIsMarked DEF ReceiptStates
  <2>4. /\ acked'[e] \subseteq {receipt[e].content}
        /\ acked'[e] # {} => s = "applied"
        /\ \A f \in Events : f # e => acked'[f] = acked[f]
    <3>1. acked \in [Events -> SUBSET Contents]
      BY DEF TypeOK, ReceiptsTypeOK
    <3>2. acked' = acked \/ (s = "applied" /\ acked' = [acked EXCEPT ![e] = @ \cup {receipt[e].content}])
      BY <1>3, <2>1, <2>2 DEF End, Refuse, At
    <3>3. QED
      BY <2>1, <3>1, <3>2
  <2>5. HoldersHandle'
    BY <1>4, <1>8, <2>3, HoldersLeave
  <2>6. RowsAgree' /\ PlansAgree'
    BY <1>5, <2>1, <2>3, QuietAgrees
  <2>7. s = "applied" => Through(e)'
    <3>1. s = "applied" => Through(e)
      BY <1>1, <1>3, <2>2, AtWork
    <3>2. QED
      BY <1>5, <3>1, ThroughStays
  <2>8. \A f \in Events : Through(f) => Through(f)'
    BY <1>5, ThroughStays
  <2>9. AppliedIsThrough'
    <3>1. ASSUME NEW f \in Events
          PROVE  /\ receipt'[f].state = "applied" => Through(f)'
                 /\ acked'[f] # {} => receipt'[f].state = "applied"
                                      /\ acked'[f] \subseteq {receipt'[f].content}
      <4>1. CASE f = e
        BY <2>3, <2>4, <2>7, <4>1
      <4>2. CASE f # e
        BY <2>3, <2>4, <2>8, <4>2 DEF ReceiptsAgree, AppliedIsThrough
      <4>3. QED
        BY <4>1, <4>2
    <3>2. QED
      BY <3>1 DEF AppliedIsThrough
  <2>10. QED
    BY <1>7, <2>5, <2>6, <2>9 DEF ReceiptsAgree
<1>11. QED
  BY <1>9, <1>10

\* Leases that are renewed or lapse, and deaths, change no receipt's content or state.
LEMMA AgreeAfterLease ==
  ASSUME TypeOK, ReceiptsAgree, UNCHANGED <<plan, appt, acked>>,
         \/ \E d \in Deliveries : Renew(d) \/ Die(d)
         \/ \E e \in Events : LapseReceipt(e)
         \/ \E e \in Events, s \in CallSteps : LapseRow(e, s)
  PROVE  ReceiptsAgree'
<1>0. ReceiptsTypeOK /\ \A e \in Events : receipt[e] \in ReceiptRecords
  BY DEF TypeOK, ReceiptsTypeOK, ReceiptRecords
<1>1. ASSUME UNCHANGED <<row, task>>,
             \A f \in Events : /\ receipt'[f].state = receipt[f].state
                               /\ receipt'[f].holder = receipt[f].holder
                               /\ receipt'[f].content = receipt[f].content
      PROVE  ReceiptsAgree'
  <2>1. Quiet /\ Kept
    BY <1>1, UnchangedIsQuiet, QuietIsKept
  <2>2. \A f \in Events : Through(f) => Through(f)'
    BY <2>1, ThroughStays
  <2>3. AppliedIsThrough'
    BY <1>1, <2>2 DEF ReceiptsAgree, AppliedIsThrough
  <2>4. HoldersHandle'
    BY <1>1 DEF ReceiptsAgree, HoldersHandle
  <2>5. QED
    BY <1>1, <2>1, <2>3, <2>4, QuietAgrees, NoneMoves DEF ReceiptsAgree
<1>2. ASSUME NEW e \in Events, NEW b \in BOOLEAN, receipt' = [receipt EXCEPT ![e].live = b]
      PROVE  \A f \in Events : /\ receipt'[f].state = receipt[f].state
                               /\ receipt'[f].holder = receipt[f].holder
                               /\ receipt'[f].content = receipt[f].content
  BY <1>0, <1>2 DEF ReceiptsTypeOK, ReceiptRecords
<1>3. ASSUME NEW d \in Deliveries, Renew(d)
      PROVE  ReceiptsAgree'
  <2>1. EventOf(d) \in Events /\ UNCHANGED <<row, task>>
        /\ receipt' = [receipt EXCEPT ![EventOf(d)].live = TRUE]
    BY <1>3, AtWork DEF Renew
  <2>2. QED
    BY <1>1, <1>2, <2>1
<1>4. ASSUME NEW e \in Events, LapseReceipt(e)
      PROVE  ReceiptsAgree'
  BY <1>1, <1>2, <1>4 DEF LapseReceipt
<1>5. ASSUME NEW e \in Events, NEW s \in CallSteps, LapseRow(e, s)
      PROVE  ReceiptsAgree'
  <2>1. /\ row[e][s].state = "running" /\ Written(e, s, [row[e][s] EXCEPT !.live = FALSE])
        /\ s \in Steps /\ UNCHANGED <<receipt, acked, task>>
    BY <1>0, <1>5, LapseRowTyped DEF Steps, LapseRow
  <2>2. row[e][s] \in RowRecords
    BY <1>0, <2>1, RowsTyped DEF Rows
  <2>3. [row[e][s] EXCEPT !.live = FALSE].state = "running" /\ ~Ran(e, s)
    BY <2>1, <2>2 DEF RowRecords, Ran
  <2>4. Quiet
    BY <2>1, <2>3, RunningIsQuiet
  <2>5. QED
    BY <2>1, <2>4, QuietStill
<1>6. ASSUME NEW d \in Deliveries, Die(d)
      PROVE  ReceiptsAgree'
  <2>1. /\ \A f \in Events : receipt'[f] = receipt[f] \/ receipt'[f] = [receipt[f] EXCEPT !.holder = None]
        /\ \A f \in Events : receipt'[f].holder # d
        /\ \A f \in Events, t \in Steps : row'[f][t].state = row[f][t].state /\ row'[f][t].of = row[f][t].of
        /\ task'[d] = Idle /\ \A c \in Deliveries : c # d => task'[c] = task[c]
    BY <1>0, <1>6, DieTyped
  <2>2. Quiet /\ Kept
    BY <2>1, QuietIsKept DEF Quiet, Ran
  <2>3. \A f \in Events : /\ receipt'[f].state = receipt[f].state
                          /\ receipt'[f].content = receipt[f].content
                          /\ receipt'[f].holder # None => receipt'[f].holder = receipt[f].holder
    BY <1>0, <2>1 DEF ReceiptRecords
  <2>4. HoldersHandle'
    BY <2>1, <2>3, HoldersLeave
  <2>5. \A f \in Events : Through(f) => Through(f)'
    BY <2>2, ThroughStays
  <2>6. AppliedIsThrough'
    BY <2>3, <2>5 DEF ReceiptsAgree, AppliedIsThrough
  <2>7. \A t \in Tasks' : Position(t)'
    BY <2>1, <2>2, IdleHasPosition DEF ReceiptsAgree
  <2>8. QED
    BY <2>2, <2>3, <2>4, <2>6, <2>7, QuietAgrees DEF ReceiptsAgree
<1>7. QED
  BY <1>3, <1>4, <1>5, <1>6

\* A delivery takes a receipt with its content: none ran with another one.
LEMMA AgreeAfterDeliver ==
  ASSUME TypeOK, ReceiptsAgree, NEW d \in Deliveries, NEW e \in Events, NEW c \in Contents,
         Deliver(d, e, c)
  PROVE  ReceiptsAgree'
<1>1. /\ task[d].point = "idle" /\ receipt[e].state \in {"none", "failed", "claimed"} /\ Adopts(e, c)
      /\ UNCHANGED <<row, acked, plan, appt>> /\ d # None /\ c # None
  BY NoneIsNothing DEF Deliver, ClaimReceipt, At, apptVars
<1>2. /\ receipt'[e] = [state |-> "claimed", holder |-> d, live |-> TRUE, content |-> c]
      /\ \A f \in Events : f # e => receipt'[f] = receipt[f]
      /\ task'[d] = [point |-> "transition", event |-> e, content |-> c, step |-> None]
      /\ \A b \in Deliveries : b # d => task'[b] = task[b]
  BY DEF Deliver, ClaimReceipt, TypeOK, ReceiptsTypeOK
<1>3. Quiet /\ Kept
  BY <1>1, UnchangedIsQuiet, QuietIsKept
<1>4. \A f \in Events : receipt[f].holder \in Deliveries \cup {None} /\ receipt[f].holder # d
  <2>1. task[d].event = None
    BY <1>1 DEF ReceiptsAgree, Tasks, Position, Idle
  <2>2. QED
    BY <1>1, <2>1, NoneIsNothing, HolderIsAtWork DEF TypeOK, ReceiptsTypeOK
<1>5. HoldersHandle'
  BY <1>1, <1>2, <1>4 DEF ReceiptsAgree, HoldersHandle
<1>6. \A s \in Steps : Ran(e, s) => row[e][s].of = c
  BY <1>1 DEF ReceiptsAgree, RowsAgree, Adopts, Ran
<1>7. RowsAgree'
  BY <1>1, <1>2, <1>3, <1>6 DEF ReceiptsAgree, RowsAgree, Ran
<1>8. "transition" \in Steps /\ "local" \in Steps
  BY DEF Steps, TxSteps
<1>9. PlansAgree'
  BY <1>3, <1>8 DEF ReceiptsAgree, PlansAgree, Quiet
<1>10. \A f \in Events : Through(f) => Through(f)'
  BY <1>3, ThroughStays
<1>11. AppliedIsThrough'
  BY <1>1, <1>2, <1>10 DEF ReceiptsAgree, AppliedIsThrough
<1>12. PICK u : u = task'[d]
  OBVIOUS
<1>13. Position(u)'
  BY <1>2, <1>12 DEF Position, CallPoints, HandoverPoints
<1>14. \A t \in Tasks' : Position(t)'
  BY <1>2, <1>3, <1>12, <1>13, OneMoves DEF ReceiptsAgree
<1>15. QED
  BY <1>5, <1>7, <1>9, <1>11, <1>14 DEF ReceiptsAgree

\* A duplicate that is acknowledged has the content of the receipt.
LEMMA AgreeAfterDuplicate ==
  ASSUME TypeOK, ReceiptsAgree, NEW e \in Events, NEW c \in Contents, AckDuplicate(e, c),
         ReceiptFrame
  PROVE  ReceiptsAgree'
<1>1. /\ receipt[e].state = "applied" /\ receipt[e].content = c
      /\ acked' = [acked EXCEPT ![e] = @ \cup {c}] /\ UNCHANGED <<receipt, row, task, plan, appt>>
  BY DEF AckDuplicate, IsDuplicate, ReceiptFrame, apptVars
<1>2. Quiet /\ Kept
  BY <1>1, UnchangedIsQuiet, QuietIsKept
<1>3. \A f \in Events : Through(f) => Through(f)'
  BY <1>2, ThroughStays
<1>4. acked'[e] = acked[e] \cup {c} /\ \A f \in Events : f # e => acked'[f] = acked[f]
  BY <1>1 DEF TypeOK, ReceiptsTypeOK
<1>5. AppliedIsThrough'
  BY <1>1, <1>3, <1>4 DEF ReceiptsAgree, AppliedIsThrough
<1>6. HoldersHandle'
  BY <1>1 DEF ReceiptsAgree, HoldersHandle
<1>7. QED
  BY <1>1, <1>2, <1>5, <1>6, QuietAgrees, NoneMoves DEF ReceiptsAgree

\* Every step preserves what receipts, steps and plans say.
LEMMA ReceiptsHold ==
  ASSUME TypeOK, ReceiptsAgree, [Next]_vars
  PROVE  ReceiptsAgree'
<1>1. CASE UNCHANGED vars
  <2>1. Quiet /\ UNCHANGED <<receipt, acked, task>>
    BY <1>1, UnchangedIsQuiet DEF vars, receiptVars, apptVars
  <2>2. QED
    BY <2>1, QuietStill
<1>2. CASE (\E a \in Appts : Recover(a)) \/ RecoveryStep \/ RecoveryDies
  <2>1. RecoveryFrame
    BY <1>2 DEF Recover, RecoveryStep, RecoveryDies, Lock, DispatchRecovered, SendRecovered,
                SettleRecovered, Retire, Park
  <2>2. Quiet /\ UNCHANGED <<receipt, acked, task>>
    BY <2>1, UnchangedIsQuiet DEF RecoveryFrame, apptVars
  <2>3. QED
    BY <2>2, QuietStill
<1>3. ASSUME NEW d \in Deliveries, DeliveryStep(d)
      PROVE  ReceiptsAgree'
  BY <1>3, AgreeAfterTransition, AgreeAfterLocalStep, AgreeAfterClaim, AgreeAfterDone,
     AgreeAfterRelease, AgreeAfterMoves, AgreeAfterEnd, Zenon DEF DeliveryStep
<1>4. ASSUME NEW d \in Deliveries, (Renew(d) /\ ReceiptFrame) \/ (Die(d) /\ Forget(d))
      PROVE  ReceiptsAgree'
  BY <1>4, AgreeAfterLease DEF ReceiptFrame, Forget, apptVars, Renew, Die
<1>5. ASSUME NEW e \in Events, ReceiptFrame, LapseReceipt(e) \/ \E s \in CallSteps : LapseRow(e, s)
      PROVE  ReceiptsAgree'
  BY <1>5, AgreeAfterLease DEF ReceiptFrame, apptVars, LapseReceipt, LapseRow
<1>6. ASSUME NEW m \in sent, AckDuplicate(m[1], m[2]), ReceiptFrame
      PROVE  ReceiptsAgree'
  <2>1. m[1] \in Events /\ m[2] \in Contents
    BY ScenariosAreBounded DEF TypeOK
  <2>2. QED
    BY <1>6, <2>1, AgreeAfterDuplicate
<1>7. QED
  BY <1>1, <1>2, <1>3, <1>4, <1>5, <1>6, AgreeAfterDeliver, Zenon DEF Next

-----------------------------------------------------------------------------
(* The hand-over: ends stay *)

\* Only a transition writes an appointment, and none that has ended.
LEMMA EndedStays ==
  ASSUME TypeOK, ReceiptsAgree, [Next]_vars
  PROVE  \A a \in Appts : Ended(a) => appt'[a] = appt[a]
<1>1. CASE appt' = appt
  BY <1>1
<1>2. ASSUME NEW d \in Deliveries, Transition(d), appt' # appt
      PROVE  \A a \in Appts : Ended(a) => appt'[a] = appt[a]
  <2>1. EventOf(d) \in Events /\ EventOf(d).appt \in Appts
    BY <1>2, Handles DEF Transition, At
  <2>2. appt' = [appt EXCEPT ![EventOf(d).appt] = Recorded(EventOf(d))] /\ Applies(EventOf(d))
    BY <1>2 DEF Transition
  <2>3. ~Ended(EventOf(d).appt)
    BY <2>2 DEF Applies, Ended, TERMINAL_STATUSES
  <2>4. QED
    BY <2>1, <2>2, <2>3 DEF TypeOK
<1>3. appt' = appt \/ \E d \in Deliveries : Transition(d)
  BY DEF vars, apptVars, Next, DeliveryStep, LocalStep, StepClaim, Call, StepDone, Recheck, Dispatch,
         Send, SettleSent, Defer, ReceiptFrame, Forget, Deliver, Recover, RecoveryStep, RecoveryDies,
         Lock, DispatchRecovered, SendRecovered, SettleRecovered, Retire, Park, RecoveryFrame
<1>4. QED
  BY <1>1, <1>2, <1>3

-----------------------------------------------------------------------------
(* The hand-over: steps that do not touch it *)

\* What a delivery that stays where it is needs from a step.
LEMMA OtherAgrees ==
  ASSUME TypeOK, ReceiptsAgree, NEW c \in Deliveries, DeliveryAgrees(c),
         StaysPut(c), answer'[c] = answer[c],
         \A a \in Appts : IsOwed(a) => IsOwed(a)',
         \A a \in Appts : confirmed[a] = 1 => confirmed'[a] = 1,
         Requesting(c) => confirmed'[ApptOf(c)] = confirmed[ApptOf(c)]
  PROVE  DeliveryAgrees(c)'
<1>1. CASE task[c].point = "idle"
  BY <1>1 DEF DeliveryAgrees, StaysPut, At
<1>2. CASE task[c].point # "idle"
  <2>1. PICK a \in Appts : a = ApptOf(c)
    BY <1>2, Handles
  <2>2. a = task'[c].event.appt /\ a = task[c].event.appt
    BY <2>1 DEF StaysPut, ApptOf, EventOf
  <2>3. IsOwed(a) => IsOwed(a)'
    OBVIOUS
  <2>4. task[c].point = "complete" /\ answer[c] = "held" => IsOwed(a)'
    BY <2>1, <2>3 DEF DeliveryAgrees, At
  <2>5. task[c].point = "complete" /\ answer[c] = "held" => IsOwed(ApptOf(c))'
    BY <2>2, <2>4 DEF IsOwed, Ended, ApptOf, EventOf
  <2>6. /\ answer[c] = "accepted" => confirmed'[a] = 1
        /\ task[c].point \in {"send", "settle"} => confirmed'[a] = confirmed[a]
    BY <2>1 DEF DeliveryAgrees, Requesting
  <2>7. QED
    BY <2>2, <2>5, <2>6 DEF DeliveryAgrees, At, StaysPut, StepOf, ApptOf, EventOf, Says
<1>3. QED
  BY <1>1, <1>2

\* What an appointment's hand-overs need from a step that leaves the plans.
LEMMA HandoffStays ==
  ASSUME HandoffIsOwned, \A e \in Events : plan'[e].handoff = plan[e].handoff,
         \A a \in Appts : IsOwed(a) => IsOwed(a)',
         \A a \in Appts : confirmed[a] = 1 => confirmed'[a] = 1
  PROVE  HandoffIsOwned'
BY EventsAreTyped DEF HandoffIsOwned, IsOwed

\* Deliveries that have no answer any more, at points where they request nothing.
LEMMA HandoverLeaves ==
  ASSUME TypeOK, ReceiptsAgree, HandoverAgrees, TardyAgrees', RecoveryAgrees', CutAgrees',
         HandoffIsOwned', UNCHANGED <<ledger, confirmed, recovery>>,
         \A a \in Appts : IsOwed(a) => IsOwed(a)',
         \A c \in Deliveries : \/ task'[c] = task[c] /\ answer'[c] = answer[c]
                               \/ answer'[c] = "none" /\ task'[c].point \notin {"send", "settle"}
  PROVE  HandoverAgrees'
<1>1. LedgerAgrees'
  BY DEF HandoverAgrees, LedgerAgrees
<1>2. OneRequest'
  BY DEF HandoverAgrees, OneRequest, Requesting, Recovering, ApptOf, EventOf
<1>3. ASSUME NEW c \in Deliveries
      PROVE  DeliveryAgrees(c)'
  <2>1. CASE task'[c] = task[c] /\ answer'[c] = answer[c]
    <3>1. DeliveryAgrees(c)
      BY DEF HandoverAgrees
    <3>2. QED
      BY <2>1, <3>1, OtherAgrees DEF StaysPut
  <2>2. CASE answer'[c] = "none" /\ task'[c].point \notin {"send", "settle"}
    BY <2>2 DEF DeliveryAgrees, At
  <2>3. QED
    BY <2>1, <2>2
<1>4. QED
  BY <1>1, <1>2, <1>3 DEF HandoverAgrees

\* So for steps that touch nothing of the hand-over.
LEMMA HandoverKept ==
  ASSUME TypeOK, ReceiptsAgree, HandoverAgrees, TardyAgrees',
         UNCHANGED <<owed, ledger, confirmed, recovery, cut>>,
         \A e \in Events : plan'[e].handoff = plan[e].handoff,
         \A a \in Appts : Ended(a) => appt'[a] = appt[a],
         \A c \in Deliveries : \/ task'[c] = task[c] /\ answer'[c] = answer[c]
                               \/ answer'[c] = "none" /\ task'[c].point \notin {"send", "settle"}
  PROVE  HandoverAgrees'
<1>1. \A a \in Appts : IsOwed(a) => IsOwed(a)'
  BY DEF IsOwed, Ended
<1>2. RecoveryAgrees' /\ CutAgrees'
  BY DEF HandoverAgrees, RecoveryAgrees, CutAgrees, Says, RecoveryAt, Locked
<1>3. HandoffIsOwned'
  BY <1>1, HandoffStays DEF HandoverAgrees
<1>4. QED
  BY <1>1, <1>2, <1>3, HandoverLeaves

-----------------------------------------------------------------------------
(* The hand-over: deliveries that came too late *)

\* One delivery moves, and no tardy one to the confirmation.
LEMMA TardyMove ==
  ASSUME TypeOK, ReceiptsAgree, TardyAgrees, tardy' = tardy,
         \A a \in Appts : Ended(a) => appt'[a] = appt[a],
         NEW d \in Deliveries, \A c \in Deliveries : c # d => task'[c] = task[c],
         \/ task'[d] = task[d] \/ task'[d].point = "idle"
         \/ /\ task[d].point # "idle" /\ task'[d].event = task[d].event
            /\ \/ task'[d].step = task[d].step \/ task'[d].step # "confirm"
               \/ ~Superseded(EventOf(d))
  PROVE  TardyAgrees'
<1>1. ASSUME NEW c \in tardy, task'[c].point # "idle"
      PROVE  Superseded(EventOf(c))' /\ StepOf(c)' # "confirm"
  <2>1. c \in Deliveries
    BY DEF TypeOK
  <2>2. task[c].point # "idle" /\ task'[c].event = task[c].event
    BY <1>1, <2>1
  <2>3. Superseded(EventOf(c)) /\ task[c].step # "confirm"
    BY <2>2 DEF TardyAgrees, StepOf
  <2>4. task'[c].step # "confirm"
    BY <1>1, <2>1, <2>3
  <2>5. PICK e \in Events : e = task[c].event
    BY <2>1, <2>2, AtWork
  <2>6. Superseded(e)'
    BY <2>3, <2>5, EventsAreTyped DEF Superseded, Ended, EventOf
  <2>7. QED
    BY <2>2, <2>4, <2>5, <2>6 DEF EventOf, StepOf, Superseded, Ended
<1>2. QED
  BY <1>1 DEF TardyAgrees

\* Every step keeps tardy deliveries from the confirmation.
LEMMA TardyHolds ==
  ASSUME TypeOK, ReceiptsAgree, TardyAgrees, [Next]_vars
  PROVE  TardyAgrees'
<1>1. \A a \in Appts : Ended(a) => appt'[a] = appt[a]
  BY EndedStays
<1>0. ReceiptsTypeOK
  BY DEF TypeOK
<1>2. ASSUME tardy' = tardy, task' = task
      PROVE  TardyAgrees'
  <2>1. ASSUME NEW c \in tardy, task[c].point # "idle"
        PROVE  Superseded(EventOf(c))' /\ StepOf(c)' # "confirm"
    <3>1. Superseded(EventOf(c)) /\ StepOf(c) # "confirm" /\ c \in Deliveries
      BY <2>1 DEF TardyAgrees, TypeOK
    <3>2. PICK e \in Events : e = task[c].event
      BY <2>1, <3>1, AtWork
    <3>3. QED
      BY <1>1, <1>2, <3>1, <3>2, EventsAreTyped DEF EventOf, StepOf, Superseded, Ended
  <2>2. QED
    BY <1>2, <2>1 DEF TardyAgrees
<1>3. ASSUME NEW d \in Deliveries, NEW p \in Points, GoTo(d, p), task[d].point # "idle", tardy' = tardy
      PROVE  TardyAgrees'
  <2>1. /\ \A c \in Deliveries : c # d => task'[c] = task[c]
        /\ task'[d].event = task[d].event /\ task'[d].step = task[d].step
    BY <1>0, <1>3, GoToMoves
  <2>2. QED
    BY <1>1, <1>3, <2>1, TardyMove
<1>4. ASSUME NEW d \in Deliveries, NEW p \in Points, NEW s \in Steps \cup {None}, Begin(d, p, s),
             s # "confirm" \/ ~Superseded(EventOf(d)), task[d].point # "idle", tardy' = tardy
      PROVE  TardyAgrees'
  <2>1. /\ \A c \in Deliveries : c # d => task'[c] = task[c]
        /\ task'[d].event = task[d].event /\ task'[d].step = s
    BY <1>0, <1>4, BeginMoves
  <2>2. QED
    BY <1>1, <1>4, <2>1, TardyMove
<1>5. ASSUME NEW d \in Deliveries, task' = [task EXCEPT ![d] = Idle], tardy' = tardy
      PROVE  TardyAgrees'
  <2>1. /\ \A c \in Deliveries : c # d => task'[c] = task[c]
        /\ task'[d].point = "idle"
    BY <1>0, <1>5 DEF ReceiptsTypeOK, Idle
  <2>2. QED
    BY <1>1, <1>5, <2>1, TardyMove
<1>6. ASSUME NEW d \in Deliveries, DeliveryStep(d)
      PROVE  TardyAgrees'
  <2>0. tardy' = tardy
    BY <1>6 DEF DeliveryStep, Transition, LocalStep, StepClaim, Call, StepDone, Recheck, Dispatch, Send,
                SettleSent, Defer, ReceiptFrame, Forget, history
  <2>1. /\ \A p \in {"local", "end", "check", "claim", "fail", "dispatch", "call", "recheck", "complete",
                     "release", "send", "settle", "defer"} : p \in Points
        /\ None \in Steps \cup {None} /\ "confirm" \in Steps /\ None # "confirm"
        /\ \A e, o : FirstCall(e, o) \in Steps \cup {None} /\ FirstCall(e, o) # "confirm"
        /\ \A e, o : After(e, o) \in Points
    BY FirstCallIsStep, NoneIsNothing DEF Points, Steps, CallSteps, After
  <2>2. CASE Transition(d)
    <3>1. task[d].point # "idle" /\
          ((\E p \in Points : GoTo(d, p)) \/ (\E p \in Points : Begin(d, p, None)))
      BY <2>1, <2>2 DEF Transition, At, TxFails, TxReplay, TxCommit
    <3>2. QED
      BY <1>3, <1>4, <2>0, <2>1, <3>1
  <2>3. CASE LocalStep(d)
    <3>1. task[d].point # "idle" /\
          ((\E p \in Points : GoTo(d, p)) \/ (\E e, o : Begin(d, After(e, o), FirstCall(e, o))))
      BY <2>1, <2>3 DEF LocalStep, At, TxFails, TxReplay, TxCommit
    <3>2. QED
      BY <1>3, <1>4, <2>0, <2>1, <3>1
  <2>4. CASE Recheck(d)
    <3>1. task[d].point # "idle" /\
          (Begin(d, "end", None) \/ (~Superseded(EventOf(d)) /\ Begin(d, "check", "confirm")))
      BY <2>4 DEF Recheck, At
    <3>2. QED
      BY <1>4, <2>0, <2>1, <3>1
  <2>5. CASE \/ StepClaim(d) \/ Call(d) \/ StepDone(d) \/ Dispatch(d) \/ Send(d) \/ SettleSent(d)
             \/ Defer(d) \/ CheckClaim(d) \/ ReleaseRow(d)
    <3>1. task[d].point # "idle" /\ \E p \in Points : GoTo(d, p)
      BY <2>1, <2>5 DEF StepClaim, ClaimRow, Call, StepDone, CompleteRow, Dispatch, Send, SettleSent,
                        Defer, CheckClaim, ReleaseRow, At
    <3>2. QED
      BY <1>3, <2>0, <3>1
  <2>6. CASE End(d) \/ Refuse(d)
    BY <1>5, <2>0, <2>6 DEF End, Refuse
  <2>7. QED
    BY <1>6, <2>2, <2>3, <2>4, <2>5, <2>6 DEF DeliveryStep
<1>7. ASSUME NEW d \in Deliveries, NEW e \in Events, NEW c \in Contents, Deliver(d, e, c)
      PROVE  TardyAgrees'
  <2>1. /\ task'[d] = [point |-> "transition", event |-> e, content |-> c, step |-> None]
        /\ \A b \in Deliveries : b # d => task'[b] = task[b]
        /\ appt' = appt /\ None # "confirm"
    BY <1>7, NoneIsNothing DEF Deliver, ClaimReceipt, TypeOK, ReceiptsTypeOK, apptVars, Steps, CallSteps
  <2>2. ASSUME NEW b \in tardy', task'[b].point # "idle"
        PROVE  Superseded(EventOf(b))' /\ StepOf(b)' # "confirm"
    <3>1. CASE b = d
      BY <1>7, <2>1, <2>2, <3>1 DEF Deliver, Superseded, Ended, EventOf, StepOf
    <3>2. CASE b # d
      <4>1. b \in tardy /\ b \in Deliveries /\ task'[b] = task[b]
        BY <1>7, <2>1, <3>2 DEF Deliver, TypeOK
      <4>2. QED
        BY <2>1, <2>2, <4>1 DEF TardyAgrees, Superseded, Ended, EventOf, StepOf
    <3>3. QED
      BY <3>1, <3>2
  <2>3. QED
    BY <2>2 DEF TardyAgrees
<1>8. ASSUME NEW d \in Deliveries, (Renew(d) /\ ReceiptFrame) \/ (Die(d) /\ Forget(d))
      PROVE  TardyAgrees'
  BY <1>2, <1>5, <1>8 DEF Renew, Die, ReceiptFrame, Forget, history
<1>9. CASE \/ UNCHANGED vars
           \/ \E m \in sent : AckDuplicate(m[1], m[2]) /\ ReceiptFrame
           \/ \E e \in Events : LapseReceipt(e) /\ ReceiptFrame
           \/ \E e \in Events, s \in CallSteps : LapseRow(e, s) /\ ReceiptFrame
           \/ (\E a \in Appts : Recover(a)) \/ RecoveryStep \/ RecoveryDies
  <2>1. tardy' = tardy /\ task' = task
    BY <1>9 DEF vars, receiptVars, AckDuplicate, LapseReceipt, LapseRow, ReceiptFrame, history, Recover,
                RecoveryStep, RecoveryDies, Lock, DispatchRecovered, SendRecovered, SettleRecovered,
                Retire, Park, RecoveryFrame
  <2>2. QED
    BY <1>2, <2>1
<1>10. QED
  BY <1>6, <1>7, <1>8, <1>9, Zenon DEF Next

\* Steps of the receipts, and of deliveries that are at no request.
LEMMA HandoverQuiet ==
  ASSUME TypeOK, ReceiptsAgree, HandoverAgrees, TardyAgrees', [Next]_vars,
         \/ UNCHANGED vars
         \/ \E d \in Deliveries :
              \/ Transition(d) \/ StepClaim(d) \/ Call(d) \/ Recheck(d)
              \/ ((CheckClaim(d) \/ End(d) \/ Refuse(d) \/ Renew(d)) /\ ReceiptFrame)
              \/ \E e \in Events, c \in Contents : Deliver(d, e, c)
         \/ \E m \in sent : AckDuplicate(m[1], m[2]) /\ ReceiptFrame
         \/ \E e \in Events : LapseReceipt(e) /\ ReceiptFrame
         \/ \E e \in Events, s \in CallSteps : LapseRow(e, s) /\ ReceiptFrame
  PROVE  HandoverAgrees'
<1>1. UNCHANGED <<owed, ledger, confirmed, answer, recovery, cut>>
  BY DEF vars, handoffVars, history, Transition, StepClaim, Call, Recheck, ReceiptFrame, Deliver
<1>2. \A e \in Events : plan'[e].handoff = plan[e].handoff
  <2>1. CASE plan' = plan
    BY <2>1
  <2>2. ASSUME NEW d \in Deliveries, Transition(d), plan' # plan
        PROVE  \A e \in Events : plan'[e].handoff = plan[e].handoff
    BY <2>2 DEF Transition, TypeOK
  <2>3. plan' = plan \/ \E d \in Deliveries : Transition(d)
    BY DEF vars, apptVars, StepClaim, Call, Recheck, ReceiptFrame, Deliver
  <2>4. QED
    BY <2>1, <2>2, <2>3
<1>3. \A a \in Appts : Ended(a) => appt'[a] = appt[a]
  BY EndedStays
<1>5. /\ {"local", "end", "check", "claim", "fail", "dispatch", "call", "recheck", "complete",
          "release"} \subseteq Points
      /\ None \in Steps \cup {None} /\ "confirm" \in Steps
  BY DEF Points, Steps, CallSteps
<1>6. ReceiptsTypeOK
  BY DEF TypeOK
<1>7. ASSUME NEW d \in Deliveries, task[d].point \notin {"settle", "defer", "complete", "release"},
             NEW p \in Points, p \notin {"send", "settle"},
             GoTo(d, p) \/ \E s \in Steps \cup {None} : Begin(d, p, s)
      PROVE  HandoverAgrees'
  <2>1. answer[d] = "none"
    BY <1>7 DEF HandoverAgrees, DeliveryAgrees
  <2>2. task'[d].point = p /\ \A c \in Deliveries : c # d => task'[c] = task[c]
    BY <1>6, <1>7, GoToMoves, BeginMoves
  <2>3. \A c \in Deliveries : \/ task'[c] = task[c] /\ answer'[c] = answer[c]
                              \/ answer'[c] = "none" /\ task'[c].point \notin {"send", "settle"}
    BY <1>1, <1>7, <2>1, <2>2
  <2>4. QED
    BY <1>1, <1>2, <1>3, <2>3, HandoverKept
<1>8. ASSUME NEW d \in Deliveries,
             Transition(d) \/ StepClaim(d) \/ Call(d) \/ Recheck(d) \/ CheckClaim(d)
      PROVE  HandoverAgrees'
  <2>1. task[d].point \notin {"settle", "defer", "complete", "release"}
    BY <1>8 DEF Transition, StepClaim, ClaimRow, Call, Recheck, CheckClaim, At
  <2>2. \E p \in Points : p \notin {"send", "settle"}
                          /\ (GoTo(d, p) \/ \E s \in Steps \cup {None} : Begin(d, p, s))
    BY <1>5, <1>8 DEF Transition, TxFails, TxReplay, TxCommit, StepClaim, ClaimRow, Call, Recheck, CheckClaim
  <2>3. QED
    BY <1>7, <2>1, <2>2
<1>9. ASSUME NEW d \in Deliveries, NEW t, t.point \notin {"send", "settle"},
             task' = [task EXCEPT ![d] = t],
             task[d].point \notin {"settle", "defer", "complete", "release"}
      PROVE  HandoverAgrees'
  <2>1. answer[d] = "none"
    BY <1>9 DEF HandoverAgrees, DeliveryAgrees
  <2>2. \A c \in Deliveries : \/ task'[c] = task[c] /\ answer'[c] = answer[c]
                              \/ answer'[c] = "none" /\ task'[c].point \notin {"send", "settle"}
    BY <1>1, <1>6, <1>9, <2>1 DEF ReceiptsTypeOK
  <2>3. QED
    BY <1>1, <1>2, <1>3, <2>2, HandoverKept
<1>10. ASSUME NEW d \in Deliveries, End(d) \/ Refuse(d)
       PROVE  HandoverAgrees'
  BY <1>9, <1>10 DEF End, Refuse, Idle, At
<1>11. ASSUME NEW d \in Deliveries, NEW e \in Events, NEW c \in Contents, Deliver(d, e, c)
       PROVE  HandoverAgrees'
  <2>1. PICK t : t = [point |-> "transition", event |-> e, content |-> c, step |-> None]
    OBVIOUS
  <2>2. t.point = "transition" /\ task' = [task EXCEPT ![d] = t] /\ task[d].point = "idle"
    BY <1>11, <2>1 DEF Deliver, ClaimReceipt, At
  <2>3. QED
    BY <1>9, <2>2
<1>12. ASSUME task' = task
       PROVE  HandoverAgrees'
  BY <1>1, <1>2, <1>3, <1>12, HandoverKept
<1>13. CASE \/ UNCHANGED vars
            \/ \E d \in Deliveries : Renew(d)
            \/ \E m \in sent : AckDuplicate(m[1], m[2])
            \/ \E e \in Events : LapseReceipt(e)
            \/ \E e \in Events, s \in CallSteps : LapseRow(e, s)
  BY <1>12, <1>13 DEF vars, receiptVars, Renew, AckDuplicate, LapseReceipt, LapseRow
<1>14. QED
  BY <1>8, <1>10, <1>11, <1>13

-----------------------------------------------------------------------------
(* The hand-over: deliveries *)

\* The end of an appointment cancels what is owed, unless the recovery has it locked.
LEMMA HandoverAfterLocalStep ==
  ASSUME TypeOK, ReceiptsAgree, HandoverAgrees, TardyAgrees', [Next]_vars,
         NEW d \in Deliveries, LocalStep(d)
  PROVE  HandoverAgrees'
<1>1. /\ task[d].point # "idle" /\ At(d, "local") /\ task[d].point = "local"
      /\ UNCHANGED <<appt, ledger, confirmed, answer, recovery>>
  BY DEF LocalStep, At
<1>2. PICK e \in Events : e = EventOf(d)
  BY <1>1, AtWork
<1>3. e.appt \in Appts /\ plan[e].verdict = "apply"
  BY <1>1, <1>2, AtWork, EventsAreTyped
<1>4. PICK a \in Appts : a = e.appt
  BY <1>3
<1>5. \/ UNCHANGED <<owed, cut>>
      \/ /\ EndsObligation(e) /\ (owed[a] # "none" => ~Locked(a))
         /\ owed' = [owed EXCEPT ![a] = IF @ = "pending" THEN "none" ELSE @]
         /\ cut' = cut \cup {a}
  BY <1>2, <1>4 DEF LocalStep
<1>6. EndsObligation(e) => Ended(a)
  BY <1>3, <1>4 DEF EndsObligation, ReceiptsAgree, PlansAgree, Ended, TERMINAL_STATUSES
<1>7. \A b \in Appts : IsOwed(b) => IsOwed(b)'
  BY <1>1, <1>5, <1>6 DEF IsOwed, Ended, TypeOK
<1>8. \A f \in Events : plan'[f].handoff = plan[f].handoff
  BY DEF LocalStep, TypeOK
<1>9. HandoffIsOwned'
  BY <1>1, <1>7, <1>8, HandoffStays DEF HandoverAgrees
<1>10. CutAgrees'
  BY <1>5 DEF HandoverAgrees, CutAgrees, TypeOK
<1>11. RecoveryAgrees'
  <2>1. Locked(recovery.appt) => owed'[recovery.appt] = "pending"
    <3>1. Locked(recovery.appt) => recovery.appt \in Appts /\ owed[recovery.appt] = "pending"
      BY DEF HandoverAgrees, RecoveryAgrees, Locked
    <3>2. QED
      BY <1>5, <3>1 DEF TypeOK
  <2>2. QED
    BY <1>1, <2>1 DEF HandoverAgrees, RecoveryAgrees, Says, RecoveryAt, Locked
<1>12. answer[d] = "none"
  BY <1>1 DEF HandoverAgrees, DeliveryAgrees
<1>13. \A c \in Deliveries : c # d => task'[c] = task[c]
  BY DEF LocalStep, TxFails, TxReplay, TxCommit, GoTo, Begin, TypeOK, ReceiptsTypeOK
<1>14. task'[d].point \notin {"send", "settle"}
  <2>1. \A f, o : After(f, o) \notin {"send", "settle"}
    BY DEF After
  <2>2. QED
    BY <2>1 DEF LocalStep, TxFails, TxReplay, TxCommit, GoTo, Begin, TypeOK, ReceiptsTypeOK
<1>15. QED
  BY <1>1, <1>7, <1>9, <1>10, <1>11, <1>12, <1>13, <1>14, HandoverLeaves

\* A completed step reports what its answer says.
LEMMA HandoverAfterDone ==
  ASSUME TypeOK, ReceiptsAgree, HandoverAgrees, TardyAgrees', NEW d \in Deliveries, StepDone(d)
  PROVE  HandoverAgrees'
<1>1. /\ task[d].point # "idle" /\ At(d, "complete")
      /\ UNCHANGED <<appt, owed, ledger, confirmed, recovery, cut>>
      /\ answer' = [answer EXCEPT ![d] = "none"]
  BY DEF StepDone, CompleteRow, At, history
<1>2. PICK e \in Events : e = EventOf(d)
  BY <1>1, AtWork
<1>3. \A b \in Appts : IsOwed(b) => IsOwed(b)'
  BY <1>1 DEF IsOwed, Ended
<1>4. RecoveryAgrees' /\ CutAgrees'
  BY <1>1 DEF HandoverAgrees, RecoveryAgrees, CutAgrees, Says, RecoveryAt, Locked
<1>5. HandoffIsOwned'
  <2>1. CASE plan' = plan
    BY <1>1, <1>3, <2>1, HandoffStays DEF HandoverAgrees
  <2>2. CASE plan' = [plan EXCEPT ![e].handoff = answer[d]]
    <3>1. /\ plan'[e].handoff = answer[d]
          /\ \A f \in Events : f # e => plan'[f].handoff = plan[f].handoff
      BY <2>2 DEF TypeOK
    <3>2. /\ answer[d] = "accepted" => confirmed[e.appt] = 1
          /\ answer[d] = "held" => IsOwed(e.appt)
      BY <1>1, <1>2 DEF HandoverAgrees, DeliveryAgrees, ApptOf
    <3>3. QED
      BY <1>1, <3>1, <3>2 DEF HandoverAgrees, HandoffIsOwned, IsOwed, Ended
  <2>3. QED
    BY <1>2, <2>1, <2>2 DEF StepDone
<1>6. /\ \A c \in Deliveries : c # d => task'[c] = task[c] /\ answer'[c] = answer[c]
      /\ answer'[d] = "none"
  BY <1>1 DEF StepDone, CompleteRow, GoTo, TypeOK, ReceiptsTypeOK
<1>7. task'[d].point \notin {"send", "settle"}
  BY DEF StepDone, CompleteRow, GoTo, TypeOK, ReceiptsTypeOK
<1>8. QED
  BY <1>1, <1>3, <1>4, <1>5, <1>6, <1>7, HandoverLeaves

\* A delivery that gives up or dies takes its answer with it.
LEMMA HandoverAfterForget ==
  ASSUME TypeOK, ReceiptsAgree, HandoverAgrees, TardyAgrees', NEW d \in Deliveries,
         ReleaseRow(d) \/ Die(d), Forget(d)
  PROVE  HandoverAgrees'
<1>1. /\ UNCHANGED <<owed, ledger, confirmed, recovery, cut>> /\ UNCHANGED <<plan, appt>>
      /\ answer' = [answer EXCEPT ![d] = "none"]
  BY DEF Forget, apptVars, history
<1>2. /\ \A c \in Deliveries : c # d => task'[c] = task[c] /\ answer'[c] = answer[c]
      /\ answer'[d] = "none" /\ task'[d].point \notin {"send", "settle"}
  BY <1>1 DEF ReleaseRow, Die, GoTo, Idle, TypeOK, ReceiptsTypeOK
<1>3. QED
  BY <1>1, <1>2, HandoverKept

\* A request under way is the only one for its appointment: what changes the
\* confirmations of that appointment leaves the other deliveries as they were.
LEMMA OthersAgree ==
  ASSUME TypeOK, ReceiptsAgree, HandoverAgrees, NEW d \in Deliveries, NEW a \in Appts, a = ApptOf(d),
         \A c \in Deliveries : c # d => task'[c] = task[c] /\ answer'[c] = answer[c],
         \A b \in Appts : IsOwed(b) => IsOwed(b)',
         \A b \in Appts : confirmed[b] = 1 => confirmed'[b] = 1,
         \A b \in Appts : b # a => confirmed'[b] = confirmed[b],
         confirmed'[a] = confirmed[a] \/ Requesting(d)
  PROVE  \A c \in Deliveries : c # d => DeliveryAgrees(c)'
<1>1. ASSUME NEW c \in Deliveries, c # d
      PROVE  DeliveryAgrees(c)'
  <2>1. Requesting(c) => confirmed'[ApptOf(c)] = confirmed[ApptOf(c)]
    <3>1. ASSUME Requesting(c)
          PROVE  confirmed'[ApptOf(c)] = confirmed[ApptOf(c)]
      <4>1. ApptOf(c) \in Appts
        BY <3>1, Handles DEF Requesting
      <4>2. ApptOf(c) = a => confirmed'[a] = confirmed[a]
        BY <1>1, <3>1 DEF HandoverAgrees, OneRequest
      <4>3. QED
        BY <4>1, <4>2
    <3>2. QED
      BY <3>1
  <2>2. DeliveryAgrees(c) /\ StaysPut(c) /\ answer'[c] = answer[c]
    BY <1>1 DEF HandoverAgrees, StaysPut
  <2>3. QED
    BY <2>1, <2>2, OtherAgrees
<1>2. QED
  BY <1>1

\* A request starts where none is under way and none was taken.
LEMMA HandoverAfterDispatch ==
  ASSUME TypeOK, ReceiptsAgree, HandoverAgrees, TardyAgrees', NEW d \in Deliveries, Dispatch(d)
  PROVE  HandoverAgrees'
<1>1. /\ task[d].point = "dispatch" /\ UNCHANGED <<plan, appt, owed, confirmed, recovery, cut>>
      /\ ReceiptsTypeOK
  BY DEF Dispatch, At, apptVars, history, TypeOK
<1>2. PICK a \in Appts : a = ApptOf(d)
  BY <1>1, Handles
<1>3. answer[d] = "none" /\ task[d].step = "confirm"
  BY <1>1 DEF HandoverAgrees, DeliveryAgrees, ReceiptsAgree, Position, HandoverPoints, Tasks
<1>4. /\ \A b \in Appts : IsOwed(b) => IsOwed(b)'
      /\ RecoveryAgrees' /\ CutAgrees' /\ HandoffIsOwned'
  BY <1>1 DEF HandoverAgrees, RecoveryAgrees, CutAgrees, HandoffIsOwned, IsOwed, Ended,
                    Says, RecoveryAt, Locked
<1>5. {"send", "complete"} \subseteq Points
  BY DEF Points
<1>6. CASE MayStart(a) /\ Start(a) /\ GoTo(d, "send") /\ UNCHANGED answer
  <2>1. /\ task'[d].point = "send" /\ task'[d].event = task[d].event /\ task'[d].step = "confirm"
        /\ \A c \in Deliveries : c # d => task'[c] = task[c] /\ answer'[c] = answer[c]
    BY <1>1, <1>3, <1>5, <1>6, GoToMoves
  <2>2. ledger'[a] = "started" /\ \A b \in Appts : b # a => ledger'[b] = ledger[b]
    BY <1>6 DEF Start, TypeOK
  <2>3. confirmed[a] = 0
    BY <1>6 DEF MayStart, HandoverAgrees, LedgerAgrees
  <2>4. LedgerAgrees'
    BY <1>1, <2>2 DEF HandoverAgrees, LedgerAgrees
  <2>5. ApptOf(d)' = a
    BY <1>2, <2>1 DEF ApptOf, EventOf
  <2>6. \A c \in Deliveries : c # d => ApptOf(c)' = ApptOf(c) /\ Requesting(c)' = Requesting(c)
    BY <2>1 DEF ApptOf, EventOf, Requesting
  <2>7. /\ \A c \in Deliveries : Requesting(c) => ApptOf(c) # a /\ ApptOf(c) \in Appts
        /\ Recovering => recovery.appt # a /\ recovery.appt \in Appts
    <3>1. ledger[a] # "started"
      BY <1>6 DEF MayStart
    <3>2. \A c \in Deliveries : Requesting(c) => ApptOf(c) \in Appts
      BY Handles DEF Requesting
    <3>3. QED
      BY <3>1, <3>2 DEF HandoverAgrees, OneRequest, RecoveryAgrees, Recovering
  <2>8. OneRequest'
    <3>1. Recovering' = Recovering /\ recovery' = recovery
      BY <1>1 DEF Recovering
    <3>2. \A c \in Deliveries : Requesting(c)' => ledger'[ApptOf(c)'] = "started"
      BY <2>2, <2>5, <2>6, <2>7 DEF HandoverAgrees, OneRequest
    <3>3. Recovering => ledger'[recovery.appt] = "started"
      BY <2>2, <2>7 DEF HandoverAgrees, OneRequest
    <3>4. \A b, c \in Deliveries : Requesting(b)' /\ Requesting(c)' /\ ApptOf(b)' = ApptOf(c)' => b = c
      BY <2>5, <2>6, <2>7 DEF HandoverAgrees, OneRequest
    <3>5. \A c \in Deliveries : Requesting(c)' /\ Recovering => ApptOf(c)' # recovery.appt
      BY <2>5, <2>6, <2>7 DEF HandoverAgrees, OneRequest
    <3>6. QED
      BY <3>1, <3>2, <3>3, <3>4, <3>5 DEF OneRequest
  <2>9. DeliveryAgrees(d)'
    BY <1>1, <1>3, <1>6, <2>1, <2>3, <2>5 DEF DeliveryAgrees, At
  <2>10. QED
    BY <1>1, <1>2, <1>4, <2>1, <2>4, <2>8, <2>9, OthersAgree DEF HandoverAgrees
<1>7. CASE /\ GoTo(d, "complete") /\ UNCHANGED ledger
           /\ answer' = [answer EXCEPT ![d] = IF ledger[a] = "accepted" THEN "accepted" ELSE "unknown"]
  <2>1. /\ task'[d].point = "complete" /\ task'[d].event = task[d].event /\ task'[d].step = "confirm"
        /\ \A c \in Deliveries : c # d => task'[c] = task[c]
    BY <1>1, <1>3, <1>5, <1>7, GoToMoves
  <2>2. /\ \A c \in Deliveries : c # d => answer'[c] = answer[c]
        /\ answer'[d] \in {"accepted", "unknown"}
        /\ answer'[d] = "accepted" => ledger[a] = "accepted"
    BY <1>7 DEF TypeOK
  <2>3. LedgerAgrees'
    BY <1>1, <1>7 DEF HandoverAgrees, LedgerAgrees
  <2>4. OneRequest'
    BY <1>1, <1>7, <2>1 DEF HandoverAgrees, OneRequest, Requesting, Recovering, ApptOf, EventOf
  <2>5. DeliveryAgrees(d)'
    <3>1. ApptOf(d)' = a
      BY <1>2, <2>1 DEF ApptOf, EventOf
    <3>2. answer'[d] = "accepted" => confirmed'[a] = 1
      BY <1>1, <2>2 DEF HandoverAgrees, LedgerAgrees
    <3>3. QED
      BY <2>1, <2>2, <3>1, <3>2 DEF DeliveryAgrees, At, StepOf
  <2>6. QED
    BY <1>1, <1>2, <1>4, <2>1, <2>2, <2>3, <2>4, <2>5, OthersAgree DEF HandoverAgrees
<1>8. QED
  BY <1>2, <1>6, <1>7 DEF Dispatch

\* A reply to the first request that the provider takes says how often it took one.
LEMMA ReplyWrites ==
  ASSUME TypeOK, NEW a \in Appts, NEW reply \in Answers, confirmed[a] = 0, Reply(a, reply)
  PROVE  /\ \A b \in Appts : b # a => confirmed'[b] = confirmed[b]
         /\ \A b \in Appts : confirmed[b] = 1 => confirmed'[b] = 1
         /\ confirmed'[a] <= 1 /\ Says(reply, a)'
<1>1. \/ confirmed' = [confirmed EXCEPT ![a] = 1] /\ reply \in {"accepted", "unknown"}
      \/ confirmed' = confirmed /\ reply # "accepted"
  BY DEF Reply, TypeOK
<1>2. QED
  BY <1>1 DEF TypeOK, Says

\* The provider takes the first request of an appointment, or does not.
LEMMA HandoverAfterSend ==
  ASSUME TypeOK, ReceiptsAgree, HandoverAgrees, TardyAgrees', NEW d \in Deliveries, Send(d)
  PROVE  HandoverAgrees'
<1>1. /\ task[d].point = "send" /\ UNCHANGED <<plan, appt, owed, ledger, recovery, cut>>
      /\ ReceiptsTypeOK /\ GoTo(d, "settle")
  BY DEF Send, At, apptVars, history, TypeOK
<1>2. PICK a \in Appts : a = ApptOf(d)
  BY <1>1, Handles
<1>3. PICK reply \in Answers \ {"none"} : Reply(a, reply) /\ answer' = [answer EXCEPT ![d] = reply]
  BY <1>2 DEF Send
<1>4. /\ ledger[a] = "started" /\ confirmed[a] = 0 /\ task[d].step = "confirm"
      /\ Recovering => recovery.appt # a
  BY <1>1, <1>2 DEF HandoverAgrees, OneRequest, Requesting, DeliveryAgrees, At,
                    ReceiptsAgree, Position, HandoverPoints, Tasks
<1>5. /\ \A b \in Appts : b # a => confirmed'[b] = confirmed[b]
      /\ \A b \in Appts : confirmed[b] = 1 => confirmed'[b] = 1
      /\ confirmed'[a] <= 1 /\ Says(reply, a)'
  BY <1>3, <1>4, ReplyWrites
<1>6. "settle" \in Points
  BY DEF Points
<1>7. /\ task'[d].point = "settle" /\ task'[d].event = task[d].event /\ task'[d].step = "confirm"
      /\ \A c \in Deliveries : c # d => task'[c] = task[c]
  BY <1>1, <1>4, <1>6, GoToMoves
<1>8. /\ answer'[d] = reply
      /\ \A c \in Deliveries : c # d => answer'[c] = answer[c]
  BY <1>3 DEF TypeOK
<1>9. /\ \A b \in Appts : IsOwed(b) => IsOwed(b)'
      /\ HandoffIsOwned' /\ CutAgrees'
  <2>1. \A b \in Appts : IsOwed(b) => IsOwed(b)'
    BY <1>1, <1>5 DEF IsOwed, Ended
  <2>2. HandoffIsOwned'
    BY <1>1, <1>5, <2>1, HandoffStays DEF HandoverAgrees
  <2>3. QED
    BY <1>1, <2>1, <2>2 DEF HandoverAgrees, CutAgrees
<1>10. RecoveryAgrees'
  <2>1. Recovering => confirmed'[recovery.appt] = confirmed[recovery.appt]
    BY <1>4, <1>5 DEF HandoverAgrees, RecoveryAgrees, Recovering
  <2>2. RecoveryAt("retire") /\ recovery.answer = "accepted" => confirmed'[recovery.appt] = 1
    BY <1>5 DEF HandoverAgrees, RecoveryAgrees, RecoveryAt
  <2>3. QED
    BY <1>1, <2>1, <2>2 DEF HandoverAgrees, RecoveryAgrees, RecoveryAt, Recovering, Says, Locked
<1>11. LedgerAgrees'
  BY <1>1, <1>4, <1>5 DEF HandoverAgrees, LedgerAgrees
<1>12. OneRequest'
  BY <1>1, <1>7 DEF HandoverAgrees, OneRequest, Requesting, Recovering, ApptOf, EventOf
<1>13. DeliveryAgrees(d)'
  <2>1. ApptOf(d)' = a
    BY <1>2, <1>7 DEF ApptOf, EventOf
  <2>2. QED
    BY <1>5, <1>7, <1>8, <2>1 DEF DeliveryAgrees, At, StepOf, Says
<1>14. QED
  BY <1>1, <1>2, <1>5, <1>7, <1>8, <1>9, <1>10, <1>11, <1>12, <1>13, OthersAgree
     DEF HandoverAgrees, Requesting

\* A settlement keeps what the reply says.
LEMMA HandoverAfterSettle ==
  ASSUME TypeOK, ReceiptsAgree, HandoverAgrees, TardyAgrees', NEW d \in Deliveries, SettleSent(d)
  PROVE  HandoverAgrees'
<1>1. /\ task[d].point = "settle" /\ ReceiptsTypeOK
      /\ UNCHANGED <<plan, appt, owed, confirmed, answer, recovery, cut>>
  BY DEF SettleSent, At, apptVars, history, TypeOK
<1>2. PICK a \in Appts : a = ApptOf(d)
  BY <1>1, Handles
<1>3. /\ ledger[a] = "started" /\ Says(answer[d], a) /\ task[d].step = "confirm"
      /\ \A c \in Deliveries : c # d /\ Requesting(c) => ApptOf(c) # a
      /\ Recovering => recovery.appt # a
  BY <1>1, <1>2 DEF HandoverAgrees, OneRequest, Requesting, DeliveryAgrees, At,
                    ReceiptsAgree, Position, HandoverPoints, Tasks
<1>4. /\ \A b \in Appts : b # a => ledger'[b] = ledger[b]
      /\ \/ ledger'[a] = ledger[a]
         \/ answer[d] = "accepted" /\ ledger'[a] = "accepted"
         \/ answer[d] \in {"held", "rejected"} /\ ledger'[a] = "refused"
  BY <1>2, SettleWrites DEF SettleSent
<1>5. {"defer", "release", "complete"} \subseteq Points
  BY DEF Points
<1>6. PICK p \in {"defer", "release", "complete"} : GoTo(d, p) /\ (p = "complete" => answer[d] # "held")
  BY DEF SettleSent
<1>7. /\ task'[d].point = p /\ task'[d].event = task[d].event /\ task'[d].step = "confirm"
      /\ \A c \in Deliveries : c # d => task'[c] = task[c]
  BY <1>1, <1>3, <1>5, <1>6, GoToMoves
<1>8. /\ \A b \in Appts : IsOwed(b) => IsOwed(b)'
      /\ RecoveryAgrees' /\ CutAgrees' /\ HandoffIsOwned'
  BY <1>1 DEF HandoverAgrees, RecoveryAgrees, CutAgrees, HandoffIsOwned, IsOwed, Ended,
                    Says, RecoveryAt, Locked
<1>9. LedgerAgrees'
  BY <1>1, <1>3, <1>4 DEF HandoverAgrees, LedgerAgrees, Says
<1>10. OneRequest'
  <2>1. \A c \in Deliveries : Requesting(c)' => c # d
    BY <1>6, <1>7 DEF Requesting
  <2>2. \A c \in Deliveries : c # d => ApptOf(c)' = ApptOf(c) /\ Requesting(c)' = Requesting(c)
    BY <1>7 DEF ApptOf, EventOf, Requesting
  <2>3. \A c \in Deliveries : Requesting(c) => ApptOf(c) \in Appts
    BY Handles DEF Requesting
  <2>4. \A c \in Deliveries : Requesting(c)' => ledger'[ApptOf(c)'] = "started"
    BY <1>3, <1>4, <2>1, <2>2, <2>3 DEF HandoverAgrees, OneRequest
  <2>5. Recovering' = Recovering /\ recovery' = recovery
    BY <1>1 DEF Recovering
  <2>6. Recovering => ledger'[recovery.appt] = "started"
    BY <1>3, <1>4 DEF HandoverAgrees, OneRequest, RecoveryAgrees, Recovering
  <2>7. \A b, c \in Deliveries : Requesting(b)' /\ Requesting(c)' /\ ApptOf(b)' = ApptOf(c)' => b = c
    BY <2>1, <2>2 DEF HandoverAgrees, OneRequest
  <2>8. \A c \in Deliveries : Requesting(c)' /\ Recovering => ApptOf(c)' # recovery.appt
    BY <2>1, <2>2 DEF HandoverAgrees, OneRequest
  <2>9. QED
    BY <2>4, <2>5, <2>6, <2>7, <2>8 DEF OneRequest
<1>11. DeliveryAgrees(d)'
  <2>1. ApptOf(d)' = a
    BY <1>2, <1>7 DEF ApptOf, EventOf
  <2>2. QED
    BY <1>1, <1>3, <1>6, <1>7, <2>1 DEF DeliveryAgrees, At, StepOf, Says
<1>12. QED
  BY <1>1, <1>2, <1>7, <1>8, <1>9, <1>10, <1>11, OthersAgree DEF HandoverAgrees

\* What is deferred is owed, and was not cut since.
LEMMA HandoverAfterDefer ==
  ASSUME TypeOK, ReceiptsAgree, HandoverAgrees, TardyAgrees', NEW d \in Deliveries, Defer(d)
  PROVE  HandoverAgrees'
<1>1. /\ task[d].point = "defer" /\ ReceiptsTypeOK
      /\ UNCHANGED <<plan, appt, ledger, confirmed, answer, recovery>>
  BY DEF Defer, At, apptVars, TypeOK
<1>2. PICK a \in Appts : a = ApptOf(d)
  BY <1>1, Handles
<1>3. task[d].step = "confirm"
  BY <1>1 DEF ReceiptsAgree, Position, HandoverPoints, Tasks
<1>4. PICK p \in {"complete", "release"} :
        /\ GoTo(d, p)
        /\ \/ owed' = [owed EXCEPT ![a] = "pending"] /\ cut' = cut \ {a}
           \/ UNCHANGED <<owed, cut>> /\ p = "release"
  BY <1>2 DEF Defer
<1>5. {"complete", "release"} \subseteq Points
  BY DEF Points
<1>6. /\ task'[d].point = p /\ task'[d].event = task[d].event /\ task'[d].step = "confirm"
      /\ \A c \in Deliveries : c # d => task'[c] = task[c]
  BY <1>1, <1>3, <1>4, <1>5, GoToMoves
<1>7. /\ owed'[a] = "pending" \/ (owed'[a] = owed[a] /\ p = "release" /\ cut' = cut)
      /\ \A b \in Appts : b # a => owed'[b] = owed[b]
      /\ cut' \subseteq cut /\ cut \subseteq Appts
      /\ a \in cut' => owed' = owed
  BY <1>4 DEF TypeOK
<1>8. \A b \in Appts : IsOwed(b) => IsOwed(b)'
  BY <1>1, <1>7 DEF IsOwed, Ended
<1>9. HandoffIsOwned'
  BY <1>1, <1>8, HandoffStays DEF HandoverAgrees
<1>10. CutAgrees'
  BY <1>7 DEF HandoverAgrees, CutAgrees
<1>11. RecoveryAgrees'
  <2>1. Locked(recovery.appt) => owed'[recovery.appt] = "pending"
    BY <1>7 DEF HandoverAgrees, RecoveryAgrees, Locked
  <2>2. QED
    BY <1>1, <2>1 DEF HandoverAgrees, RecoveryAgrees, Says, RecoveryAt, Locked
<1>12. LedgerAgrees'
  BY <1>1 DEF HandoverAgrees, LedgerAgrees
<1>13. OneRequest'
  BY <1>1, <1>6 DEF HandoverAgrees, OneRequest, Requesting, Recovering, ApptOf, EventOf
<1>14. DeliveryAgrees(d)'
  <2>1. ApptOf(d)' = a
    BY <1>2, <1>6 DEF ApptOf, EventOf
  <2>2. answer[d] = "accepted" => confirmed[a] = 1
    BY <1>2 DEF HandoverAgrees, DeliveryAgrees
  <2>3. task'[d].point = "complete" => IsOwed(a)'
    BY <1>6, <1>7 DEF IsOwed
  <2>4. task'[d].point = "complete" => IsOwed(ApptOf(d))'
    BY <2>1, <2>3 DEF IsOwed, Ended
  <2>5. QED
    BY <1>1, <1>6, <2>1, <2>2, <2>4 DEF DeliveryAgrees, At, StepOf
<1>15. QED
  BY <1>1, <1>2, <1>6, <1>8, <1>9, <1>10, <1>11, <1>12, <1>13, <1>14, OthersAgree DEF HandoverAgrees

-----------------------------------------------------------------------------
(* The hand-over: the recovery worker *)

\* What a step of the recovery has to show.
LEMMA RecoveryLeaves ==
  ASSUME TypeOK, ReceiptsAgree, HandoverAgrees, TardyAgrees', RecoveryFrame,
         LedgerAgrees', OneRequest', RecoveryAgrees', CutAgrees',
         \A b \in Appts : IsOwed(b) => IsOwed(b)',
         \A b \in Appts : confirmed[b] = 1 => confirmed'[b] = 1,
         \A c \in Deliveries : Requesting(c) => confirmed'[ApptOf(c)] = confirmed[ApptOf(c)]
  PROVE  HandoverAgrees'
<1>1. UNCHANGED <<task, answer, plan, appt>>
  BY DEF RecoveryFrame, apptVars
<1>2. HandoffIsOwned'
  BY <1>1, HandoffStays DEF HandoverAgrees
<1>3. \A c \in Deliveries : DeliveryAgrees(c)'
  BY <1>1, OtherAgrees DEF HandoverAgrees, StaysPut
<1>4. QED
  BY <1>2, <1>3 DEF HandoverAgrees

\* A request of the recovery starts where none is under way and none was taken.
LEMMA HandoverAfterRecoveryStarts ==
  ASSUME TypeOK, ReceiptsAgree, HandoverAgrees, TardyAgrees', DispatchRecovered
  PROVE  HandoverAgrees'
<1>1. RecoveryFrame /\ recovery.point = "dispatch" /\ confirmed' = confirmed
  BY DEF DispatchRecovered, RecoveryAt
<1>2. UNCHANGED <<task, answer, plan, appt, cut>>
  BY <1>1 DEF RecoveryFrame, apptVars, history
<1>3. PICK a \in Appts : a = recovery.appt
  BY <1>1 DEF HandoverAgrees, RecoveryAgrees
<1>4. owed[a] = "pending"
  BY <1>1, <1>3 DEF HandoverAgrees, RecoveryAgrees, Locked
<1>5. CASE MayStart(a) /\ Start(a) /\ RecoveryGoes("send") /\ UNCHANGED owed
  <2>1. ledger'[a] = "started" /\ \A b \in Appts : b # a => ledger'[b] = ledger[b]
    BY <1>5 DEF Start, TypeOK
  <2>2. recovery'.point = "send" /\ recovery'.appt = a
    BY <1>3, <1>5 DEF RecoveryGoes, TypeOK
  <2>3. confirmed[a] = 0 /\ ledger[a] # "started"
    BY <1>5 DEF MayStart, HandoverAgrees, LedgerAgrees
  <2>4. LedgerAgrees'
    BY <1>1, <2>1 DEF HandoverAgrees, LedgerAgrees
  <2>5. \A c \in Deliveries : Requesting(c) => ApptOf(c) \in Appts /\ ApptOf(c) # a
    BY <2>3, Handles DEF Requesting, HandoverAgrees, OneRequest
  <2>6. OneRequest'
    <3>1. \A c \in Deliveries : Requesting(c)' = Requesting(c) /\ ApptOf(c)' = ApptOf(c)
      BY <1>2 DEF Requesting, ApptOf, EventOf
    <3>2. \A c \in Deliveries : Requesting(c) => ledger'[ApptOf(c)] = "started"
      BY <2>1, <2>5 DEF HandoverAgrees, OneRequest
    <3>3. QED
      BY <2>1, <2>2, <2>5, <3>1, <3>2 DEF HandoverAgrees, OneRequest, Recovering
  <2>7. RecoveryAgrees'
    BY <1>1, <1>4, <1>5, <2>2, <2>3 DEF RecoveryAgrees, RecoveryAt, Locked
  <2>8. CutAgrees' /\ \A b \in Appts : IsOwed(b) => IsOwed(b)'
    BY <1>1, <1>2, <1>5 DEF HandoverAgrees, CutAgrees, IsOwed, Ended
  <2>9. QED
    BY <1>1, <2>4, <2>6, <2>7, <2>8, RecoveryLeaves
<1>6. CASE ledger[a] = "accepted" /\ owed' = [owed EXCEPT ![a] = "none"]
           /\ recovery' = AtRest /\ UNCHANGED ledger
  <2>1. confirmed[a] = 1
    BY <1>6 DEF HandoverAgrees, LedgerAgrees
  <2>2. owed'[a] = "none" /\ \A b \in Appts : b # a => owed'[b] = owed[b]
    BY <1>6 DEF TypeOK
  <2>3. LedgerAgrees' /\ OneRequest'
    BY <1>1, <1>2, <1>6 DEF HandoverAgrees, LedgerAgrees, OneRequest, Requesting, Recovering,
                                      ApptOf, EventOf, AtRest
  <2>4. RecoveryAgrees'
    BY <1>6 DEF RecoveryAgrees, AtRest, RecoveryAt, Locked
  <2>5. CutAgrees'
    BY <1>2, <2>2 DEF HandoverAgrees, CutAgrees, TypeOK
  <2>6. \A b \in Appts : IsOwed(b) => IsOwed(b)'
    BY <1>1, <1>2, <2>1, <2>2 DEF IsOwed, Ended
  <2>7. QED
    BY <1>1, <2>3, <2>4, <2>5, <2>6, RecoveryLeaves
<1>7. CASE recovery' = [recovery EXCEPT !.point = "park", !.answer = "unknown"] /\ UNCHANGED <<owed, ledger>>
  <2>1. recovery'.point = "park" /\ recovery'.appt = a
    BY <1>3, <1>7 DEF TypeOK
  <2>2. LedgerAgrees' /\ OneRequest'
    BY <1>1, <1>2, <1>7, <2>1 DEF HandoverAgrees, LedgerAgrees, OneRequest, Requesting,
                                             Recovering, ApptOf, EventOf
  <2>3. RecoveryAgrees'
    BY <2>1 DEF RecoveryAgrees, RecoveryAt, Locked
  <2>4. CutAgrees' /\ \A b \in Appts : IsOwed(b) => IsOwed(b)'
    BY <1>1, <1>2, <1>7 DEF HandoverAgrees, CutAgrees, IsOwed, Ended
  <2>5. QED
    BY <1>1, <2>2, <2>3, <2>4, RecoveryLeaves
<1>8. QED
  BY <1>3, <1>5, <1>6, <1>7 DEF DispatchRecovered

\* So with the request of the recovery,
LEMMA HandoverAfterRecoverySends ==
  ASSUME TypeOK, ReceiptsAgree, HandoverAgrees, TardyAgrees', SendRecovered
  PROVE  HandoverAgrees'
<1>1. RecoveryFrame /\ recovery.point = "send" /\ UNCHANGED <<owed, ledger>>
  BY DEF SendRecovered, RecoveryAt
<1>2. UNCHANGED <<task, answer, plan, appt, cut>>
  BY <1>1 DEF RecoveryFrame, apptVars, history
<1>3. PICK a \in Appts : a = recovery.appt
  BY <1>1 DEF HandoverAgrees, RecoveryAgrees
<1>4. PICK reply \in Answers : Reply(a, reply)
                               /\ recovery' = [recovery EXCEPT !.point = "settle", !.answer = reply]
  BY <1>3 DEF SendRecovered
<1>5. /\ owed[a] = "pending" /\ confirmed[a] = 0 /\ ledger[a] = "started"
      /\ \A c \in Deliveries : Requesting(c) => ApptOf(c) # a
  BY <1>1, <1>3 DEF HandoverAgrees, RecoveryAgrees, Locked, RecoveryAt, OneRequest, Recovering
<1>6. /\ \A b \in Appts : b # a => confirmed'[b] = confirmed[b]
      /\ \A b \in Appts : confirmed[b] = 1 => confirmed'[b] = 1
      /\ confirmed'[a] <= 1 /\ Says(reply, a)'
  BY <1>4, <1>5, ReplyWrites
<1>7. recovery'.point = "settle" /\ recovery'.appt = a /\ recovery'.answer = reply
  BY <1>3, <1>4 DEF TypeOK
<1>8. LedgerAgrees'
  BY <1>1, <1>5, <1>6 DEF HandoverAgrees, LedgerAgrees
<1>9. OneRequest'
  BY <1>1, <1>2, <1>3, <1>7 DEF HandoverAgrees, OneRequest, Requesting, Recovering, ApptOf, EventOf
<1>10. RecoveryAgrees'
  BY <1>1, <1>5, <1>6, <1>7 DEF RecoveryAgrees, RecoveryAt, Locked, Says
<1>11. CutAgrees' /\ \A b \in Appts : IsOwed(b) => IsOwed(b)'
  BY <1>1, <1>2, <1>6 DEF HandoverAgrees, CutAgrees, IsOwed, Ended
<1>12. \A c \in Deliveries : Requesting(c) => confirmed'[ApptOf(c)] = confirmed[ApptOf(c)]
  BY <1>5, <1>6, Handles DEF Requesting
<1>13. QED
  BY <1>1, <1>6, <1>8, <1>9, <1>10, <1>11, <1>12, RecoveryLeaves

\* and with its settlement.
LEMMA HandoverAfterRecoverySettles ==
  ASSUME TypeOK, ReceiptsAgree, HandoverAgrees, TardyAgrees', SettleRecovered
  PROVE  HandoverAgrees'
<1>1. RecoveryFrame /\ recovery.point = "settle" /\ UNCHANGED <<owed, confirmed>>
  BY DEF SettleRecovered, RecoveryAt
<1>2. UNCHANGED <<task, answer, plan, appt, cut>>
  BY <1>1 DEF RecoveryFrame, apptVars, history
<1>3. PICK a \in Appts : a = recovery.appt
  BY <1>1 DEF HandoverAgrees, RecoveryAgrees
<1>4. /\ owed[a] = "pending" /\ Says(recovery.answer, a)
      /\ \A c \in Deliveries : Requesting(c) => ApptOf(c) # a
  BY <1>1, <1>3 DEF HandoverAgrees, RecoveryAgrees, Locked, RecoveryAt, OneRequest, Recovering
<1>5. /\ \A b \in Appts : b # a => ledger'[b] = ledger[b]
      /\ \/ ledger'[a] = ledger[a]
         \/ recovery.answer = "accepted" /\ ledger'[a] = "accepted"
         \/ recovery.answer \in {"held", "rejected"} /\ ledger'[a] = "refused"
  BY <1>3, SettleWrites DEF SettleRecovered
<1>6. recovery'.point = "retire" /\ recovery'.appt = a /\ recovery'.answer = recovery.answer
  BY <1>3 DEF SettleRecovered, RecoveryGoes, TypeOK
<1>7. LedgerAgrees'
  BY <1>1, <1>4, <1>5 DEF HandoverAgrees, LedgerAgrees, Says
<1>8. OneRequest'
  <2>1. \A c \in Deliveries : Requesting(c)' = Requesting(c) /\ ApptOf(c)' = ApptOf(c)
    BY <1>2 DEF Requesting, ApptOf, EventOf
  <2>2. \A c \in Deliveries : Requesting(c) => ledger'[ApptOf(c)] = "started"
    BY <1>4, <1>5, Handles DEF HandoverAgrees, OneRequest, Requesting
  <2>3. QED
    BY <1>6, <2>1, <2>2 DEF HandoverAgrees, OneRequest, Recovering
<1>9. RecoveryAgrees'
  BY <1>1, <1>4, <1>6 DEF RecoveryAgrees, RecoveryAt, Locked, Says
<1>10. CutAgrees' /\ \A b \in Appts : IsOwed(b) => IsOwed(b)'
  BY <1>1, <1>2 DEF HandoverAgrees, CutAgrees, IsOwed, Ended
<1>11. QED
  BY <1>1, <1>7, <1>8, <1>9, <1>10, RecoveryLeaves

\* The recovery claims, locks, retires or parks what is owed, or dies.
LEMMA HandoverAfterRecovery ==
  ASSUME TypeOK, ReceiptsAgree, HandoverAgrees, TardyAgrees',
         (\E a \in Appts : Recover(a)) \/ Lock \/ Retire \/ Park \/ RecoveryDies
  PROVE  HandoverAgrees'
<1>1. RecoveryFrame /\ UNCHANGED <<ledger, confirmed>>
  BY DEF Recover, Lock, Retire, Park, RecoveryDies
<1>2. UNCHANGED <<task, answer, plan, appt, cut>>
  BY <1>1 DEF RecoveryFrame, apptVars, history
<1>3. \/ owed' = owed
      \/ \E a \in Appts, end \in {"none", "failed", "denied"} :
           /\ recovery.point \in {"retire", "park"} /\ recovery.appt = a
           /\ owed' = [owed EXCEPT ![a] = end] /\ (end = "none" => confirmed[a] = 1 \/ owed[a] = "none")
           /\ recovery'.point \in {"idle", "park"} /\ (recovery' = AtRest \/ recovery'.appt = a)
  <2>1. CASE (\E a \in Appts : Recover(a)) \/ Lock \/ RecoveryDies
    BY <2>1 DEF Recover, Lock, RecoveryDies
  <2>2. CASE Retire
    <3>1. recovery.point = "retire" /\ recovery.appt \in Appts
      BY <2>2 DEF Retire, RecoveryAt, HandoverAgrees, RecoveryAgrees
    <3>2. recovery.answer = "accepted" => confirmed[recovery.appt] = 1
      BY <3>1 DEF HandoverAgrees, RecoveryAgrees, RecoveryAt
    <3>3. recovery'.point \in {"idle", "park"} /\ (recovery' = AtRest \/ recovery'.appt = recovery.appt)
      BY <2>2 DEF Retire, RecoveryGoes, AtRest, TypeOK
    <3>4. QED
      BY <2>2, <3>1, <3>2, <3>3 DEF Retire
  <2>3. CASE Park
    <3>1. recovery.point = "park" /\ recovery.appt \in Appts /\ recovery' = AtRest
      BY <2>3 DEF Park, RecoveryAt, HandoverAgrees, RecoveryAgrees
    <3>2. PICK end \in {"failed", "denied"} :
            owed' = [owed EXCEPT ![recovery.appt] = IF @ = "none" THEN @ ELSE end]
      BY <2>3 DEF Park
    <3>3. CASE owed[recovery.appt] = "none"
      <4>1. owed' = [owed EXCEPT ![recovery.appt] = "none"]
        BY <3>2, <3>3
      <4>2. QED
        BY <3>1, <3>3, <4>1 DEF AtRest
    <3>4. CASE owed[recovery.appt] # "none"
      <4>1. owed' = [owed EXCEPT ![recovery.appt] = end]
        BY <3>2, <3>4
      <4>2. QED
        BY <3>1, <3>2, <4>1 DEF AtRest
    <3>5. QED
      BY <3>3, <3>4
  <2>4. QED
    BY <2>1, <2>2, <2>3
<1>4. recovery'.point \notin {"send", "settle", "retire"}
  BY DEF Recover, Lock, Retire, Park, RecoveryDies, RecoveryGoes, AtRest, TypeOK, Working
<1>5. LedgerAgrees' /\ OneRequest'
  BY <1>1, <1>2, <1>4 DEF HandoverAgrees, LedgerAgrees, OneRequest, Requesting,
                                             Recovering, ApptOf, EventOf
<1>6. \A b \in Appts : IsOwed(b) => IsOwed(b)'
  <2>1. CASE owed' = owed
    BY <1>1, <1>2, <2>1 DEF IsOwed, Ended
  <2>2. CASE owed' # owed
    BY <1>1, <1>2, <1>3, <2>2 DEF IsOwed, Ended, TypeOK
  <2>3. QED
    BY <2>1, <2>2
<1>7. CutAgrees'
  BY <1>2, <1>3 DEF HandoverAgrees, CutAgrees, TypeOK
<1>8. RecoveryAgrees'
  <2>1. recovery'.point # "idle" => recovery'.appt \in Appts
    BY DEF Recover, Lock, Retire, Park, RecoveryDies, RecoveryGoes, AtRest, TypeOK,
           HandoverAgrees, RecoveryAgrees, RecoveryAt
  <2>2. recovery'.point = "dispatch" => owed'[recovery'.appt] = "pending"
    BY DEF Recover, Lock, Retire, Park, RecoveryDies, RecoveryGoes, RecoveryAt, AtRest, TypeOK
  <2>3. QED
    BY <1>4, <2>1, <2>2 DEF RecoveryAgrees, RecoveryAt, Locked
<1>9. QED
  BY <1>1, <1>5, <1>6, <1>7, <1>8, RecoveryLeaves

\* Every step preserves what the ledger says of the hand-overs.
LEMMA HandoverHolds ==
  ASSUME TypeOK, ReceiptsAgree, HandoverAgrees, [Next]_vars
  PROVE  HandoverAgrees'
<1>1. TardyAgrees'
  BY TardyHolds DEF HandoverAgrees
<1>2. ASSUME NEW d \in Deliveries, DeliveryStep(d)
      PROVE  HandoverAgrees'
  <2>1. CASE \/ Transition(d) \/ StepClaim(d) \/ Call(d) \/ Recheck(d)
             \/ (CheckClaim(d) \/ End(d) \/ Refuse(d)) /\ ReceiptFrame
    BY <1>1, <2>1, HandoverQuiet
  <2>2. CASE LocalStep(d) \/ StepDone(d) \/ Dispatch(d) \/ Send(d) \/ SettleSent(d) \/ Defer(d)
             \/ (ReleaseRow(d) /\ Forget(d))
    BY <1>1, <2>2, HandoverAfterLocalStep, HandoverAfterDone, HandoverAfterDispatch, HandoverAfterSend,
       HandoverAfterSettle, HandoverAfterDefer, HandoverAfterForget
  <2>3. QED
    BY <1>2, <2>1, <2>2, Zenon DEF DeliveryStep
<1>3. ASSUME NEW d \in Deliveries, Die(d), Forget(d)
      PROVE  HandoverAgrees'
  BY <1>1, <1>3, HandoverAfterForget
<1>4. ASSUME NEW d \in Deliveries, Renew(d) /\ ReceiptFrame
      PROVE  HandoverAgrees'
  BY <1>1, <1>4, HandoverQuiet
<1>5. ASSUME NEW d \in Deliveries, NEW e \in Events, NEW c \in Contents, Deliver(d, e, c)
      PROVE  HandoverAgrees'
  BY <1>1, <1>5, HandoverQuiet
<1>6. CASE \/ UNCHANGED vars
           \/ \E m \in sent : AckDuplicate(m[1], m[2]) /\ ReceiptFrame
           \/ \E e \in Events : LapseReceipt(e) /\ ReceiptFrame
           \/ \E e \in Events, s \in CallSteps : LapseRow(e, s) /\ ReceiptFrame
  BY <1>1, <1>6, HandoverQuiet
<1>7. CASE (\E a \in Appts : Recover(a)) \/ RecoveryStep \/ RecoveryDies
  BY <1>1, <1>7, HandoverAfterRecovery, HandoverAfterRecoveryStarts, HandoverAfterRecoverySends,
     HandoverAfterRecoverySettles DEF RecoveryStep
<1>8. QED
  BY <1>2, <1>3, <1>4, <1>5, <1>6, <1>7, Zenon DEF Next

-----------------------------------------------------------------------------
(* The pointer *)

\* Steps that complete no local step, record nothing and leave the lead.
PointerFrame ==
  /\ UNCHANGED <<appt, lead>>
  /\ \A e \in Events : plan'[e].verdict = plan[e].verdict
  /\ \A e \in Events : Ran(e, "local")' <=> Ran(e, "local")

\* They preserve what the pointer is compared with.
LEMMA PointerStays ==
  ASSUME TypeOK, PointerAgrees, PointerFrame
  PROVE  PointerAgrees'
<1>1. /\ appt' = appt /\ lead' = lead /\ \A e \in Events : Pending(e)' <=> Pending(e)
      /\ \A e \in Events : plan'[e].verdict = plan[e].verdict
  BY DEF PointerFrame, Pending
<1>2. \A e \in Events : Superseded(e)' <=> Superseded(e)
  BY <1>1 DEF Superseded, Ended
<1>3. Lagging' = Lagging
  BY <1>1, <1>2 DEF Lagging
<1>4. Open' = Open /\ \A a, b \in Appts : Before(a, b)' <=> Before(a, b)
  BY <1>1 DEF Open, Ended, Before
<1>5. ApptsAgree'
  BY <1>1 DEF PointerAgrees, ApptsAgree
<1>6. LeadPoints'
  BY <1>1, <1>3, <1>4 DEF PointerAgrees, LeadPoints, Open
<1>7. BookedIsMet'
  BY <1>1, <1>4 DEF PointerAgrees, BookedIsMet
<1>8. QED
  BY <1>5, <1>6, <1>7 DEF PointerAgrees

\* The steps of the receipts that call out leave the local steps as they are.
LEMMA LocalsStay ==
  ASSUME TypeOK, ReceiptsAgree,
         \/ UNCHANGED row
         \/ \E d \in Deliveries : StepClaim(d) \/ StepDone(d) \/ ReleaseRow(d) \/ Die(d)
         \/ \E e \in Events, s \in CallSteps : LapseRow(e, s)
  PROVE  \A f \in Events : Ran(f, "local")' <=> Ran(f, "local")
<1>0. /\ ReceiptsTypeOK /\ "local" \in Steps /\ "local" \notin CallSteps /\ CallSteps \subseteq Steps
      /\ {"dispatch", "call", "recheck", "end"} \subseteq Points
      /\ {"claim", "complete", "release"} \subseteq CallPoints
  BY DEF TypeOK, Steps, TxSteps, CallSteps, Points, CallPoints
<1>1. ASSUME NEW e, NEW s \in CallSteps, NEW r, Written(e, s, r)
      PROVE  \A f \in Events : Ran(f, "local")' <=> Ran(f, "local")
  BY <1>0, <1>1 DEF Written, Ran
<1>2. ASSUME NEW d \in Deliveries, task[d].point \in {"claim", "complete", "release"},
             UNCHANGED row \/ \E r : Written(EventOf(d), StepOf(d), r)
      PROVE  \A f \in Events : Ran(f, "local")' <=> Ran(f, "local")
  <2>1. task[d].point # "idle" /\ task[d].point \in CallPoints
    BY <1>0, <1>2
  <2>2. StepOf(d) \in CallSteps
    BY <2>1, AtWork
  <2>3. CASE UNCHANGED row
    BY <2>3 DEF Ran
  <2>4. QED
    BY <1>1, <1>2, <2>2, <2>3
<1>3. ASSUME NEW d \in Deliveries, StepClaim(d)
      PROVE  \A f \in Events : Ran(f, "local")' <=> Ran(f, "local")
  <2>1. PICK first, next \in Points : ClaimRow(d, first, next)
    BY <1>0, <1>3 DEF StepClaim
  <2>2. UNCHANGED row \/ \E r : Written(EventOf(d), StepOf(d), r)
    BY <2>1, ClaimRowTyped
  <2>3. task[d].point = "claim"
    BY <2>1 DEF ClaimRow, At
  <2>4. QED
    BY <1>2, <2>2, <2>3
<1>4. ASSUME NEW d \in Deliveries, StepDone(d)
      PROVE  \A f \in Events : Ran(f, "local")' <=> Ran(f, "local")
  <2>1. PICK next \in Points : CompleteRow(d, next)
    BY <1>0, <1>4 DEF StepDone
  <2>2. UNCHANGED row \/ \E r : Written(EventOf(d), StepOf(d), r)
    BY <2>1, CompleteRowTyped
  <2>3. task[d].point = "complete"
    BY <2>1 DEF CompleteRow, At
  <2>4. QED
    BY <1>2, <2>2, <2>3
<1>5. ASSUME NEW d \in Deliveries, ReleaseRow(d)
      PROVE  \A f \in Events : Ran(f, "local")' <=> Ran(f, "local")
  <2>1. UNCHANGED row \/ \E r : Written(EventOf(d), StepOf(d), r)
    BY <1>5, ReleaseRowTyped
  <2>2. task[d].point = "release"
    BY <1>5 DEF ReleaseRow, At
  <2>3. QED
    BY <1>2, <2>1, <2>2
<1>6. ASSUME NEW d \in Deliveries, Die(d)
      PROVE  \A f \in Events : Ran(f, "local")' <=> Ran(f, "local")
  BY <1>0, <1>6, DieTyped DEF Ran
<1>7. ASSUME NEW e \in Events, NEW s \in CallSteps, LapseRow(e, s)
      PROVE  \A f \in Events : Ran(f, "local")' <=> Ran(f, "local")
  BY <1>0, <1>1, <1>7, LapseRowTyped
<1>8. CASE UNCHANGED row
  BY <1>8 DEF Ran
<1>9. QED
  BY <1>3, <1>4, <1>5, <1>6, <1>7, <1>8

\* An event that applies is recorded, and what ended it is its kind.
LEMMA RecordedIsLast ==
  ASSUME TypeOK, NEW e \in Events, Applies(e)
  PROVE  /\ Recorded(e).status # "none"
         /\ Recorded(e).status \in TERMINAL_STATUSES => Recorded(e).status = e.kind
         /\ Recorded(e).booked => appt[e.appt].booked \/ e.kind = "booked"
<1>1. e.kind \in Kinds /\ e.appt \in Appts
  BY EventsAreTyped
<1>2. appt[e.appt].status = "none" \/ appt[e.appt].status \notin TERMINAL_STATUSES
  BY DEF Applies, Ended
<1>3. appt[e.appt] \in [status : Kinds \cup {"none"}, last : Nat,
                        start : Nat \cup {None}, booked : BOOLEAN]
  BY <1>1 DEF TypeOK
<1>4. CASE appt[e.appt].status # "none" /\ e.kind = "booked"
  <2>1. Recorded(e).status \in {"booked", appt[e.appt].status}
    BY <1>3, <1>4 DEF Recorded
  <2>2. QED
    BY <1>2, <1>4, <2>1 DEF TERMINAL_STATUSES
<1>5. CASE ~(appt[e.appt].status # "none" /\ e.kind = "booked")
  <2>1. Recorded(e).status = e.kind /\ Recorded(e).booked = (appt[e.appt].booked \/ e.kind = "booked")
    BY <1>5 DEF Recorded
  <2>2. QED
    BY <1>1, <2>1 DEF Kinds, TERMINAL_STATUSES
<1>6. QED
  BY <1>4, <1>5

\* An appointment that an event moves lags until the local step of the event.
LEMMA PointerAfterTransition ==
  ASSUME TypeOK, ReceiptsAgree, PointerAgrees, NEW d \in Deliveries, Transition(d)
  PROVE  PointerAgrees'
<1>1. task[d].point # "idle" /\ lead' = lead
  BY DEF Transition, At
<1>2. PICK e \in Events : e = EventOf(d)
  BY <1>1, AtWork
<1>3. e.appt \in Appts /\ e.kind \in Kinds
  BY EventsAreTyped
<1>4. "transition" \in Steps /\ "local" \in Steps /\ None \in Steps \cup {None}
      /\ {"local", "end"} \subseteq Points
  BY DEF Steps, TxSteps, Points
<1>5. CASE UNCHANGED <<row, appt, plan>>
  BY <1>1, <1>5, PointerStays DEF PointerFrame, Ran
<1>6. CASE /\ TxCommit(d, "transition", IF Applies(e) THEN "local" ELSE "end", None)
           /\ plan' = [plan EXCEPT ![e].verdict = IF Applies(e) THEN "apply" ELSE "ignore"]
           /\ appt' = IF Applies(e) THEN [appt EXCEPT ![e.appt] = Recorded(e)] ELSE appt
  <2>1. ~Ran(e, "transition") /\ plan[e].verdict = "none" /\ ~Ran(e, "local")
    BY <1>2, <1>6 DEF TxCommit, Ran, ReceiptsAgree, PlansAgree
  <2>2. \A f \in Events : Ran(f, "local")' <=> Ran(f, "local")
    <3> DEFINE p == IF Applies(e) THEN "local" ELSE "end"
    <3>1. p \in Points /\ TxCommit(d, "transition", p, None)
      BY <1>4, <1>6
    <3> HIDE DEF p
    <3>2. Written(EventOf(d), "transition", [state |-> "done", holder |-> None, live |-> FALSE,
                                             of |-> task[d].content])
      BY <1>1, <1>4, <3>1, TxTyped
    <3>3. QED
      BY <1>4, <3>2 DEF Written, Ran
  <2>3. \A f \in Events : f # e => plan'[f].verdict = plan[f].verdict
    BY <1>6 DEF TypeOK
  <2>4. \A f \in Events : f # e => (Pending(f)' <=> Pending(f))
    BY <2>2, <2>3 DEF Pending
  <2>5. CASE ~Applies(e)
    <3>1. plan'[e].verdict = "ignore" /\ appt' = appt
      BY <1>6, <2>5 DEF TypeOK
    <3>2. \A f \in Events : Pending(f)' <=> Pending(f)
      BY <2>1, <2>4, <3>1 DEF Pending
    <3>3. Lagging' = Lagging /\ Open' = Open /\ \A a, b \in Appts : Before(a, b)' <=> Before(a, b)
      BY <3>1, <3>2 DEF Lagging, Open, Superseded, Ended, Before
    <3>4. ApptsAgree'
      BY <2>3, <3>1 DEF PointerAgrees, ApptsAgree
    <3>5. LeadPoints'
      BY <1>1, <3>3 DEF PointerAgrees, LeadPoints, Open
    <3>6. BookedIsMet'
      BY <1>1, <3>1, <3>2, <3>3 DEF PointerAgrees, BookedIsMet
    <3>7. QED
      BY <3>4, <3>5, <3>6 DEF PointerAgrees
  <2>6. CASE Applies(e)
    <3>1. PICK a \in Appts : a = e.appt
      BY <1>3
    <3>2. /\ plan'[e].verdict = "apply" /\ appt'[a] = Recorded(e)
          /\ \A b \in Appts : b # a => appt'[b] = appt[b]
      BY <1>6, <2>6, <3>1 DEF TypeOK
    <3>3. /\ appt'[a].status # "none"
          /\ appt'[a].status \in TERMINAL_STATUSES => appt'[a].status = e.kind
          /\ appt'[a].booked => appt[a].booked \/ e.kind = "booked"
      BY <2>6, <3>1, <3>2, RecordedIsLast
    <3>4. Pending(e)'
      BY <2>1, <2>2, <3>2 DEF Pending
    <3>5. a \in Lagging'
      <4>1. ~Superseded(e)'
        BY <3>1, <3>3 DEF Superseded, Ended
      <4>2. QED
        BY <3>1, <3>4, <4>1 DEF Lagging
    <3>6. \A b \in Appts : b # a => (Ended(b)' <=> Ended(b)) /\ (b \in Open' <=> b \in Open)
      BY <3>2 DEF Ended, Open
    <3>7. \A b, c \in Appts : b # a /\ c # a => (Before(b, c)' <=> Before(b, c))
      BY <3>2 DEF Before
    <3>8. \A b \in Appts : b # a => (b \in Lagging' <=> b \in Lagging)
      <4>1. \A f \in Events : f.appt # a => (Superseded(f)' <=> Superseded(f))
        BY <3>2, EventsAreTyped DEF Superseded, Ended
      <4>2. QED
        BY <2>4, <3>1, <4>1 DEF Lagging
    <3>9. ApptsAgree'
      <4>1. \A b \in Appts : appt'[b].status = "none" => ~appt'[b].booked
        BY <3>2, <3>3 DEF PointerAgrees, ApptsAgree
      <4>2. \A f \in Events : plan'[f].verdict = "apply" => appt'[f.appt].status # "none"
        BY <2>3, <3>1, <3>2, <3>3, EventsAreTyped DEF PointerAgrees, ApptsAgree
      <4>3. QED
        BY <4>1, <4>2 DEF ApptsAgree
    <3>10. LeadPoints'
      <4>1. ASSUME lead.stage = "MEETING_SET", lead.meeting \notin Lagging'
            PROVE  lead.meeting \in Open' /\ \A b \in Open' \ Lagging' : Before(lead.meeting, b)'
        <5>1. PICK m : m = lead.meeting
          OBVIOUS
        <5>2. m # a /\ m \notin Lagging
          BY <3>5, <3>8, <4>1, <5>1 DEF Lagging
        <5>3. m \in Open /\ \A b \in Open \ Lagging : Before(m, b)
          BY <4>1, <5>1, <5>2 DEF PointerAgrees, LeadPoints
        <5>4. m \in Appts /\ m \in Open'
          BY <3>6, <5>2, <5>3 DEF Open
        <5>5. \A b \in Open' \ Lagging' : b \in Appts /\ b # a /\ b \in Open /\ b \notin Lagging
          BY <3>5, <3>6, <3>8 DEF Open
        <5>6. \A b \in Open' \ Lagging' : Before(m, b)'
          BY <3>7, <5>2, <5>3, <5>4, <5>5
        <5>7. QED
          BY <1>1, <5>1, <5>4, <5>6 DEF Before
      <4>2. QED
        BY <1>1, <4>1 DEF LeadPoints
    <3>11. BookedIsMet'
      <4>1. ASSUME NEW b \in Open', appt'[b].booked, lead.stage # "MEETING_SET"
            PROVE  \E f \in Events : f.appt = b /\ f.kind = "booked" /\ Pending(f)'
        <5>1. b \in Appts
          BY DEF Open
        <5>2. CASE b # a
          <6>1. PICK f \in Events : f.appt = b /\ f.kind = "booked" /\ Pending(f)
            BY <3>2, <3>6, <4>1, <5>1, <5>2 DEF PointerAgrees, BookedIsMet
          <6>2. QED
            BY <2>1, <2>4, <6>1 DEF Pending
        <5>3. CASE b = a /\ e.kind = "booked"
          BY <3>1, <3>4, <5>3
        <5>4. CASE b = a /\ e.kind # "booked"
          <6>1. appt[a].booked
            BY <3>3, <4>1, <5>4
          <6>2. a \in Open
            BY <2>6, <3>1, <6>1 DEF PointerAgrees, ApptsAgree, Applies, Open
          <6>3. PICK f \in Events : f.appt = a /\ f.kind = "booked" /\ Pending(f)
            BY <4>1, <6>1, <6>2 DEF PointerAgrees, BookedIsMet
          <6>4. QED
            BY <2>1, <2>4, <5>4, <6>3 DEF Pending
        <5>5. QED
          BY <5>2, <5>3, <5>4
      <4>2. QED
        BY <1>1, <4>1 DEF BookedIsMet
    <3>12. QED
      BY <3>9, <3>10, <3>11 DEF PointerAgrees
  <2>7. QED
    BY <2>5, <2>6
<1>7. QED
  BY <1>2, <1>5, <1>6, Zenon DEF Transition, TxFails, TxReplay, vars

\* What the local step of an event leaves as the lead.
LEMMA LocalLeads ==
  ASSUME TypeOK, NEW e \in Events, NEW l, l = Local(e).lead
  PROVE  \/ l = lead /\ Superseded(e) /\ (e.kind = "booked" \/ e.kind \in TERMINAL_STATUSES)
         \/ ~Superseded(e) /\ e.kind = "booked" /\ l = [stage |-> "MEETING_SET", meeting |-> Current]
         \/ /\ ~Superseded(e) /\ e.kind \in TERMINAL_STATUSES
            /\ \/ l = lead /\ HasLead /\ ~Matches(e.appt)
               \/ Current # None /\ l = Moved(Current)
               \/ Current = None /\ l.stage # "MEETING_SET"
         \/ /\ e.kind \in {"updated", "rescheduled"}
            /\ l = IF lead.stage = "MEETING_SET" /\ Current # None THEN Moved(Current) ELSE lead
<1>1. e.kind \in Kinds
  BY EventsAreTyped
<1>2. \A m, o : Effect(m, o).lead = m
  BY DEF Effect
<1>3. CASE Superseded(e) /\ e.kind \in TERMINAL_STATUSES \cup {"booked"}
  BY <1>2, <1>3 DEF Local
<1>4. CASE e.kind = "booked" /\ ~Superseded(e)
  <2>1. Local(e) = Booked(e)
    BY <1>4 DEF Local
  <2>2. QED
    BY <1>2, <1>4, <2>1 DEF Booked
<1>5. CASE e.kind = "showed" /\ ~Superseded(e)
  <2>1. Local(e) = Showed(e)
    BY <1>5 DEF Local, TERMINAL_STATUSES
  <2>2. \/ l = lead /\ HasLead /\ ~Matches(e.appt)
        \/ Current # None /\ l = Moved(Current)
        \/ Current = None /\ l = [stage |-> "STATEMENT_REQUESTED", meeting |-> e.appt]
    BY <1>2, <2>1 DEF Showed
  <2>3. QED
    BY <1>5, <2>2 DEF TERMINAL_STATUSES
<1>6. CASE e.kind \in {"canceled", "no_show"} /\ ~Superseded(e)
  <2>1. Local(e) = EndedOne(e)
    BY <1>6 DEF Local, TERMINAL_STATUSES
  <2>2. \/ l = lead /\ HasLead /\ ~Matches(e.appt)
        \/ Current # None /\ l = Moved(Current)
        \/ Current = None /\ l = [stage |-> "ENGAGED", meeting |-> None]
        \/ Current = None /\ l = lead /\ lead.stage # "MEETING_SET"
    BY <1>2, <2>1 DEF EndedOne
  <2>3. QED
    BY <1>6, <2>2 DEF TERMINAL_STATUSES
<1>7. CASE e.kind \in {"updated", "rescheduled"}
  <2>1. Local(e) = TimeChange(e)
    BY <1>7 DEF Local, TERMINAL_STATUSES
  <2>2. QED
    BY <1>2, <1>7, <2>1 DEF TimeChange
<1>8. QED
  BY <1>1, <1>3, <1>4, <1>5, <1>6, <1>7 DEF Kinds, TERMINAL_STATUSES

\* A local step leaves the pointer at the first open appointment, or leaves it
\* where it was because its own appointment is none that the pointer is at.
LEMMA PointerAfterLocalStep ==
  ASSUME TypeOK, ReceiptsAgree, PointerAgrees, NEW d \in Deliveries, LocalStep(d)
  PROVE  PointerAgrees'
<1>1. task[d].point # "idle" /\ At(d, "local") /\ appt' = appt
  BY DEF LocalStep, At
<1>2. PICK e \in Events : e = EventOf(d)
  BY <1>1, AtWork
<1>3. e.appt \in Appts /\ e.kind \in Kinds /\ plan[e].verdict = "apply"
  BY <1>1, <1>2, AtWork, EventsAreTyped
<1>4. "local" \in Steps /\ {"check", "end"} \subseteq Points
  BY DEF Steps, TxSteps, Points
<1>5. CASE UNCHANGED <<row, lead, plan>>
  BY <1>1, <1>5, PointerStays DEF PointerFrame, Ran
<1>6. ASSUME NEW o, TxCommit(d, "local", After(e, o), FirstCall(e, o)),
             plan' = [plan EXCEPT ![e].outcome = o], lead' = Local(e).lead
      PROVE  PointerAgrees'
  <2>1. ~Ran(e, "local")
    BY <1>2, <1>6 DEF TxCommit, Ran
  <2>2. Ran(e, "local")' /\ \A f \in Events : f # e => (Ran(f, "local")' <=> Ran(f, "local"))
    <3>1. After(e, o) \in Points /\ FirstCall(e, o) \in Steps \cup {None}
      BY <1>4, FirstCallIsStep DEF After, Steps, CallSteps
    <3>2. Written(EventOf(d), "local", [state |-> "done", holder |-> None, live |-> FALSE,
                                        of |-> task[d].content])
      BY <1>1, <1>4, <1>6, <3>1, TxTyped
    <3>3. QED
      BY <1>2, <1>4, <3>2 DEF Written, Ran
  <2>3. \A f \in Events : plan'[f].verdict = plan[f].verdict
    BY <1>6 DEF TypeOK
  <2>4. Pending(e) /\ ~Pending(e)' /\ \A f \in Events : f # e => (Pending(f)' <=> Pending(f))
    BY <1>3, <2>1, <2>2, <2>3 DEF Pending
  <2>5. PICK a \in Appts : a = e.appt
    BY <1>3
  <2>6. \A f \in Events : Superseded(f)' <=> Superseded(f)
    BY <1>1 DEF Superseded, Ended
  <2>7. /\ Lagging' \subseteq Lagging /\ Lagging \ {a} \subseteq Lagging'
        /\ Superseded(e) => Lagging' = Lagging
    BY <2>4, <2>5, <2>6 DEF Lagging
  <2>8. Open' = Open /\ \A b, c \in Appts : Before(b, c)' <=> Before(b, c)
    BY <1>1 DEF Open, Ended, Before
  <2>9. ApptsTyped
    BY DEF TypeOK, ApptsTyped
  <2>10. /\ Open # {} => Current \in Open /\ \A b \in Open : Before(Current, b)
         /\ Open = {} <=> Current = None
    BY <2>9, CurrentIsFirst
  <2>11. ApptsAgree'
    BY <1>1, <2>3 DEF PointerAgrees, ApptsAgree
  <2>12. /\ appt[a].status # "none" /\ (a \notin Open <=> Ended(a))
         /\ e.kind \in TERMINAL_STATUSES => a \notin Open
    BY <1>3, <2>5 DEF PointerAgrees, ApptsAgree, Open, Ended, ReceiptsAgree, PlansAgree
  <2>13. PICK l : l = lead'
    OBVIOUS
  <2>14. ASSUME l.stage = "MEETING_SET" =>
                  \/ l.meeting \in Lagging'
                  \/ l.meeting \in Open /\ \A b \in Open \ Lagging' : Before(l.meeting, b)
         PROVE  LeadPoints'
    BY <2>8, <2>13, <2>14 DEF LeadPoints, Open
  <2>15. ASSUME l.stage = "MEETING_SET" \/ Open = {}
         PROVE  BookedIsMet'
    BY <2>8, <2>13, <2>15 DEF BookedIsMet
  <2>16. ASSUME l.stage = lead.stage, e.kind # "booked" \/ Ended(a)
         PROVE  BookedIsMet'
    <3>1. ASSUME NEW b \in Open, appt[b].booked, lead.stage # "MEETING_SET"
          PROVE  \E f \in Events : f.appt = b /\ f.kind = "booked" /\ Pending(f)'
      <4>1. PICK f \in Events : f.appt = b /\ f.kind = "booked" /\ Pending(f)
        BY <3>1 DEF PointerAgrees, BookedIsMet
      <4>2. f # e
        BY <2>5, <2>16, <3>1, <4>1 DEF Open
      <4>3. QED
        BY <2>4, <4>1, <4>2
    <3>2. QED
      BY <1>1, <2>8, <2>13, <2>16, <3>1 DEF BookedIsMet
  <2>17. CASE l = lead /\ Superseded(e)
    <3>1. Ended(a) /\ Lagging' = Lagging
      BY <2>5, <2>7, <2>17 DEF Superseded
    <3>2. LeadPoints'
      BY <2>14, <2>17, <3>1 DEF PointerAgrees, LeadPoints
    <3>3. QED
      BY <2>11, <2>16, <2>17, <3>1, <3>2 DEF PointerAgrees
  <2>18. CASE ~Superseded(e) /\ e.kind = "booked" /\ l = [stage |-> "MEETING_SET", meeting |-> Current]
    <3>1. a \in Open
      BY <2>5, <2>12, <2>18 DEF Superseded, Ended, TERMINAL_STATUSES
    <3> HIDE DEF Current
    <3>2. LeadPoints' /\ BookedIsMet'
      BY <2>10, <2>14, <2>15, <2>18, <3>1
    <3>3. QED
      BY <2>11, <3>2 DEF PointerAgrees
  <2>19. CASE Current # None /\ l = Moved(Current) /\ e.kind # "booked"
    <3> HIDE DEF Current
    <3>1. l.stage = lead.stage /\ (l.stage = "MEETING_SET" => l.meeting = Current)
      BY <2>19 DEF Moved, HasLead, TypeOK
    <3>2. LeadPoints' /\ BookedIsMet'
      BY <2>10, <2>14, <2>16, <2>19, <3>1
    <3>3. QED
      BY <2>11, <3>2 DEF PointerAgrees
  <2>20. CASE l = lead /\ HasLead /\ ~Matches(e.appt) /\ e.kind \in TERMINAL_STATUSES
    <3>1. lead.meeting # a /\ a \notin Open
      BY <2>5, <2>12, <2>20 DEF Matches
    <3>2. LeadPoints'
      BY <2>7, <2>14, <2>20, <3>1 DEF PointerAgrees, LeadPoints
    <3>3. BookedIsMet'
      BY <2>16, <2>20 DEF TERMINAL_STATUSES
    <3>4. QED
      BY <2>11, <3>2, <3>3 DEF PointerAgrees
  <2>21. CASE Current = None /\ l.stage # "MEETING_SET"
    <3> HIDE DEF Current
    <3>1. LeadPoints' /\ BookedIsMet'
      BY <2>10, <2>14, <2>15, <2>21
    <3>2. QED
      BY <2>11, <3>1 DEF PointerAgrees
  <2>22. CASE l = lead /\ e.kind \in {"updated", "rescheduled"}
              /\ ~(lead.stage = "MEETING_SET" /\ Current # None)
    <3> HIDE DEF Current
    <3>1. BookedIsMet'
      BY <2>16, <2>22
    <3>2. LeadPoints'
      <4>1. CASE lead.stage # "MEETING_SET"
        BY <2>14, <2>22, <4>1
      <4>2. CASE Current = None
        <5>1. Open = {} /\ Ended(a)
          BY <2>10, <2>12, <4>2
        <5>2. Superseded(e)
          BY <2>5, <2>22, <5>1 DEF Superseded, Ended, TERMINAL_STATUSES
        <5>3. QED
          BY <2>7, <2>14, <2>22, <5>2 DEF PointerAgrees, LeadPoints
      <4>3. QED
        BY <2>22, <4>1, <4>2
    <3>3. QED
      BY <2>11, <3>1, <3>2 DEF PointerAgrees
  <2>23. \/ l = lead /\ Superseded(e)
         \/ ~Superseded(e) /\ e.kind = "booked" /\ l = [stage |-> "MEETING_SET", meeting |-> Current]
         \/ Current # None /\ l = Moved(Current) /\ e.kind # "booked"
         \/ l = lead /\ HasLead /\ ~Matches(e.appt) /\ e.kind \in TERMINAL_STATUSES
         \/ Current = None /\ l.stage # "MEETING_SET"
         \/ l = lead /\ e.kind \in {"updated", "rescheduled"}
            /\ ~(lead.stage = "MEETING_SET" /\ Current # None)
    <3> HIDE DEF Current, Moved, Matches, HasLead
    <3>1. l = Local(e).lead
      BY <1>6, <2>13
    <3>2. QED
      BY <3>1, LocalLeads DEF TERMINAL_STATUSES
  <2>24. QED
    BY <2>17, <2>18, <2>19, <2>20, <2>21, <2>22, <2>23
<1>7. \/ UNCHANGED <<row, lead, plan>>
      \/ /\ TxCommit(d, "local", After(e, Local(e).outcome), FirstCall(e, Local(e).outcome))
         /\ plan' = [plan EXCEPT ![e].outcome = Local(e).outcome] /\ lead' = Local(e).lead
  BY <1>2, Zenon DEF LocalStep, TxFails, TxReplay
<1>8. QED
  BY <1>5, <1>6, <1>7

\* Every other step leaves the pointer and what it is compared with.
LEMMA PointerHolds ==
  ASSUME TypeOK, ReceiptsAgree, PointerAgrees, [Next]_vars
  PROVE  PointerAgrees'
<1>1. ASSUME NEW d \in Deliveries, Transition(d) \/ LocalStep(d)
      PROVE  PointerAgrees'
  BY <1>1, PointerAfterTransition, PointerAfterLocalStep
<1>2. ASSUME UNCHANGED <<appt, lead>>, \A e \in Events : plan'[e].verdict = plan[e].verdict,
             \/ UNCHANGED row
             \/ \E d \in Deliveries : StepClaim(d) \/ StepDone(d) \/ ReleaseRow(d) \/ Die(d)
             \/ \E e \in Events, s \in CallSteps : LapseRow(e, s)
      PROVE  PointerAgrees'
  BY <1>2, LocalsStay, PointerStays DEF PointerFrame
<1>3. ASSUME NEW d \in Deliveries, StepDone(d)
      PROVE  PointerAgrees'
  <2>1. UNCHANGED <<appt, lead>>
    BY <1>3 DEF StepDone
  <2>2. \A e \in Events : plan'[e].verdict = plan[e].verdict
    BY <1>3 DEF StepDone, TypeOK
  <2>3. QED
    BY <1>2, <1>3, <2>1, <2>2
<1>4. ASSUME NEW d \in Deliveries,
             \/ StepClaim(d) \/ Call(d) \/ Recheck(d) \/ Dispatch(d) \/ Send(d) \/ SettleSent(d) \/ Defer(d)
             \/ ((CheckClaim(d) \/ End(d) \/ Refuse(d) \/ Renew(d)) /\ ReceiptFrame)
             \/ ((ReleaseRow(d) \/ Die(d)) /\ Forget(d))
             \/ \E e \in Events, c \in Contents : Deliver(d, e, c)
      PROVE  PointerAgrees'
  <2>1. UNCHANGED <<appt, lead, plan>>
    BY <1>4 DEF StepClaim, Call, Recheck, Dispatch, Send, SettleSent, Defer, ReceiptFrame, Forget,
                Deliver, apptVars
  <2>2. UNCHANGED row \/ StepClaim(d) \/ ReleaseRow(d) \/ Die(d)
    BY <1>4 DEF Call, Recheck, Dispatch, Send, SettleSent, Defer, CheckClaim, End, Refuse, Renew,
                Deliver, ClaimReceipt
  <2>3. QED
    BY <1>2, <2>1, <2>2
<1>5. CASE \/ UNCHANGED vars
           \/ \E m \in sent : AckDuplicate(m[1], m[2]) /\ ReceiptFrame
           \/ \E e \in Events : LapseReceipt(e) /\ ReceiptFrame
           \/ \E e \in Events, s \in CallSteps : LapseRow(e, s) /\ ReceiptFrame
           \/ (\E a \in Appts : Recover(a)) \/ RecoveryStep \/ RecoveryDies
  <2>1. UNCHANGED <<appt, lead, plan>>
    BY <1>5 DEF vars, apptVars, ReceiptFrame, Recover, RecoveryStep, RecoveryDies, Lock,
                DispatchRecovered, SendRecovered, SettleRecovered, Retire, Park, RecoveryFrame
  <2>2. UNCHANGED row \/ \E e \in Events, s \in CallSteps : LapseRow(e, s)
    BY <1>5 DEF vars, receiptVars, AckDuplicate, LapseReceipt, Recover, RecoveryStep, RecoveryDies, Lock,
                DispatchRecovered, SendRecovered, SettleRecovered, Retire, Park, RecoveryFrame
  <2>3. QED
    BY <1>2, <2>1, <2>2
<1>6. QED
  BY <1>1, <1>3, <1>4, <1>5, Zenon DEF Next, DeliveryStep

-----------------------------------------------------------------------------
(* The invariant *)

\* At first nothing was received, planned, asked for or pointed at.
LEMMA InitHolds ==
  ASSUME Init
  PROVE  IInv
<1>1. TypeOK
  <2>1. ReceiptsTypeOK
    <3>1. NoReceipt \in ReceiptRecords /\ NoRow \in RowRecords /\ faults \in Nat
      BY ScenariosAreBounded DEF Init, NoReceipt, NoRow, ReceiptRecords, RowRecords, ReceiptStates, RowStates
    <3>2. receipt \in [Events -> ReceiptRecords] /\ row \in [Events -> [Steps -> RowRecords]]
      BY <3>1 DEF Init, ReceiptsInit
    <3>3. /\ task \in [Deliveries -> [point : Points, event : Events \cup {None},
                              content : Contents \cup {None}, step : Steps \cup {None}]]
          /\ acked \in [Events -> SUBSET Contents]
      BY DEF Init, ReceiptsInit, Idle, Points
    <3>4. QED
      BY <3>1, <3>2, <3>3 DEF ReceiptsTypeOK, ReceiptRecords, RowRecords
  <2>2. /\ appt \in [Appts -> [status : Kinds \cup {"none"}, last : Nat,
                               start : Nat \cup {None}, booked : BOOLEAN]]
        /\ lead \in [stage : Stages, meeting : Appts \cup {None}] /\ paused \in BOOLEAN
    BY DEF Init, Stages
  <2>3. plan \in [Events -> [verdict : Verdicts, outcome : Outcomes, handoff : Answers]]
    BY DEF Init, Verdicts, Outcomes, Answers
  <2>4. /\ owed \in [Appts -> Owed] /\ ledger \in [Appts -> Ledger]
        /\ confirmed \in [Appts -> 0 .. 2] /\ answer \in [Deliveries -> Answers]
    BY DEF Init, Owed, Ledger, Answers
  <2>5. recovery \in [point : Working, appt : Appts \cup {None}, answer : Answers]
    BY DEF Init, AtRest, Working, Answers
  <2>6. tardy \subseteq Deliveries /\ cut \subseteq Appts /\ sent \in {s.sends : s \in Scenarios}
    BY DEF Init
  <2>7. QED
    BY <2>1, <2>2, <2>3, <2>4, <2>5, <2>6 DEF TypeOK
<1>2. \A e \in Events, s \in Steps : ~Ran(e, s)
  BY DEF Init, ReceiptsInit, NoRow, Ran
<1>3. /\ \A e \in Events : receipt[e] = NoReceipt /\ acked[e] = {}
      /\ \A d \in Deliveries : task[d] = Idle
      /\ \A e \in Events : plan[e] = [verdict |-> "none", outcome |-> "none", handoff |-> "none"]
      /\ \A a \in Appts : /\ appt[a] = [status |-> "none", last |-> 0, start |-> None, booked |-> FALSE]
                          /\ ledger[a] = "none" /\ confirmed[a] = 0
      /\ \A d \in Deliveries : answer[d] = "none"
      /\ recovery = AtRest /\ lead.stage = "none" /\ cut = {} /\ tardy = {}
  BY DEF Init, ReceiptsInit
<1>4. "transition" \in Steps /\ "local" \in Steps
  BY DEF Steps, TxSteps
<1>5. ReceiptsAgree
  <2>1. \A t \in Tasks : Position(t)
    BY <1>3 DEF Tasks, Position, Idle, CallPoints, HandoverPoints
  <2>2. HoldersHandle /\ AppliedIsThrough
    BY <1>3 DEF HoldersHandle, AppliedIsThrough, NoReceipt
  <2>3. RowsAgree
    BY <1>2, <1>3 DEF RowsAgree, NoReceipt
  <2>4. PlansAgree
    BY <1>2, <1>3, <1>4 DEF PlansAgree
  <2>5. QED
    BY <2>1, <2>2, <2>3, <2>4 DEF ReceiptsAgree
<1>6. HandoverAgrees
  <2>1. LedgerAgrees /\ OneRequest /\ CutAgrees /\ TardyAgrees
    BY <1>3 DEF LedgerAgrees, OneRequest, Requesting, Recovering, CutAgrees, TardyAgrees, Idle, AtRest
  <2>2. RecoveryAgrees
    BY <1>3 DEF RecoveryAgrees, RecoveryAt, Locked, AtRest
  <2>3. HandoffIsOwned
    BY <1>3 DEF HandoffIsOwned
  <2>4. \A d \in Deliveries : DeliveryAgrees(d)
    BY <1>3 DEF DeliveryAgrees, At, Idle
  <2>5. QED
    BY <2>1, <2>2, <2>3, <2>4 DEF HandoverAgrees
<1>7. PointerAgrees
  BY <1>3 DEF PointerAgrees, ApptsAgree, LeadPoints, BookedIsMet, Open
<1>8. QED
  BY <1>1, <1>5, <1>6, <1>7 DEF IInv

\* Every step preserves the invariant, each part with the help of the others.
LEMMA IInvStep ==
  ASSUME IInv, [Next]_vars
  PROVE  IInv'
<1>1. ReceiptsAgree'
  BY ReceiptsHold DEF IInv
<1>2. TypeOK'
  BY TypesHold DEF IInv, HandoverAgrees
<1>3. HandoverAgrees' /\ PointerAgrees'
  BY HandoverHolds, PointerHolds DEF IInv
<1>4. QED
  BY <1>1, <1>2, <1>3 DEF IInv

\* The invariant holds.
LEMMA IInvHolds == Spec => []IInv
<1>1. Init => IInv
  BY InitHolds
<1>2. IInv /\ [Next]_vars => IInv'
  BY IInvStep
<1>3. QED
  BY <1>1, <1>2, PTL DEF Spec

-----------------------------------------------------------------------------
(* Theorems *)

\* Receipts, steps, appointments, obligations and the ledger only ever take the
\* states of their tables.
THEOREM AppointmentsTypeCorrect == Spec => []TypeOK
<1>1. IInv => TypeOK
  BY DEF IInv
<1>2. QED
  BY <1>1, IInvHolds, PTL

\* What is acknowledged is done, for any deliveries, contents and faults
\* (ghl-webhook-receipts.ts).
THEOREM AcknowledgedIsDone == Spec => []AckedIsDone
<1>1. ASSUME IInv
      PROVE  AckedIsDone
  <2>1. ASSUME NEW e \in Events, acked[e] # {}
        PROVE  /\ receipt[e].state = "applied" /\ acked[e] = {receipt[e].content}
               /\ \A s \in Steps : row[e][s].state = "done" => row[e][s].of = receipt[e].content
               /\ Through(e)
    BY <1>1, <2>1 DEF IInv, ReceiptsAgree, AppliedIsThrough, RowsAgree, Ran
  <2>2. QED
    BY <2>1 DEF AckedIsDone, Through, Ran
<1>2. QED
  BY <1>1, IInvHolds, PTL

\* When the events that came are through, no appointment lags, and the pointer
\* is the current appointment, for any events in any order (scheduling.ts).
THEOREM PointerIsAlwaysCurrent == Spec => []PointerIsCurrent
<1>1. ASSUME IInv, \A e \in Events : receipt[e].state \in {"none", "applied"}
      PROVE  /\ lead.stage = "MEETING_SET" => lead.meeting = Current
             /\ (\E a \in Open : appt[a].booked) => lead.stage = "MEETING_SET"
  <2>1. \A e \in Events : ~Pending(e)
    <3>1. ASSUME NEW e \in Events, Pending(e)
          PROVE  FALSE
      <4>1. "transition" \in Steps
        BY DEF Steps, TxSteps
      <4>2. Ran(e, "transition")
        BY <1>1, <3>1 DEF Pending, IInv, ReceiptsAgree, PlansAgree
      <4>3. receipt[e].content # None
        BY <1>1, <4>1, <4>2 DEF IInv, ReceiptsAgree, RowsAgree
      <4>4. receipt[e].state = "applied"
        BY <1>1, <4>3 DEF IInv, ReceiptsAgree, RowsAgree
      <4>5. Through(e)
        BY <1>1, <4>4 DEF IInv, ReceiptsAgree, AppliedIsThrough
      <4>6. QED
        BY <3>1, <4>5 DEF Pending, Through
    <3>2. QED
      BY <3>1
  <2>2. Lagging = {}
    BY <2>1 DEF Lagging
  <2>3. ApptsTyped
    BY <1>1 DEF IInv, TypeOK, ApptsTyped
  <2>4. ASSUME lead.stage = "MEETING_SET"
        PROVE  lead.meeting = Current
    <3>1. lead.meeting \in Open /\ \A b \in Open : Before(lead.meeting, b)
      BY <1>1, <2>2, <2>4 DEF IInv, PointerAgrees, LeadPoints
    <3>2. PICK m \in Open : m = lead.meeting
      BY <3>1
    <3>3. QED
      BY <2>3, <3>1, <3>2, FirstIsCurrent
  <2>5. (\E a \in Open : appt[a].booked) => lead.stage = "MEETING_SET"
    BY <1>1, <2>1 DEF IInv, PointerAgrees, BookedIsMet
  <2>6. QED
    BY <2>4, <2>5
<1>2. IInv => PointerIsCurrent
  BY <1>1 DEF PointerIsCurrent
<1>3. QED
  BY <1>2, IInvHolds, PTL

\* The provider takes one confirmation of an appointment, for any number of
\* deliveries beside the recovery worker (ghl-handoff-dispatch-ledger.ts).
THEOREM ConfirmedAtMostOnce == Spec => []ConfirmedOnce
<1>1. IInv => ConfirmedOnce
  BY DEF IInv, HandoverAgrees, LedgerAgrees, ConfirmedOnce
<1>2. QED
  BY <1>1, IInvHolds, PTL

\* A booking reports what became of its confirmation (scheduling.ts).
THEOREM HandoffIsAlwaysOwned == Spec => []HandoffIsOwned
<1>1. IInv => HandoffIsOwned
  BY DEF IInv, HandoverAgrees
<1>2. QED
  BY <1>1, IInvHolds, PTL

\* The recovery sends nothing that a cancellation or a no-show has retired
\* (ghl-enrollment-recovery.ts, scheduling.ts); a show retires nothing.
THEOREM CanceledIsNeverRecovered == Spec => CanceledIsNotRecovered
<1>1. ASSUME IInv, RecoverySends
      PROVE  recovery.appt \notin cut
  BY <1>1 DEF IInv, HandoverAgrees, RecoveryAgrees, CutAgrees, RecoverySends, RecoveryAt, Locked
<1>2. IInv => (RecoverySends => recovery.appt \notin cut)
  BY <1>1
<1>3. QED
  BY <1>2, IInvHolds, PTL DEF CanceledIsNotRecovered

\* A delivery that came after the end sends no confirmation (scheduling.ts).
THEOREM TardyNeverSends == Spec => TardySendsNothing
<1>1. ASSUME IInv, NEW d \in Deliveries, Sends(d)
      PROVE  d \notin tardy
  <2>1. task[d].point = "send" /\ task[d].step = "confirm"
    BY <1>1 DEF Sends, At, IInv, ReceiptsAgree, Position, HandoverPoints, Tasks
  <2>2. QED
    BY <1>1, <2>1 DEF IInv, HandoverAgrees, TardyAgrees, StepOf
<1>2. IInv => \A d \in Deliveries : Sends(d) => d \notin tardy
  BY <1>1
<1>3. QED
  BY <1>2, IInvHolds, PTL DEF TardySendsNothing
=============================================================================
