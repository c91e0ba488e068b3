-------------------------- MODULE WebhookReceipts --------------------------
(***************************************************************************)
(* Receipts of the webhooks of the GHL provider, and the steps under them. *)
(*                                                                         *)
(* The provider delivers an event until it is acknowledged; deliveries of  *)
(* one event may overlap and may differ in content under one key.  A       *)
(* delivery claims the receipt with a lease that its heartbeat renews.  A  *)
(* step that changes local records completes in the transaction that makes *)
(* the change; a step that calls out is leased, called and then completed. *)
(* What a delivery writes is fenced by its claim on the receipt.           *)
(*                                                                         *)
(* The handlers, and with them the next-state relation, are in             *)
(* Appointments.  A delivery stands for its claim token: one that dies     *)
(* leaves a claim that nobody holds.                                       *)
(***************************************************************************)
EXTENDS Naturals, FiniteSets

CONSTANTS
  Deliveries,  \* requests that are handled at the same time
  Events,      \* occurrences, by key
  Contents,    \* payloads under one key
  None

TxSteps   == {"transition", "local"}         \* steps that change local records
CallSteps == {"pause", "confirm", "resume"}  \* steps that call out
Steps     == TxSteps \cup CallSteps
ASSUME NoneIsNothing ==
  None \notin Deliveries /\ None \notin Events /\ None \notin Contents /\ None \notin Steps

VARIABLES
  receipt, \* ghl_provider_event_receipts
  row,     \* ghl_webhook_effect_steps; of: the content a completed step was run with
  task,    \* the deliveries
  acked,   \* [Events -> contents whose delivery was answered with success]
  faults   \* bound: deaths, stalls, failing statements and calls yet to come

receiptVars == <<receipt, row, task, acked, faults>>

ReceiptStates == {"none", "claimed", "failed", "applied"}
RowStates     == {"none", "running", "done"}
Points == {"idle", "transition", "local", "recheck", "check", "claim", "call",
           "dispatch", "send", "settle", "defer", "complete", "release", "end", "fail"}

NoReceipt == [state |-> "none", holder |-> None, live |-> FALSE, content |-> None]
NoRow     == [state |-> "none", holder |-> None, live |-> FALSE, of |-> None]
Idle      == [point |-> "idle", event |-> None, content |-> None, step |-> None]

ReceiptsTypeOK ==
  /\ receipt \in [Events -> [state : ReceiptStates, holder : Deliveries \cup {None},
                             live : BOOLEAN, content : Contents \cup {None}]]
  /\ row \in [Events -> [Steps -> [state : RowStates, holder : Deliveries \cup {None},
                                   live : BOOLEAN, of : Contents \cup {None}]]]
  /\ task \in [Deliveries -> [point : Points, event : Events \cup {None},
                              content : Contents \cup {None}, step : Steps \cup {None}]]
  /\ acked \in [Events -> SUBSET Contents]
  /\ faults \in Nat

ReceiptsInit ==
  /\ receipt = [e \in Events |-> NoReceipt]
  /\ row = [e \in Events |-> [s \in Steps |-> NoRow]]
  /\ task = [d \in Deliveries |-> Idle]
  /\ acked = [e \in Events |-> {}]

Faulty == faults > 0 /\ faults' = faults - 1

EventOf(d) == task[d].event
StepOf(d)  == task[d].step
At(d, point) == task[d].point = point

GoTo(d, point)      == task' = [task EXCEPT ![d].point = point]
Begin(d, point, s)  == task' = [task EXCEPT ![d].point = point, ![d].step = s]

\* CLAIM_HELD_SQL
Owns(d)  == LET r == receipt[EventOf(d)] IN r.state = "claimed" /\ r.holder = d
Holds(d) == Owns(d) /\ receipt[EventOf(d)].live

RowOf(d)    == row[EventOf(d)][StepOf(d)]
OwnsRow(d)  == RowOf(d).state = "running" /\ RowOf(d).holder = d
FreeRow(d)  == [row EXCEPT ![EventOf(d)][StepOf(d)].live = FALSE]
DoneRow(d)  == [row EXCEPT ![EventOf(d)][StepOf(d)] =
                  [state |-> "done", holder |-> None, live |-> FALSE, of |-> task[d].content]]

-----------------------------------------------------------------------------
(* The receipt *)

\* Slip: whatever the event was claimed for before, this delivery replaces it.
AdoptsAny(e, c) == TRUE

\* Another content is adopted while nothing durable was done for the former one.
Adopts(e, c) ==
  \/ receipt[e].content \in {None, c}
  \/ \A s \in Steps : row[e][s].state = "none"

\* claimGhlWebhookReceipt: a delivery that finds the receipt claimed, or another
\* content held, is refused and changes nothing.
ClaimReceipt(d, e, c) ==
  LET r == receipt[e]
  IN /\ At(d, "idle")
     /\ r.state \in {"none", "failed"} \/ (r.state = "claimed" /\ ~r.live)
     /\ Adopts(e, c)
     /\ receipt' = [receipt EXCEPT ![e] =
                      [state |-> "claimed", holder |-> d, live |-> TRUE, content |-> c]]
     /\ task' = [task EXCEPT ![d] =
                   [point |-> "transition", event |-> e, content |-> c, step |-> None]]
     /\ UNCHANGED <<row, acked, faults>>

IsDuplicate(e, c) == receipt[e].state = "applied" /\ receipt[e].content = c

AckDuplicate(e, c) ==
  /\ IsDuplicate(e, c) /\ c \notin acked[e]
  /\ acked' = [acked EXCEPT ![e] = @ \cup {c}]
  /\ UNCHANGED <<receipt, row, task, faults>>

\* The response is withheld until the receipt is marked; it may still be lost.
End(d) ==
  /\ At(d, "end")
  /\ IF Owns(d)
     THEN /\ receipt' = [receipt EXCEPT ![EventOf(d)].state = "applied",
                           ![EventOf(d)].holder = None, ![EventOf(d)].live = FALSE]
          /\ \/ acked' = [acked EXCEPT ![EventOf(d)] = @ \cup {task[d].content}]
                /\ UNCHANGED faults
             \/ Faulty /\ UNCHANGED acked
     ELSE UNCHANGED <<receipt, acked, faults>>
  /\ task' = [task EXCEPT ![d] = Idle]
  /\ UNCHANGED row

\* An error of the handler: the receipt is marked "failed" if it is still claimed.
Refuse(d) ==
  /\ At(d, "fail")
  /\ receipt' = IF Owns(d)
                THEN [receipt EXCEPT ![EventOf(d)].state = "failed",
                        ![EventOf(d)].holder = None, ![EventOf(d)].live = FALSE]
                ELSE receipt
  /\ task' = [task EXCEPT ![d] = Idle]
  /\ UNCHANGED <<row, acked, faults>>

\* The heartbeat of a delivery that stalled; too late once another has claimed.
Renew(d) ==
  /\ task[d].point # "idle" /\ Owns(d) /\ ~receipt[EventOf(d)].live
  /\ receipt' = [receipt EXCEPT ![EventOf(d)].live = TRUE]
  /\ UNCHANGED <<row, task, acked, faults>>

\* A lease ends: its holder is dead, or stalls beyond it.
LapseReceipt(e) ==
  /\ receipt[e].state = "claimed" /\ receipt[e].live
  /\ (receipt[e].holder = None /\ UNCHANGED faults) \/ (receipt[e].holder # None /\ Faulty)
  /\ receipt' = [receipt EXCEPT ![e].live = FALSE]
  /\ UNCHANGED <<row, task, acked>>

LapseRow(e, s) ==
  /\ row[e][s].state = "running" /\ row[e][s].live
  /\ (row[e][s].holder = None /\ UNCHANGED faults) \/ (row[e][s].holder # None /\ Faulty)
  /\ row' = [row EXCEPT ![e][s].live = FALSE]
  /\ UNCHANGED <<receipt, task, acked>>

\* The process of a delivery dies: its tokens are gone, its leases are not.
Die(d) ==
  /\ task[d].point # "idle" /\ Faulty
  /\ task' = [task EXCEPT ![d] = Idle]
  /\ receipt' = [e \in Events |-> IF receipt[e].holder = d
                                  THEN [receipt[e] EXCEPT !.holder = None] ELSE receipt[e]]
  /\ row' = [e \in Events |-> [s \in Steps |->
               IF row[e][s].holder = d THEN [row[e][s] EXCEPT !.holder = None] ELSE row[e][s]]]
  /\ UNCHANGED acked

-----------------------------------------------------------------------------
(* runReceiptTxStep.  The receipt is locked against a takeover until the     *)
(* effect and its row are committed, so that this is one action; what it     *)
(* changes is the handler's.                                                 *)

\* The claim is lost, or the transaction fails: nothing of it stays.
TxFails(d) ==
  /\ (~Holds(d) /\ UNCHANGED faults) \/ Faulty
  /\ GoTo(d, "fail")
  /\ UNCHANGED <<receipt, row, acked>>

TxReplay(d, s, point, call) ==
  /\ Holds(d) /\ row[EventOf(d)][s].state = "done" /\ Begin(d, point, call)
  /\ UNCHANGED <<receipt, row, acked, faults>>

TxCommit(d, s, point, call) ==
  /\ Holds(d) /\ row[EventOf(d)][s].state # "done" /\ Begin(d, point, call)
  /\ row' = [row EXCEPT ![EventOf(d)][s] =
               [state |-> "done", holder |-> None, live |-> FALSE, of |-> task[d].content]]
  /\ UNCHANGED <<receipt, acked, faults>>

-----------------------------------------------------------------------------
(* runReceiptStep *)

CheckClaim(d) ==
  /\ At(d, "check")
  /\ GoTo(d, IF Holds(d) THEN "claim" ELSE "fail")
  /\ UNCHANGED <<receipt, row, acked, faults>>

\* The row of the step is claimed in a statement of its own; first is where the
\* call begins, next what follows a step that is done already.
ClaimRow(d, first, next) ==
  /\ At(d, "claim")
  /\ LET r == RowOf(d)
     IN \/ /\ r.state = "none" \/ (r.state = "running" /\ ~r.live)
           /\ row' = [row EXCEPT ![EventOf(d)][StepOf(d)] =
                        [state |-> "running", holder |-> d, live |-> TRUE, of |-> None]]
           /\ GoTo(d, first)
        \/ r.state = "done" /\ GoTo(d, next) /\ UNCHANGED row
        \/ r.state = "running" /\ r.live /\ GoTo(d, "fail") /\ UNCHANGED row
  /\ UNCHANGED <<receipt, acked, faults>>

\* Completion is fenced by the token of the step and the claim of the receipt.
CompleteRow(d, next) ==
  /\ At(d, "complete")
  /\ \/ OwnsRow(d) /\ Holds(d) /\ row' = DoneRow(d) /\ GoTo(d, next) /\ UNCHANGED faults
     \/ ~(OwnsRow(d) /\ Holds(d)) /\ GoTo(d, "release") /\ UNCHANGED <<row, faults>>
     \/ Faulty /\ GoTo(d, "release") /\ UNCHANGED row
  /\ UNCHANGED <<receipt, acked>>

\* The call threw, or could not be recorded: the next delivery may repeat it.
ReleaseRow(d) ==
  /\ At(d, "release")
  /\ row' = IF OwnsRow(d) THEN FreeRow(d) ELSE row
  /\ GoTo(d, "fail")
  /\ UNCHANGED <<receipt, acked, faults>>
=============================================================================
