----------------------------- MODULE DealStage -----------------------------
(***************************************************************************)
(* The stage of ONE deal and the effects of moving it.                     *)
(*                                                                         *)
(* Every move runs in one transaction that locks the deal: it checks the   *)
(* move, updates the stage and inserts one intent per effect the new stage *)
(* has.  A manual underwriting override does the same and marks the        *)
(* decision.  Effect workers lease intents, write a receipt just before    *)
(* the effect and another state just after, and settle the intent under    *)
(* the lease token.  Leases expire while their holder may still run.  An   *)
(* effect that does not apply when it is carried out is completed without  *)
(* taking place, and the receipt keeps a disposition that says so, except  *)
(* for two effects whose receipt says "applied" all the same.              *)
(*                                                                         *)
(* A lease token names the execution that took it: it is represented by    *)
(* the worker, which holds at most one lease and forgets it when it dies.  *)
(***************************************************************************)
EXTENDS Naturals, FiniteSets

CONSTANTS
  Pipeline,      \* "sales" or "onboarding"
  Stages,        \* the stages an instance visits
  FirstStage,
  Effects,       \* the effect types an instance follows
  Workers,       \* sweeps that may run at the same time
  Commands,      \* command ids of underwriting overrides
  None,
  MaxAttempts,   \* MAX_ATTEMPTS of the effect worker (8 in the code)
  MaxTries,      \* bound: attempt counts from here on are not told apart
  MaxDecisions,  \* bound: underwriting decisions taken on the deal
  MaxMoves       \* bound: stage moves

ASSUME StagesAssumption == FirstStage \in Stages /\ "override" \notin Stages
ASSUME WorkersAssumption == None \notin Workers
ASSUME BoundsAssumption ==
  /\ MaxAttempts \in Nat \ {0} /\ MaxTries \in Nat /\ MaxTries > MaxAttempts
  /\ MaxDecisions \in Nat /\ MaxMoves \in Nat

VARIABLES
  stage,      \* deals.stage
  moves,      \* number of moves so far (for the bound only)
  goLive,     \* the onboarding checklist is complete
  decision,   \* the latest underwriting decision (0: none)
  overridden, \* [decision -> "none" or the override action]
  used,       \* command ids that have committed an override
  status, tries, lease,   \* [Intents -> columns of the intent]
  receipt,    \* [Intents -> state of the receipt, once complete its disposition]
  performed,  \* [Intents -> how often the effect took place outside]
  remote,     \* the stage that the outside CRM shows for the deal
  pc, intent, attempt, seen, failure   \* [Workers -> local state]

dealVars   == <<stage, moves>>
caseVars   == <<decision, overridden, used>>
intentVars == <<status, tries, lease>>
effectVars == <<performed, remote>>
workerVars == <<pc, intent, attempt, seen, failure>>
vars == <<dealVars, goLive, caseVars, intentVars, receipt, effectVars,
          workerVars>>

-----------------------------------------------------------------------------
(* Stages *)

SalesOrder == <<
  "New", "New Lead", "Warm Lead", "Discovery", "Appointment Set",
  "Appointment Completed", "Follow-Up", "Enriched", "Statement Requested",
  "Statement Received", "Review In Progress", "Call Booked", "Proposal Sent",
  "Negotiation", "Negotiation / Follow-Up", "Verbal Commit",
  "Promise to Submit", "Closed Won", "Closed Lost", "Nurture / Not Now">>
OnboardingOrder == <<
  "Application Submitted", "Contract Sent", "Application Started",
  "Underwriting Submitted", "Approved", "Terminal Ordered",
  "Go-Live Scheduled", "Live (First Batch)", "Active (7 Days)",
  "Active (30 Days)">>
Order == IF Pipeline = "onboarding" THEN OnboardingOrder ELSE SalesOrder

GoLiveStages == {"Go-Live Scheduled", "Live (First Batch)", "Active (7 Days)",
                 "Active (30 Days)"}

Legal(from, to) ==
  \/ to \in {"Closed Lost", "Nurture / Not Now"}
  \/ from = "Proposal Sent" /\ to = "Review In Progress"
  \/ from = "Review In Progress" /\ to = "Statement Received"
  \/ \E i, j \in DOMAIN Order : Order[i] = from /\ Order[j] = to /\ i < j

\* Slip: no projection of a closed deal.
MaterialUnlessClosed(to) ==
  IF to \in {"Closed Won", "Live (First Batch)"} THEN {}
  ELSE Effects \cap {"lifecycle_projection", "ghl_projection"}

\* The effects of entering a stage; the deal has a contact.
MaterialEffects(to) ==
  Effects \cap
    ({"lifecycle_projection", "ghl_projection"}
     \cup (IF to = "Closed Won" THEN {"onboarding_kickoff"} ELSE {})
     \cup (IF to \in {"Approved", "Go-Live Scheduled"}
           THEN {"portal_invitation"} ELSE {})
     \cup (IF to = "Underwriting Submitted"
           THEN {"underwriting_initialization"} ELSE {})
     \cup (IF to = "Proposal Sent" THEN {"proposal_followup_task"} ELSE {}))

Actions == {"approve", "reject"}
Target(action) == IF action = "approve" THEN "Proposal Sent"
                                        ELSE "Review In Progress"
\* The further effects of an override.
FollowOns(action) ==
  Effects \cap
    ({"underwriting_override_ghl_task"}
     \cup (IF action = "reject" THEN {"underwriting_reject_notification"} ELSE {}))

-----------------------------------------------------------------------------
(* Intents: the transition key and the effect type are unique together *)

MoveIntent(from, to, effect) ==
  [from |-> from, to |-> to, decision |-> 0, effect |-> effect]
OverrideIntent(d, action, effect) ==
  [from |-> "override", to |-> action, decision |-> d, effect |-> effect]

\* The effects that only an override has.
OverrideEffects == {"underwriting_override_ghl_task",
                    "underwriting_reject_notification"}

Intents ==
  {i \in [from: Stages, to: Stages, decision: {0}, effect: Effects \ OverrideEffects] :
     i.from # i.to}
  \cup [from: {"override"}, to: Actions, decision: 1..MaxDecisions,
        effect: Effects \cap OverrideEffects]

States   == {"absent", "pending", "retryable", "processing", "succeeded",
             "reconcile_required", "terminal_failed"}
Receipts == {"none", "processing", "applied", "waived"}
Points   == {"idle", "gate", "receipt", "read", "perform", "record", "skip",
             "complete", "fail"}
Failures == {"none", "error", "deferred", "reconcile"}

\* Effects whose receipt says "applied" also when nothing took place: the stage
\* has no lifecycle state or the deal no contact; the insertion of the
\* underwriting checklist failed, which is only logged.
Silent == {"lifecycle_projection", "underwriting_initialization"}

\* The effects that may find nothing to do when they are carried out: the silent
\* ones, no outside CRM or no contact in it, a portal activated before, a deal
\* without owner or contact.
Conditional ==
  Silent \cup {"ghl_projection", "underwriting_override_ghl_task",
               "portal_invitation", "proposal_followup_task"}

\* The dispositions of a complete receipt (state 'succeeded').
Concluded(i) == receipt[i] \in {"applied", "waived"}

Open(i)    == status[i] \in {"pending", "retryable", "processing"}
Settled(i) == status[i] \in {"succeeded", "reconcile_required", "terminal_failed"}

\* Intents, receipts and sweeps only take the states that the tables allow.
TypeOK ==
  /\ stage \in Stages /\ moves \in Nat
  /\ goLive \in BOOLEAN
  /\ decision \in 0..MaxDecisions
  /\ overridden \in [1..MaxDecisions -> Actions \cup {"none"}]
  /\ used \subseteq Commands
  /\ status \in [Intents -> States] /\ tries \in [Intents -> Nat]
  /\ lease \in [Intents -> Workers \cup {None}]
  /\ receipt \in [Intents -> Receipts]
  /\ performed \in [Intents -> Nat]
  /\ remote \in Stages
  /\ pc \in [Workers -> Points]
  /\ intent \in [Workers -> Intents \cup {None}]
  /\ attempt \in [Workers -> Nat]
  /\ seen \in [Workers -> Stages]
  /\ failure \in [Workers -> Failures]

Init ==
  /\ stage = FirstStage /\ moves = 0
  /\ goLive = FALSE
  /\ decision = 0 /\ overridden = [d \in 1..MaxDecisions |-> "none"] /\ used = {}
  /\ status = [i \in Intents |-> "absent"] /\ tries = [i \in Intents |-> 0]
  /\ lease = [i \in Intents |-> None]
  /\ receipt = [i \in Intents |-> "none"]
  /\ performed = [i \in Intents |-> 0]
  /\ remote = FirstStage
  /\ pc = [w \in Workers |-> "idle"] /\ intent = [w \in Workers |-> None]
  /\ attempt = [w \in Workers |-> 0] /\ seen = [w \in Workers |-> FirstStage]
  /\ failure = [w \in Workers |-> "none"]

-----------------------------------------------------------------------------
(* Moving the deal *)

\* Inserts intents; those whose key exists already are left as they are.
Insert(new) ==
  status' = [i \in Intents |-> IF i \in new /\ status[i] = "absent"
                               THEN "pending" ELSE status[i]]

\* The body of a move that is applied.
Move(to) ==
  /\ Legal(stage, to)
  /\ moves < MaxMoves
  /\ stage' = to
  /\ moves' = moves + 1

MoveIntents(to) == {MoveIntent(stage, to, e) : e \in MaterialEffects(to)}

\* A user, a route or an automation moves the deal.  Without an override
\* context an onboarding deal enters a go-live stage only when ready; a move to
\* the present stage and a refused move change nothing here.
AdvanceDealStage(to, override) ==
  /\ to # stage
  /\ Move(to)
  /\ (Pipeline = "onboarding" /\ to \in GoLiveStages) => goLive \/ override
  /\ Insert(MoveIntents(to))
  /\ UNCHANGED <<goLive, caseVars, tries, lease, receipt, effectVars,
                 workerVars>>

\* applyUnderwritingOverride: the decision, the move, its intents and the
\* follow-ons commit together.  A request that names another decision or an
\* older revision, and a replayed command, change nothing.
ApplyUnderwritingOverride(c, action) ==
  LET to == Target(action)
      followOns == {OverrideIntent(decision, action, e) : e \in FollowOns(action)}
  IN
  /\ c \notin used
  /\ decision # 0 /\ overridden[decision] = "none"
  /\ to \in Stages
  /\ overridden' = [overridden EXCEPT ![decision] = action]
  /\ used' = used \cup {c}
  /\ \/ to = stage /\ UNCHANGED dealVars /\ Insert(followOns)
     \/ to # stage /\ Move(to) /\ Insert(followOns \cup MoveIntents(to))
  /\ UNCHANGED <<goLive, decision, tries, lease, receipt, effectVars,
                 workerVars>>

\* The underwriting engine takes a new decision.
Decide ==
  /\ decision < MaxDecisions
  /\ decision' = decision + 1
  /\ UNCHANGED <<dealVars, goLive, overridden, used, intentVars, receipt,
                 effectVars, workerVars>>

\* The onboarding checklist is completed or reopened.
ChangeReadiness ==
  /\ Pipeline = "onboarding"
  /\ goLive' = ~goLive
  /\ UNCHANGED <<dealVars, caseVars, intentVars, receipt, effectVars, workerVars>>

-----------------------------------------------------------------------------
(* The effect worker *)

GoTo(w, point) ==
  /\ pc' = [pc EXCEPT ![w] = point]
  /\ UNCHANGED <<intent, attempt, seen, failure>>

GoFail(w, kind) ==
  /\ pc' = [pc EXCEPT ![w] = "fail"]
  /\ failure' = [failure EXCEPT ![w] = kind]
  /\ UNCHANGED <<intent, attempt, seen>>

Release(w) ==
  /\ pc' = [pc EXCEPT ![w] = "idle"]
  /\ intent' = [intent EXCEPT ![w] = None]
  /\ attempt' = [attempt EXCEPT ![w] = 0]
  /\ seen' = [seen EXCEPT ![w] = FirstStage]
  /\ failure' = [failure EXCEPT ![w] = "none"]

\* Slip: the lease token is not compared, nor the state.
HoldsAnyLease(w) == status[intent[w]] # "absent"

\* The fence of complete and fail: processing, under this lease token.
Holds(w) == status[intent[w]] = "processing" /\ lease[intent[w]] = w

\* A settlement of the intent: it ends the lease.
Settle(w, newState) ==
  /\ status' = [status EXCEPT ![intent[w]] = newState]
  /\ lease' = [lease EXCEPT ![intent[w]] = None]

\* The attempt count after one more claim.
NextTry(i) == IF tries[i] < MaxTries THEN tries[i] + 1 ELSE tries[i]

Take(w, i) ==
  /\ pc[w] = "idle"
  /\ status' = [status EXCEPT ![i] = "processing"]
  /\ tries' = [tries EXCEPT ![i] = NextTry(i)]
  /\ lease' = [lease EXCEPT ![i] = w]
  /\ pc' = [pc EXCEPT ![w] = "gate"]
  /\ intent' = [intent EXCEPT ![w] = i]
  /\ attempt' = [attempt EXCEPT ![w] = NextTry(i)]
  /\ UNCHANGED <<dealVars, goLive, caseVars, receipt, effectVars, seen,
                 failure>>

\* claimOne on a due intent, and on one whose lease has expired.
ClaimDue(w, i)     == status[i] \in {"pending", "retryable"} /\ Take(w, i)
ClaimExpired(w, i) == status[i] = "processing" /\ Take(w, i)

\* Before the receipt: a task for the outside CRM is put off when the CRM is
\* configured and has the contact and the control room has paused mutations of it.
\* All three may change at any time.
Gate(w) ==
  /\ pc[w] = "gate"
  /\ \/ intent[w].effect = "underwriting_override_ghl_task" /\ GoFail(w, "deferred")
     \/ GoTo(w, "receipt")
  /\ UNCHANGED <<dealVars, goLive, caseVars, intentVars, receipt, effectVars>>

\* Slip: a receipt that was begun before is taken over.
BeginReceiptAgain(w) ==
  /\ pc[w] = "receipt"
  /\ \/ /\ ~Concluded(intent[w])
        /\ receipt' = [receipt EXCEPT ![intent[w]] = "processing"]
        /\ GoTo(w, "read")
     \/ /\ Concluded(intent[w])
        /\ GoTo(w, "complete")
        /\ UNCHANGED receipt
  /\ UNCHANGED <<dealVars, goLive, caseVars, intentVars, effectVars>>

\* Slip: a receipt that was begun before counts as done.
BeginReceiptDone(w) ==
  /\ pc[w] = "receipt"
  /\ \/ /\ receipt[intent[w]] = "none"
        /\ receipt' = [receipt EXCEPT ![intent[w]] = "processing"]
        /\ GoTo(w, "read")
     \/ /\ receipt[intent[w]] # "none"
        /\ GoTo(w, "complete")
        /\ UNCHANGED receipt
  /\ UNCHANGED <<dealVars, goLive, caseVars, intentVars, effectVars>>

\* beginReceipt: the insert of the receipt is the side-effect boundary.
BeginReceipt(w) ==
  /\ pc[w] = "receipt"
  /\ \/ /\ receipt[intent[w]] = "none"
        /\ receipt' = [receipt EXCEPT ![intent[w]] = "processing"]
        /\ GoTo(w, "read")
     \/ /\ Concluded(intent[w])
        /\ GoTo(w, "complete")
        /\ UNCHANGED receipt
     \/ /\ receipt[intent[w]] = "processing"
        /\ GoFail(w, "reconcile")
        /\ UNCHANGED receipt
  /\ UNCHANGED <<dealVars, goLive, caseVars, intentVars, effectVars>>

\* The decision still is the override that asked for the effect.
Stands(i) == i.from = "override" => overridden[i.decision] = i.to

\* The effect finds nothing to do: it is completed without taking place.
Dismiss(w) ==
  /\ pc[w] = "read"
  /\ intent[w].effect \in Conditional \/ ~Stands(intent[w])
  /\ GoTo(w, "skip")
  /\ UNCHANGED <<dealVars, goLive, caseVars, intentVars, receipt, effectVars>>

\* The effect reads the deal as it is now.
ReadDeal(w) ==
  /\ pc[w] = "read"
  /\ Stands(intent[w])
  /\ seen' = [seen EXCEPT ![w] = stage]
  /\ pc' = [pc EXCEPT ![w] = "perform"]
  /\ UNCHANGED <<dealVars, goLive, caseVars, intentVars, receipt,
                 effectVars, intent, attempt, failure>>

\* The effect takes place outside; the projection shows the stage that was read.
TakeEffect(w) ==
  /\ performed' = [performed EXCEPT ![intent[w]] = @ + 1]
  /\ remote' = IF intent[w].effect = "ghl_projection" THEN seen[w] ELSE remote

Perform(w) ==
  /\ pc[w] = "perform"
  /\ TakeEffect(w)
  /\ \/ GoTo(w, "record")
     \/ GoFail(w, "error")    \* it took place, but the answer was lost
  /\ UNCHANGED <<dealVars, goLive, caseVars, intentVars, receipt>>

\* The disposition that the receipt keeps.
Disposition(w) ==
  IF pc[w] = "skip" /\ intent[w].effect \notin Silent THEN "waived" ELSE "applied"

CompleteReceipt(w) ==
  /\ pc[w] \in {"record", "skip"}
  /\ receipt' = [receipt EXCEPT ![intent[w]] = Disposition(w)]
  /\ GoTo(w, "complete")
  /\ UNCHANGED <<dealVars, goLive, caseVars, intentVars, effectVars>>

Complete(w) ==
  /\ pc[w] = "complete"
  /\ \/ Holds(w) /\ Settle(w, "succeeded")
     \/ ~Holds(w) /\ UNCHANGED <<status, lease>>
  /\ Release(w)
  /\ UNCHANGED <<dealVars, goLive, caseVars, tries, receipt, effectVars>>

\* Slip: nothing ends the retries.
FailedForever(w) == IF pc[w] = "fail" THEN "retryable" ELSE "terminal_failed"

\* Slip: the kind of the failure is stored.
FailedKind(w) ==
  IF failure[w] = "error" THEN "retryable" ELSE failure[w]

\* A deferral gives the attempt back; a boundary that was passed before needs
\* reconciliation; any other error is retried until the attempts are used up.
FailedState(w) ==
  IF failure[w] = "reconcile" THEN "reconcile_required"
  ELSE IF failure[w] # "deferred" /\ attempt[w] >= MaxAttempts THEN "terminal_failed"
  ELSE "retryable"

Fail(w) ==
  /\ pc[w] = "fail"
  /\ \/ /\ Holds(w)
        /\ Settle(w, FailedState(w))
        /\ tries' = IF failure[w] = "deferred" /\ tries[intent[w]] > 0
                    THEN [tries EXCEPT ![intent[w]] = @ - 1] ELSE tries
     \/ ~Holds(w) /\ UNCHANGED intentVars
  /\ Release(w)
  /\ UNCHANGED <<dealVars, goLive, caseVars, receipt, effectVars>>

\* An awaited step throws before it has done anything.
Fault(w) ==
  /\ pc[w] \in {"gate", "receipt", "read", "perform", "record", "skip", "complete"}
  /\ GoFail(w, "error")
  /\ UNCHANGED <<dealVars, goLive, caseVars, intentVars, receipt, effectVars>>

\* The process dies, or the settlement itself throws and ends the sweep.
Abandon(w) ==
  /\ pc[w] # "idle"
  /\ Release(w)
  /\ UNCHANGED <<dealVars, goLive, caseVars, intentVars, receipt, effectVars>>

-----------------------------------------------------------------------------
(* Specification *)

WorkerStep(w) ==
  \/ Gate(w) \/ BeginReceipt(w) \/ Dismiss(w) \/ ReadDeal(w) \/ Perform(w)
  \/ CompleteReceipt(w) \/ Complete(w) \/ Fail(w)

Claim(w) == \E i \in Intents : ClaimDue(w, i) \/ ClaimExpired(w, i)

DealStep ==
  \/ \E to \in Stages, override \in BOOLEAN : AdvanceDealStage(to, override)
  \/ \E c \in Commands, action \in Actions : ApplyUnderwritingOverride(c, action)
  \/ Decide
  \/ ChangeReadiness

Next ==
  \/ DealStep
  \/ \E w \in Workers : Claim(w) \/ WorkerStep(w) \/ Fault(w) \/ Abandon(w)

Spec == Init /\ [][Next]_vars

\* The holder of the lease is still at work on the intent.
Live(i) == lease[i] # None /\ intent[lease[i]] = i

\* Sweeps are started for ever, and a started one runs on.  In the long run no
\* process dies and no lease is outrun (it lasts two minutes).
Fairness ==
  /\ \A w \in Workers :
       /\ WF_vars(\E i \in Intents : ClaimDue(w, i) \/ (~Live(i) /\ ClaimExpired(w, i)))
       /\ WF_vars(WorkerStep(w))
  /\ <>[][\A w \in Workers :
            /\ ~Abandon(w)
            /\ \A i \in Intents : ~(Live(i) /\ ClaimExpired(w, i))]_vars

FairSpec == Spec /\ Fairness

-----------------------------------------------------------------------------
(* Properties *)

\* "It must reconcile rather than blindly perform a possibly-duplicated effect":
\* over lost answers, expired leases, crashes and retries an intent's effect
\* takes place at most once.
EffectAtMostOnce == \A i \in Intents : performed[i] <= 1

\* An intent is reported as succeeded only under a receipt that tells what was
\* done: a receipt says "applied" only after the effect took place, and any other
\* disposition only when it did not and never will.  The two silent effects are
\* the exception: their receipt says "applied" in either case.
SuccessIsReal ==
  \A i \in Intents :
    /\ status[i] = "succeeded" => Concluded(i)
    /\ receipt[i] = "applied" => performed[i] = 1 \/ i.effect \in Silent
    /\ receipt[i] = "waived" => performed[i] = 0

\* A settled intent never changes again, whatever a sweep that lost its lease
\* still does.
SettledIsFinal ==
  [][\A i \in Intents : Settled(i) =>
       status'[i] = status[i] /\ tries'[i] = tries[i]]_vars

\* When the outside CRM shows another stage, a projection of the present stage is
\* still to come, is known to have failed, or was waived by its receipt because no
\* CRM was configured when it was carried out.
MirrorIsTracked ==
  remote # stage =>
    \E i \in Intents : /\ i.effect = "ghl_projection" /\ i.to = stage
                       /\ status[i] # "absent"
                       /\ status[i] # "succeeded" \/ receipt[i] = "waived"

\* Every intent is settled in the end.
EveryIntentEnds == \A i \in Intents : Open(i) ~> Settled(i)
=============================================================================
