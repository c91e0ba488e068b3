----------------------------- MODULE Lifecycle -----------------------------
(***************************************************************************)
(* The lifecycle state of ONE contact.                                     *)
(*                                                                         *)
(* Every caller of LifecycleService.transition reads the state, decides    *)
(* whether the move is allowed, and then writes the new state and a        *)
(* history row in a transaction that does not look at the state again.     *)
(* Deal-stage effects, the SDR agent, statements and administrators call   *)
(* it independently of each other.                                         *)
(***************************************************************************)
EXTENDS Naturals, Sequences

CONSTANTS
  Callers,     \* calls that may run at the same time
  Targets,     \* the lifecycle states an instance moves to
  MaxHistory   \* bound: rows of contact_lifecycle_history

VARIABLES
  state,      \* contacts.lifecycle_state
  history,    \* contact_lifecycle_history, oldest first
  pc,         \* [Callers -> "idle" or "write"]
  request     \* [Callers -> the move the caller has decided on]

vars == <<state, history, pc, request>>

LifecycleStates == <<
  "PROSPECT", "ENGAGED", "APPOINTMENT_SCHEDULED", "APPOINTMENT_COMPLETED",
  "STATEMENT_REQUESTED", "STATEMENT_RECEIVED", "STATEMENT_ANALYZED",
  "PROPOSAL_READY", "PROPOSAL_SENT", "NEGOTIATION", "APPLICATION_STARTED",
  "APPLICATION_COMPLETE", "UNDERWRITING", "UNDERWRITING_CONDITIONAL",
  "APPROVED", "BOARDING", "EQUIPMENT_DEPLOYMENT", "ACTIVATION_PENDING",
  "FIRST_TRANSACTION", "FIRST_FUNDING", "ACTIVE_PROCESSING", "HEALTHY",
  "AT_RISK", "RETENTION", "CHURNED", "WINBACK", "CLOSED_LOST">>

Known == {LifecycleStates[i] : i \in DOMAIN LifecycleStates}
ASSUME TargetsAssumption == Targets \subseteq Known

\* isTransitionAllowed.
Allowed(from, to) ==
  \/ to = "CLOSED_LOST"
  \/ from = "CHURNED" /\ to = "WINBACK"
  \/ from = "AT_RISK" /\ to = "RETENTION"
  \/ \E i, j \in DOMAIN LifecycleStates :
       LifecycleStates[i] = from /\ LifecycleStates[j] = to /\ i < j

NoMove == [from |-> "PROSPECT", to |-> "PROSPECT", admin |-> FALSE]

Init ==
  /\ state = "PROSPECT"
  /\ history = << >>
  /\ pc = [c \in Callers |-> "idle"]
  /\ request = [c \in Callers |-> NoMove]

\* Slip: the rules are not asked.
ReadUnchecked(c, to, admin) ==
  /\ pc[c] = "idle"
  /\ to # state
  /\ pc' = [pc EXCEPT ![c] = "write"]
  /\ request' = [request EXCEPT ![c] = [from |-> state, to |-> to, admin |-> admin]]
  /\ UNCHANGED <<state, history>>

\* The caller reads the state.  The present state and a prohibited move end the
\* call without a write; an administrator's override skips the rules.
Read(c, to, admin) ==
  /\ pc[c] = "idle"
  /\ to # state
  /\ admin \/ Allowed(state, to)
  /\ pc' = [pc EXCEPT ![c] = "write"]
  /\ request' = [request EXCEPT ![c] = [from |-> state, to |-> to, admin |-> admin]]
  /\ UNCHANGED <<state, history>>

EndCall(c) ==
  /\ pc' = [pc EXCEPT ![c] = "idle"]
  /\ request' = [request EXCEPT ![c] = NoMove]

\* The state and the history row are written in one transaction.
Write(c) ==
  /\ pc[c] = "write"
  /\ Len(history) < MaxHistory
  /\ state' = request[c].to
  /\ history' = Append(history, request[c])
  /\ EndCall(c)

\* The transaction fails, or the process dies before it.
Fail(c) ==
  /\ pc[c] = "write"
  /\ EndCall(c)
  /\ UNCHANGED <<state, history>>

Next ==
  \E c \in Callers :
    \/ \E to \in Targets, admin \in BOOLEAN : Read(c, to, admin)
    \/ Write(c)
    \/ Fail(c)

Spec == Init /\ [][Next]_vars

-----------------------------------------------------------------------------
(* Properties *)

\* "Backward movement is prohibited", but for an administrator's override: the
\* state goes back only when another call has overtaken the one that writes, and
\* the history then shows it, for the row starts from a state already left.
BackwardOnlyWhenOvertaken ==
  [][state' # state =>
       LET newest == history'[Len(history')] IN
       Allowed(state, state') \/ newest.admin \/ newest.from # state]_vars
=============================================================================
