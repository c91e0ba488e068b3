---------------------------- MODULE EsignOutbox ----------------------------
(***************************************************************************)
(* Sending the merchant agreement of ONE application for signature.        *)
(*                                                                         *)
(* A request marks the application "queued" and inserts a row of the       *)
(* merchant application outbox.  Server processes claim rows, write a      *)
(* dispatch marker to the audit log, call the e-sign provider and record   *)
(* the document.  A refusal is recorded as such and retried; a prerequisite *)
(* that is missing puts the row off and gives its attempt back; an unknown *)
(* outcome holds the row for an operator.  Markers and refusals are        *)
(* counted per application: the model keeps how many markers are open.     *)
(*                                                                         *)
(* A claim is identified by the row's attempt number, which a wait lowers  *)
(* again.  Time is abstracted: a delay may be over, and a lock may be      *)
(* stale, at any moment.                                                   *)
(***************************************************************************)
EXTENDS Naturals, FiniteSets

CONSTANTS
  Rows,         \* outbox rows of event type esign_send, one per request
  Workers,      \* server processes that run the outbox worker
  None,
  MaxAttempts,  \* MAX_ATTEMPTS of the worker (6 in the code)
  MaxSends      \* bound: more agreements than this are not told apart

ASSUME NoneAssumption == None \notin Rows
ASSUME WorkersAssumption == IsFiniteSet(Workers)
ASSUME BoundsAssumption == MaxAttempts \in Nat \ {0} /\ MaxSends \in Nat \ {0}

VARIABLES
  sendState,    \* merchant_applications.esign_send_state
  docState,     \* merchant_applications.esign_status
  document,     \* esign_document_id is recorded
  unsettled,    \* dispatch markers without a refusal in the audit log
  sends,        \* agreements that the provider has sent to the merchant
  status, attempts, held,   \* [Rows -> columns]; held: last_error is held:*
  spent,        \* history: [Rows -> attempts that failed or were lost]
  pc, row, token, seen, failure   \* [Workers -> local state of a tick]

appVars    == <<sendState, docState, document>>
rowVars    == <<status, attempts, held, spent>>
localVars  == <<row, token, seen, failure>>
workerVars == <<pc, localVars>>
vars       == <<appVars, unsettled, sends, rowVars, workerVars>>

RowStates == {"absent", "pending", "processing", "delivered", "dead_letter"}
Working   == {"check", "load", "resent", "markers", "idle_state", "pause",
              "mark", "send", "unconfirmed", "put_off", "refused",
              "failed_state", "record", "sent_state"}
Points    == {"idle", "deliver", "fail"} \cup Working

Open(r)   == status[r] \in {"pending", "processing"}
Closed(r) == status[r] \in {"delivered", "dead_letter"}

\* The row, the application and the processes only take the states that the code
\* writes; the attempts of a row stay within the retry budget.
TypeOK ==
  /\ sendState \in {"idle", "queued", "sent", "failed"}
  /\ docState \in {"pending", "sent", "signed"}
  /\ document \in BOOLEAN /\ sends \in 0..MaxSends
  /\ unsettled \in Nat
  /\ status \in [Rows -> RowStates]
  /\ attempts \in [Rows -> 0..MaxAttempts]
  /\ held \in [Rows -> BOOLEAN]
  /\ spent \in [Rows -> Nat]
  /\ pc \in [Workers -> Points]
  /\ row \in [Workers -> Rows \cup {None}]
  /\ token \in [Workers -> 0..MaxAttempts]
  /\ seen \in [Workers -> BOOLEAN]
  /\ failure \in [Workers -> {"none", "wait", "hold", "error"}]

Init ==
  /\ sendState = "idle" /\ docState = "pending" /\ document = FALSE
  /\ unsettled = 0 /\ sends = 0
  /\ status = [r \in Rows |-> "absent"] /\ attempts = [r \in Rows |-> 0]
  /\ held = [r \in Rows |-> FALSE] /\ spent = [r \in Rows |-> 0]
  /\ pc = [w \in Workers |-> "idle"] /\ row = [w \in Workers |-> None]
  /\ token = [w \in Workers |-> 0] /\ seen = [w \in Workers |-> FALSE]
  /\ failure = [w \in Workers |-> "none"]

-----------------------------------------------------------------------------
(* The application *)

\* requestEsignSend: one transaction, guarded by the send state.
RequestEsignSend(r) ==
  /\ ~(docState = "sent" /\ document)
  /\ sendState \in {"idle", "failed"}
  /\ status[r] = "absent"
  /\ sendState' = "queued"
  /\ status' = [status EXCEPT ![r] = "pending"]
  /\ UNCHANGED <<docState, document, unsettled, sends, attempts, held, spent,
                 workerVars>>

\* The provider reports the recorded document as signed (webhook, refresh).
Sign ==
  /\ document /\ docState # "signed"
  /\ docState' = "signed"
  /\ UNCHANGED <<sendState, document, unsettled, sends, rowVars, workerVars>>

\* applyEsignSendState: a conditional write that another writer of the
\* application may overtake.  The caller is not told apart from a written one.
ApplySendState(new) == sendState' \in {new, sendState} /\ UNCHANGED <<docState, document>>

-----------------------------------------------------------------------------
(* Claims *)

GoTo(w, point) == pc' = [pc EXCEPT ![w] = point] /\ UNCHANGED localVars

GoFail(w, kind) ==
  /\ pc' = [pc EXCEPT ![w] = "fail"]
  /\ failure' = [failure EXCEPT ![w] = kind]
  /\ UNCHANGED <<row, token, seen>>

Release(w) ==
  /\ pc' = [pc EXCEPT ![w] = "idle"] /\ row' = [row EXCEPT ![w] = None]
  /\ token' = [token EXCEPT ![w] = 0] /\ seen' = [seen EXCEPT ![w] = FALSE]
  /\ failure' = [failure EXCEPT ![w] = "none"]

\* ownedClaim, assertCurrentClaim and withOwnedClaim test the same thing.
Owns(w) == status[row[w]] = "processing" /\ attempts[row[w]] = token[w]

\* Slip: the last attempt is counted one too far.
ClaimOneMore(w, r) ==
  /\ pc[w] = "idle"
  /\ status[r] = "pending" /\ attempts[r] <= MaxAttempts
  /\ status' = [status EXCEPT ![r] = "processing"]
  /\ attempts' = [attempts EXCEPT ![r] = @ + 1]
  /\ pc' = [pc EXCEPT ![w] = "check"]
  /\ row' = [row EXCEPT ![w] = r]
  /\ token' = [token EXCEPT ![w] = attempts[r] + 1]
  /\ UNCHANGED <<appVars, unsettled, sends, held, spent, seen, failure>>

ClaimOne(w, r) ==
  /\ pc[w] = "idle"
  /\ status[r] = "pending" /\ attempts[r] < MaxAttempts
  /\ status' = [status EXCEPT ![r] = "processing"]
  /\ attempts' = [attempts EXCEPT ![r] = @ + 1]
  /\ pc' = [pc EXCEPT ![w] = "check"]
  /\ row' = [row EXCEPT ![w] = r]
  /\ token' = [token EXCEPT ![w] = attempts[r] + 1]
  /\ UNCHANGED <<appVars, unsettled, sends, held, spent, seen, failure>>

\* Slip: a stale lock is treated like a wait and gives the attempt back.
ReclaimGivingBack(r) ==
  /\ status[r] = "processing"
  /\ status' = [status EXCEPT ![r] = "pending"]
  /\ attempts' = [attempts EXCEPT ![r] = @ - 1]
  /\ UNCHANGED <<appVars, unsettled, sends, held, spent, workerVars>>

\* reclaimStale: the lock is ten minutes old; its owner may still run.
ReclaimStale(r) ==
  /\ status[r] = "processing"
  /\ status' = [status EXCEPT ![r] = "pending"]
  /\ spent' = [spent EXCEPT ![r] = @ + 1]
  /\ UNCHANGED <<appVars, unsettled, sends, attempts, held, workerVars>>

-----------------------------------------------------------------------------
(* handleEsignSend *)

\* processRow first checks the claim; a lost claim ends the work silently.
AssertCurrentClaim(w) ==
  /\ pc[w] = "check"
  /\ IF Owns(w) THEN GoTo(w, "load") ELSE Release(w)
  /\ UNCHANGED <<appVars, unsettled, sends, rowVars>>

\* The application is read; a recorded sent document is not sent again.
Load(w) ==
  /\ pc[w] = "load"
  /\ seen' = [seen EXCEPT ![w] = document]
  /\ pc' = [pc EXCEPT ![w] = IF document /\ docState = "sent"
                             THEN "resent" ELSE "markers"]
  /\ UNCHANGED <<appVars, unsettled, sends, rowVars, row, token, failure>>

Resent(w) ==
  /\ pc[w] = "resent"
  /\ ApplySendState("sent")
  /\ GoTo(w, "deliver")
  /\ UNCHANGED <<unsettled, sends, rowVars>>

\* Slip: a dispatch that is not settled is not held.
ReadMarkersNoHold(w) ==
  /\ pc[w] = "markers"
  /\ GoTo(w, "idle_state") \/ GoTo(w, "pause")
  /\ UNCHANGED <<appVars, unsettled, sends, rowVars>>

\* The markers are counted: an open one, without a document, holds the row.
\* Then the template and the recipient are looked up; either may be missing.
ReadMarkers(w) ==
  /\ pc[w] = "markers"
  /\ \/ unsettled > 0 /\ ~seen[w] /\ GoFail(w, "hold")
     \/ /\ ~(unsettled > 0 /\ ~seen[w])
        /\ GoTo(w, "idle_state") \/ GoTo(w, "pause")
  /\ UNCHANGED <<appVars, unsettled, sends, rowVars>>

\* Not configured: the send state goes back to idle and the row is done.
MarkIdle(w) ==
  /\ pc[w] = "idle_state"
  /\ ApplySendState("idle")
  /\ GoTo(w, "deliver")
  /\ UNCHANGED <<unsettled, sends, rowVars>>

AssertOutboundNotPaused(w) ==
  /\ pc[w] = "pause"
  /\ GoTo(w, "mark") \/ GoFail(w, "wait")
  /\ UNCHANGED <<appVars, unsettled, sends, rowVars>>

\* recordFencedMarker: claim check and marker commit together.
RecordFencedMarker(w) ==
  /\ pc[w] = "mark"
  /\ \/ Owns(w) /\ unsettled' = unsettled + 1 /\ GoTo(w, "send")
     \/ ~Owns(w) /\ Release(w) /\ UNCHANGED unsettled
  /\ UNCHANGED <<appVars, sends, rowVars>>

Sent == sends' = IF sends < MaxSends THEN sends + 1 ELSE sends

\* The provider call, by its typed outcome: confirmed; refused or put off
\* before anything was sent; or unknown, which covers a throw.
SendDocumentForEsign(w) ==
  /\ pc[w] = "send"
  /\ \/ Sent /\ (GoTo(w, "record") \/ GoTo(w, "unconfirmed"))
     \/ /\ UNCHANGED sends
        /\ GoTo(w, "refused") \/ GoTo(w, "put_off") \/ GoTo(w, "unconfirmed")
  /\ UNCHANGED <<appVars, unsettled, rowVars>>

\* The evidence of an unknown outcome is written; the marker stays open.
RecordUnconfirmed(w) ==
  /\ pc[w] = "unconfirmed"
  /\ GoFail(w, "hold")
  /\ UNCHANGED <<appVars, unsettled, sends, rowVars>>

\* A refusal settles the marker; one before any I/O puts the row off.
RecordRefusal(w) ==
  /\ pc[w] \in {"refused", "put_off"}
  /\ unsettled' = unsettled - 1
  /\ \/ pc[w] = "refused" /\ GoTo(w, "failed_state")
     \/ pc[w] = "put_off" /\ GoFail(w, "wait")
  /\ UNCHANGED <<appVars, sends, rowVars>>

MarkFailed(w) ==
  /\ pc[w] = "failed_state"
  /\ ApplySendState("failed")
  /\ GoFail(w, "error")
  /\ UNCHANGED <<unsettled, sends, rowVars>>

\* applyEsignDocumentState, tried three times.  It is refused when the
\* document is signed, and may lose every version race.
RecordDocument(w) ==
  /\ pc[w] = "record"
  /\ \/ /\ docState # "signed"
        /\ docState' = "sent" /\ document' = TRUE
        /\ UNCHANGED sendState
        /\ GoTo(w, "sent_state")
     \/ /\ UNCHANGED appVars
        /\ IF docState = "signed" THEN GoTo(w, "deliver") ELSE GoFail(w, "hold")
  /\ UNCHANGED <<unsettled, sends, rowVars>>

MarkSent(w) ==
  /\ pc[w] = "sent_state"
  /\ ApplySendState("sent")
  /\ GoTo(w, "deliver")
  /\ UNCHANGED <<unsettled, sends, rowVars>>

-----------------------------------------------------------------------------
(* Settlement *)

\* Slip: the row is settled by its id alone.
SettleUnfenced(w, newStatus, back) ==
  /\ status' = [status EXCEPT ![row[w]] = newStatus]
  /\ attempts' = [attempts EXCEPT ![row[w]] = @ - back]

\* A settlement under the claim; a lost claim settles nothing.
Settle(w, newStatus, back) ==
  \/ /\ Owns(w)
     /\ status' = [status EXCEPT ![row[w]] = newStatus]
     /\ attempts' = [attempts EXCEPT ![row[w]] = @ - back]
  \/ ~Owns(w) /\ UNCHANGED <<status, attempts>>

MarkDelivered(w) ==
  /\ pc[w] = "deliver"
  /\ Settle(w, "delivered", 0)
  /\ Release(w)
  /\ UNCHANGED <<appVars, unsettled, sends, held, spent>>

\* Slip: a wait keeps the attempt.
PutOffCounted(w) ==
  /\ failure[w] = "wait"
  /\ Settle(w, "pending", 0)
  /\ UNCHANGED <<held, spent>>

\* markRetryOrDeadLetter, by the kind of the error.
PutOff(w) ==
  /\ failure[w] = "wait"
  /\ Settle(w, "pending", IF attempts[row[w]] > 0 THEN 1 ELSE 0)
  /\ UNCHANGED <<held, spent>>

Hold(w) ==
  /\ failure[w] = "hold"
  /\ Settle(w, "dead_letter", 0)
  /\ held' = IF Owns(w) THEN [held EXCEPT ![row[w]] = TRUE] ELSE held
  /\ UNCHANGED spent

Retry(w) ==
  /\ failure[w] = "error"
  /\ Settle(w, IF token[w] >= MaxAttempts THEN "dead_letter" ELSE "pending", 0)
  /\ spent' = IF Owns(w) THEN [spent EXCEPT ![row[w]] = @ + 1] ELSE spent
  /\ UNCHANGED held

MarkRetryOrDeadLetter(w) ==
  /\ pc[w] = "fail"
  /\ PutOff(w) \/ Hold(w) \/ Retry(w)
  /\ Release(w)
  /\ UNCHANGED <<appVars, unsettled, sends>>

\* A read or a write of the handler, or the settlement of a delivered row,
\* throws before it has any effect.
Fault(w) ==
  /\ pc[w] \in Working \cup {"deliver"}
  /\ GoFail(w, "error")
  /\ UNCHANGED <<appVars, unsettled, sends, rowVars>>

\* The process dies, or the settlement itself throws and ends the tick.
Abandon(w) ==
  /\ pc[w] # "idle"
  /\ Release(w)
  /\ UNCHANGED <<appVars, unsettled, sends, rowVars>>

-----------------------------------------------------------------------------
(* Specification *)

WorkerStep(w) ==
  \/ AssertCurrentClaim(w) \/ Load(w) \/ Resent(w) \/ ReadMarkers(w)
  \/ MarkIdle(w) \/ AssertOutboundNotPaused(w) \/ RecordFencedMarker(w)
  \/ SendDocumentForEsign(w) \/ RecordUnconfirmed(w) \/ RecordRefusal(w)
  \/ MarkFailed(w) \/ RecordDocument(w) \/ MarkSent(w) \/ MarkDelivered(w)
  \/ MarkRetryOrDeadLetter(w)

Next ==
  \/ Sign
  \/ \E r \in Rows : RequestEsignSend(r) \/ ReclaimStale(r)
  \/ \E w \in Workers :
       \/ \E r \in Rows : ClaimOne(w, r)
       \/ WorkerStep(w) \/ Fault(w) \/ Abandon(w)

Spec == Init /\ [][Next]_vars

-----------------------------------------------------------------------------
(* Properties *)

\* Attempt numbers go down again when a row waits.  All the same no two
\* processes ever hold the same row under the same number, so the fence on
\* (id, processing, attempts) names one of them.
ClaimsAreExclusive ==
  \A v, w \in Workers :
    (v # w /\ row[v] # None /\ row[v] = row[w]) => token[v] # token[w]

\* "A prerequisite wait must not consume the retry budget": the attempts of a
\* row are those that failed or whose process was lost, and the one under way.
WaitsAreFree ==
  \A r \in Rows :
    status[r] \in {"pending", "processing"} =>
      attempts[r] = spent[r] + (IF status[r] = "processing" THEN 1 ELSE 0)

\* A settled row stays as it is, whatever a process that lost its claim does.
SettledIsFinal ==
  [][\A r \in Rows : Closed(r) =>
       status'[r] = status[r] /\ attempts'[r] = attempts[r]]_vars

\* Over retries, refusals, unknown outcomes, waits and lost claims one request
\* sends at most one agreement, as long as the merchant has not signed it.
OneAgreementUntilSigned == docState # "signed" => sends <= 1

\* "Never send a second agreement."
OneAgreement == sends <= 1
=============================================================================
