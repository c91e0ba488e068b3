--------------------------- MODULE BoardingSystem ---------------------------
(***************************************************************************)
(* The submission of a deal (DealBoarding) together with what follows it:  *)
(* the processor decides, and dashboard users refresh the deal's status.   *)
(*                                                                         *)
(* A refresh reads the deal, reads the case tuple, polls the processor and *)
(* applies the observation in one transaction that first compares the deal *)
(* with what was read.  A failed refresh appends to the log it read at the *)
(* start, with no comparison.  Refreshes run concurrently with each other  *)
(* (bulk refresh, several users) and with the outbox worker.               *)
(***************************************************************************)
EXTENDS DealBoarding, Sequences

CONSTANTS
  Refreshers,   \* refresh requests that may run at the same time
  MaxLog        \* bound: a refresh starts only while the log is shorter

ASSUME MaxLogAssumption == MaxLog \in Nat

VARIABLES
  log,       \* deals.boarding_log
  mid,       \* a MID has been assigned (deals.mid, merchant_mids)
  verdict,   \* [Commands -> what the processor decided on its application]
  rpc,       \* [Refreshers -> program point]
  seen,      \* [Refreshers -> the deal and case tuple the refresh read]
  answer     \* [Refreshers -> the processor's answer]

refreshVars == <<rpc, seen, answer>>
sysVars     == <<vars, log, mid, verdict, refreshVars>>

Entries   == {"submitted", "observed", "failed"}
Verdicts  == {"submitted", "approved", "declined"}
Terminal  == {"approved", "declined"}

\* The columns of the case tuple that a refresh compares.
CaseKey   == <<appRev, ready>>
NoSeen    == [app |-> None, status |-> "not_submitted", log |-> << >>,
              key |-> <<0, TRUE>>]
NoAnswer  == [status |-> "submitted", mid |-> FALSE]

Logged(e, s) == \E i \in 1..Len(s) : s[i] = e

SysInit ==
  /\ Init
  /\ log = << >> /\ mid = FALSE
  /\ verdict = [c \in Commands |-> "submitted"]
  /\ rpc = [r \in Refreshers |-> "idle"]
  /\ seen = [r \in Refreshers |-> NoSeen]
  /\ answer = [r \in Refreshers |-> NoAnswer]

-----------------------------------------------------------------------------
(* The outbox worker and the route, with the log *)

\* The transaction that records the application id also appends the entry that
\* names the processor.  The log it appends to was read when the deal had no
\* application id, and only refreshes of submitted deals write the log.
BoardingStep ==
  /\ Next
  /\ log' = IF dealApp' # dealApp THEN Append(log, "submitted") ELSE log
  /\ UNCHANGED <<mid, verdict, refreshVars>>

-----------------------------------------------------------------------------
(* The processor *)

\* The processor decides once on an application it holds.
ProviderDecides(c) ==
  /\ held[c] > 0
  /\ verdict[c] = "submitted"
  /\ \E v \in Terminal : verdict' = [verdict EXCEPT ![c] = v]
  /\ UNCHANGED <<vars, log, mid, refreshVars>>

-----------------------------------------------------------------------------
(* performBoardingStatusRefresh *)

EndRefresh(r) ==
  /\ rpc' = [rpc EXCEPT ![r] = "idle"]
  /\ seen' = [seen EXCEPT ![r] = NoSeen]
  /\ answer' = [answer EXCEPT ![r] = NoAnswer]

RefreshTo(r, point) ==
  /\ rpc' = [rpc EXCEPT ![r] = point]
  /\ UNCHANGED <<seen, answer>>

\* A deal without an application id, or whose log names no processor, is
\* skipped.
StartRefresh(r) ==
  /\ rpc[r] = "idle"
  /\ dealApp # None
  /\ Logged("submitted", log)
  /\ Len(log) < MaxLog
  /\ rpc' = [rpc EXCEPT ![r] = "observe"]
  /\ seen' = [seen EXCEPT ![r] = [app |-> dealApp, status |-> dealStatus,
                                  log |-> log, key |-> NoSeen.key]]
  /\ UNCHANGED <<vars, log, mid, verdict, answer>>

\* The snapshot gate, then the read of the case tuple.
ObserveCase(r) ==
  /\ rpc[r] = "observe"
  /\ \/ ~snapshot /\ EndRefresh(r)
     \/ /\ snapshot
        /\ seen' = [seen EXCEPT ![r].key = CaseKey]
        /\ rpc' = [rpc EXCEPT ![r] = "poll"]
        /\ UNCHANGED answer
  /\ UNCHANGED <<vars, log, mid, verdict>>

\* The processor answers for the application; an approval may lack the MID.
PollAnswers(r) ==
  /\ rpc[r] = "poll"
  /\ \E m \in BOOLEAN :
       /\ m => verdict[seen[r].app] = "approved"
       /\ answer' = [answer EXCEPT ![r] = [status |-> verdict[seen[r].app],
                                           mid |-> m]]
  /\ rpc' = [rpc EXCEPT ![r] = "apply"]
  /\ UNCHANGED <<vars, log, mid, verdict, seen>>

\* The deal changed after it was read, or holds a different terminal status.
Stale(r) ==
  \/ CaseKey # seen[r].key
  \/ dealApp # seen[r].app
  \/ dealStatus # seen[r].status
  \/ Len(log) # Len(seen[r].log)
Conflicts(r) == dealStatus \in Terminal /\ dealStatus # answer[r].status

\* Slip: the observation is not compared with the deal it was made for.
ApplyUnversioned(r) ==
  /\ rpc[r] = "apply"
  /\ dealStatus' = answer[r].status
  /\ log' = Append(seen[r].log, "observed")
  /\ mid' = (mid \/ answer[r].mid)
  /\ EndRefresh(r)
  /\ UNCHANGED <<dealApp, monitored, rowVars, caseVars, held, workerVars, verdict>>

\* MID, status and log are committed together, or the observation is ignored.
Apply(r) ==
  /\ rpc[r] = "apply"
  /\ \/ /\ Stale(r) \/ Conflicts(r)
        /\ UNCHANGED <<dealStatus, log, mid>>
     \/ /\ ~Stale(r) /\ ~Conflicts(r)
        /\ dealStatus' = answer[r].status
        /\ log' = Append(seen[r].log, "observed")
        /\ mid' = (mid \/ answer[r].mid)
  /\ EndRefresh(r)
  /\ UNCHANGED <<dealApp, monitored, rowVars, caseVars, held, workerVars, verdict>>

\* The poll fails, or anything awaited throws (a MID attached to another deal
\* rolls the transaction back).
RefreshFails(r) ==
  /\ rpc[r] \in {"observe", "poll", "apply"}
  /\ RefreshTo(r, "fail")
  /\ UNCHANGED <<vars, log, mid, verdict>>

\* Slip: the entry replaces the log.
RecordFailureAlone(r) ==
  /\ rpc[r] = "fail"
  /\ log' = <<"failed">>
  /\ EndRefresh(r)
  /\ UNCHANGED <<vars, mid, verdict>>

\* recordBoardingFailureAndAlert writes the log it was given, plus one entry.
RecordFailure(r) ==
  /\ rpc[r] = "fail"
  /\ log' = Append(seen[r].log, "failed")
  /\ EndRefresh(r)
  /\ UNCHANGED <<vars, mid, verdict>>

\* The process that serves the request dies, or recording the failure fails.
RefreshDies(r) ==
  /\ rpc[r] # "idle"
  /\ EndRefresh(r)
  /\ UNCHANGED <<vars, log, mid, verdict>>

RefreshStep(r) ==
  \/ StartRefresh(r) \/ ObserveCase(r) \/ PollAnswers(r) \/ Apply(r)
  \/ RefreshFails(r) \/ RecordFailure(r) \/ RefreshDies(r)

SysNext ==
  \/ BoardingStep
  \/ \E c \in Commands : ProviderDecides(c)
  \/ \E r \in Refreshers : RefreshStep(r)

SysSpec == SysInit /\ [][SysNext]_sysVars

-----------------------------------------------------------------------------
(* Properties *)

\* A recorded decision is the processor's decision on the application the deal
\* names, and a MID is recorded only for an approved deal.
DecisionIsReal ==
  /\ dealStatus \in Terminal =>
       dealApp # None /\ verdict[dealApp] = dealStatus
  /\ mid => dealStatus = "approved"

\* The entry that names the processor survives every concurrent write of the
\* log; without it the deal could never be refreshed again.
SubmissionStaysLogged == dealApp # None => Logged("submitted", log)

\* A resubmission after a decline finds the declined application on file: the
\* worker only reconciles, and the row is delivered.
ReconciledAfterDecline(c) ==
  /\ status[c] = "delivered"
  /\ dealApp \notin {None, c}
  /\ verdict[dealApp] = "declined"

\* A queued deal is carried by an open command.  There are two exceptions, and
\* no third: a command died for lack of an activation snapshot, or a command
\* submitted after a decline was reconciled with the declined application.  Both
\* leave the deal queued, a status no request may submit from.
QueuedIsCarried ==
  dealStatus = "queued" =>
    \E c \in Commands :
      \/ Open(c)
      \/ Dead(c, {SNAPSHOT_REQUIRED})
      \/ ReconciledAfterDecline(c)

\* No late observation, retry or request moves an approved deal.
ApprovalIsFinal ==
  [][dealStatus = "approved" => dealStatus' = "approved"]_sysVars
=============================================================================
