------------------------ MODULE BoardingSystemProofs ------------------------
(***************************************************************************)
(* Proofs about BoardingSystem, for any number of commands, processes and  *)
(* refreshes: recorded decisions are the processor's, an approval is       *)
(* final, the log keeps its submission entry, what the outbox promises *)
(* about applications survives the refreshes.                              *)
(***************************************************************************)
EXTENDS BoardingSystem, DealBoardingProofs

-----------------------------------------------------------------------------
(* What a step of the outbox does to the deal *)

\* Whether a row is open, after a step, by its new status.
LEMMA OpenNext ==
  ASSUME NEW c \in Commands
  PROVE  Open(c)' <=> status'[c] \in {"pending", "processing"}
BY DEF Open

\* Nothing that the deal or the set of open rows shows.
Unseen ==
  UNCHANGED <<dealStatus, dealApp>> /\ \A c \in Commands : Open(c)' <=> Open(c)

\* A request opens a row of a deal that may be submitted.
Opens ==
  /\ dealStatus \in Resubmittable /\ dealStatus' = "queued" /\ dealApp' = dealApp
  /\ \E c \in Commands : \A d \in Commands \ {c} : Open(d)' <=> Open(d)

\* The owner closes its row, with or without an application for the deal.
Closes(w, c) ==
  /\ pc[w] # "idle" /\ Owns(w) /\ claim[w] = c
  /\ Open(c) /\ ~Open(c)'
  /\ \A d \in Commands \ {c} : Open(d)' <=> Open(d)
  /\ \/ dealStatus' \in {dealStatus, "dead_letter", AMBIGUOUS} /\ dealApp' = dealApp
     \/ pc[w] = "commit" /\ dealStatus' = "submitted" /\ dealApp' = c

LEMMA SettlementShows ==
  ASSUME TypeOK, ClaimsAreExclusive, NEW w \in Workers,
         \/ CommitSuccess(w) \/ Reconcile(w) \/ Refuse(w)
         \/ RefuseUnconfirmed(w) \/ SettleAmbiguous(w) \/ MarkRetryOrDeadLetter(w)
  PROVE  Unseen \/ \E c \in Commands : Closes(w, c)
<1>1. PICK c \in Commands : c = claim[w] /\ pc[w] # "idle"
  BY DEF CommitSuccess, Reconcile, Refuse, RefuseUnconfirmed, SettleAmbiguous,
         MarkRetryOrDeadLetter, ClaimsAreExclusive
<1>2. CASE ~Owns(w)
  <2>1. UNCHANGED <<status, dealStatus, dealApp>>
    BY <1>2 DEF CommitSuccess, Reconcile, Refuse, RefuseUnconfirmed, SettleAmbiguous,
           MarkRetryOrDeadLetter, SettleWith, rowVars
  <2>2. QED
    BY <2>1 DEF Unseen, Open
<1>3. CASE Owns(w)
  <2>1. status \in [Commands -> RowStatuses] /\ Open(c)
    BY <1>1, <1>3 DEF TypeOK, Owns, Open
  <2>2. ASSUME NEW s \in {"delivered", "dead_letter"},
               status' = [status EXCEPT ![c] = s]
        PROVE  /\ ~Open(c)'
               /\ \A d \in Commands \ {c} : Open(d)' <=> Open(d)
    BY <1>1, <2>1, <2>2 DEF Open
  <2>3. ASSUME status' = [status EXCEPT ![c] = "pending"]
        PROVE  \A d \in Commands : Open(d)' <=> Open(d)
    BY <1>1, <2>1, <2>3 DEF Open
  <2>4. CASE CommitSuccess(w)
    <3>1. /\ status' = [status EXCEPT ![c] = "delivered"]
          /\ pc[w] = "commit" /\ dealStatus' = "submitted" /\ dealApp' = c
      BY <1>1, <1>3, <2>4 DEF CommitSuccess, SettleWith, SetRow
    <3>2. QED
      BY <1>1, <1>3, <2>1, <2>2, <3>1 DEF Closes
  <2>5. CASE \/ Reconcile(w) \/ Refuse(w) \/ RefuseUnconfirmed(w) \/ SettleAmbiguous(w)
             \/ MarkRetryOrDeadLetter(w)
    <3>1. /\ dealApp' = dealApp
          /\ \/ /\ \E s \in {"delivered", "dead_letter"} : status' = [status EXCEPT ![c] = s]
                /\ dealStatus' \in {dealStatus, "dead_letter", AMBIGUOUS}
             \/ /\ status' = [status EXCEPT ![c] = "pending"]
                /\ dealStatus' = dealStatus
      <4>1. CASE Reconcile(w)
        BY <1>1, <1>3, <4>1 DEF Reconcile, SettleWith, SetRow
      <4>2. CASE Refuse(w) \/ RefuseUnconfirmed(w) \/ SettleAmbiguous(w)
        BY <1>1, <1>3, <4>2 DEF Refuse, RefuseUnconfirmed, SettleAmbiguous, SettleWith, SetRow
      <4>3. CASE MarkRetryOrDeadLetter(w)
        BY <1>1, <1>3, <4>3 DEF MarkRetryOrDeadLetter, SettleWith, SetRow
      <4>4. QED
        BY <2>5, <4>1, <4>2, <4>3
    <3>2. QED
      BY <1>1, <1>3, <2>1, <2>2, <2>3, <3>1 DEF Closes, Unseen
  <2>6. QED
    BY <2>4, <2>5
<1>4. QED
  BY <1>2, <1>3

LEMMA StepShows ==
  ASSUME TypeOK, ClaimsAreExclusive, [Next]_vars
  PROVE  Unseen \/ Opens \/ \E w \in Workers, c \in Commands : Closes(w, c)
<1>1. status \in [Commands -> RowStatuses]
  BY DEF TypeOK
<1>2. ASSUME NEW c \in Commands, Submit(c) PROVE Opens
  BY <1>1, <1>2 DEF Submit, Opens, Open
<1>3. ASSUME NEW c \in Commands, ReclaimStale(c) PROVE Unseen
  BY <1>1, <1>3 DEF ReclaimStale, Unseen, Open, dealVars
<1>4. ASSUME NEW w \in Workers, NEW c \in Commands, ClaimOne(w, c) PROVE Unseen
  BY <1>1, <1>4 DEF ClaimOne, Unseen, Open, dealVars
<1>5. CASE UNCHANGED <<dealVars, status>>
  BY <1>5 DEF Unseen, Open, dealVars
<1>6. ASSUME NEW w \in Workers,
             \/ LoadDeal(w) \/ CheckLinkage(w) \/ CheckReadiness(w) \/ CheckSnapshot(w)
             \/ FinalFence(w) \/ ProviderAccepts(w) \/ ProviderRefuses(w) \/ ProviderUnclear(w)
             \/ CatchFailure(w) \/ Fault(w) \/ Abandon(w)
      PROVE  UNCHANGED <<dealVars, status>>
  BY <1>6 DEF LoadDeal, CheckLinkage, CheckReadiness, CheckSnapshot, FinalFence,
       ProviderAccepts, ProviderRefuses, ProviderUnclear, CatchFailure, Fault, Abandon, rowVars
<1>7. CASE CaseChange \/ UNCHANGED vars
  BY <1>5, <1>7 DEF CaseChange, ReviseApplication, ReviseCase, ToggleReady, ToggleSnapshot,
       rowVars, vars
<1>8. QED
  BY <1>2, <1>3, <1>4, <1>5, <1>6, <1>7, SettlementShows
     DEF Next, Reclaim, Claim, WorkerStep

-----------------------------------------------------------------------------
(* Ownership *)

\* A process comes to own a row only by claiming it.
LEMMA OwnsKept ==
  ASSUME TypeOK, ClaimsAreExclusive, [Next]_vars, NEW v \in Workers,
         pc'[v] # "idle", Owns(v)'
  PROVE  pc'[v] = "load" \/ (pc[v] # "idle" /\ Owns(v))
<1>1. status \in [Commands -> RowStatuses] /\ attempts \in [Commands -> Nat]
      /\ token \in [Workers -> Nat]
  BY DEF TypeOK
<1>2. ASSUME pc[v] # "idle", claim'[v] = claim[v], token'[v] = token[v],
             attempts' = attempts,
             \A c \in Commands : status'[c] = "processing" => status[c] = "processing"
      PROVE  Owns(v)
  <2>1. claim[v] \in Commands
    BY <1>2 DEF ClaimsAreExclusive
  <2>2. QED
    BY <1>2, <2>1 DEF Owns
<1>3. ASSUME NEW w \in Workers, NEW c \in Commands, ClaimOne(w, c)
      PROVE  pc'[v] = "load" \/ (pc[v] # "idle" /\ Owns(v))
  <2>1. CASE v = w
    BY <1>3, <2>1, ClaimFrame
  <2>2. CASE v # w
    <3>1. /\ pc[v] # "idle" /\ claim'[v] = claim[v] /\ token'[v] = token[v]
          /\ attempts'[c] = attempts[c] + 1
          /\ \A d \in Commands \ {c} : attempts'[d] = attempts[d] /\ status'[d] = status[d]
      BY <1>3, <2>2, ClaimFrame DEF Kept
    <3>2. claim[v] \in Commands /\ token[v] <= attempts[claim[v]]
      BY <3>1 DEF ClaimsAreExclusive
    <3>3. claim[v] # c
      BY <1>1, <3>1, <3>2 DEF Owns
    <3>4. QED
      BY <3>1, <3>2, <3>3 DEF Owns
  <2>3. QED
    BY <2>1, <2>2
<1>4. ASSUME NEW w \in Workers, WorkerStep(w) \/ Fault(w) \/ Abandon(w)
      PROVE  pc[v] # "idle" /\ Owns(v)
  <2>1. Frame(w)
    BY <1>4, StepFrame
  <2>2. pc[v] # "idle" /\ claim'[v] = claim[v] /\ token'[v] = token[v] /\ attempts' = attempts
    BY <2>1 DEF Frame, Kept
  <2>3. \A c \in Commands : status'[c] = "processing" => status[c] = "processing"
    <3>1. ASSUME NEW s \in {"pending", "delivered", "dead_letter"}, NEW e, NEW d,
                 SettleWith(w, s, e, d)
          PROVE  \A c \in Commands : status'[c] = "processing" => status[c] = "processing"
      BY <1>1, <3>1 DEF SettleWith, SetRow, rowVars
    <3>2. CASE \/ CommitSuccess(w) \/ Reconcile(w) \/ Refuse(w) \/ RefuseUnconfirmed(w)
               \/ SettleAmbiguous(w) \/ MarkRetryOrDeadLetter(w)
      BY <3>1, <3>2 DEF CommitSuccess, Reconcile, Refuse, RefuseUnconfirmed,
         SettleAmbiguous, MarkRetryOrDeadLetter
    <3>3. CASE \/ LoadDeal(w) \/ CheckLinkage(w) \/ CheckReadiness(w) \/ CheckSnapshot(w)
               \/ FinalFence(w) \/ ProviderAccepts(w) \/ ProviderRefuses(w)
               \/ ProviderUnclear(w) \/ CatchFailure(w) \/ Fault(w) \/ Abandon(w)
      BY <3>3 DEF LoadDeal, CheckLinkage, CheckReadiness, CheckSnapshot, FinalFence,
         ProviderAccepts, ProviderRefuses, ProviderUnclear, CatchFailure, Fault, Abandon, rowVars
    <3>4. QED
      BY <1>4, <3>2, <3>3 DEF WorkerStep
  <2>4. QED
    BY <1>2, <2>2, <2>3
<1>5. ASSUME NEW c \in Commands, Submit(c) \/ ReclaimStale(c)
      PROVE  pc[v] # "idle" /\ Owns(v)
  <2>1. /\ UNCHANGED <<pc, claim, token, attempts>>
        /\ \A d \in Commands : status'[d] = "processing" => status[d] = "processing"
    BY <1>1, <1>5 DEF Submit, ReclaimStale, workerVars
  <2>2. QED
    BY <1>2, <2>1
<1>6. CASE CaseChange \/ UNCHANGED vars
  <2>1. UNCHANGED <<pc, claim, token, attempts, status>>
    BY <1>6 DEF CaseChange, ReviseApplication, ReviseCase, ToggleReady, ToggleSnapshot,
         rowVars, workerVars, vars
  <2>2. QED
    BY <1>2, <2>1
<1>7. QED
  BY <1>3, <1>4, <1>5, <1>6 DEF Next, Reclaim, Claim

\* Once the deal has an application id, a tick that starts over only reconciles.
Late == {"load", "reconcile", "thrown", "retry", "ambiguous"}

LEMMA LateStays ==
  ASSUME TypeOK, [Next]_vars, dealApp # None, NEW v \in Workers,
         pc[v] \in Late, pc'[v] # "idle"
  PROVE  pc'[v] \in Late
<1>1. pc \in [Workers -> Points]
  BY DEF TypeOK
<1>2. CASE pc'[v] = pc[v]
  BY <1>2
<1>3. ASSUME NEW w \in Workers, NEW c \in Commands, ClaimOne(w, c) PROVE pc'[v] \in Late
  BY <1>1, <1>3 DEF ClaimOne, Late
<1>4. ASSUME NEW w \in Workers \ {v}, WorkerStep(w) \/ Fault(w) \/ Abandon(w)
      PROVE  pc'[v] \in Late
  BY <1>2, <1>4, StepFrame DEF Frame, Kept
<1>5. CASE \/ CommitSuccess(v) \/ Reconcile(v) \/ Refuse(v) \/ RefuseUnconfirmed(v)
           \/ SettleAmbiguous(v) \/ MarkRetryOrDeadLetter(v) \/ Abandon(v)
  <2>1. Release(v)
    BY <1>5 DEF CommitSuccess, Reconcile, Refuse, RefuseUnconfirmed, SettleAmbiguous,
         MarkRetryOrDeadLetter, SettleWith, Abandon
  <2>2. QED
    BY <1>1, <2>1 DEF Release
<1>6. CASE LoadDeal(v) \/ CatchFailure(v) \/ Fault(v)
  BY <1>1, <1>6 DEF LoadDeal, CatchFailure, Fault, GoTo, Late
<1>7. CASE \/ CheckLinkage(v) \/ CheckReadiness(v) \/ CheckSnapshot(v) \/ FinalFence(v)
           \/ ProviderAccepts(v) \/ ProviderRefuses(v) \/ ProviderUnclear(v)
  BY <1>7 DEF CheckLinkage, CheckReadiness, CheckSnapshot, FinalFence, ProviderAccepts,
       ProviderRefuses, ProviderUnclear, Late
<1>8. ASSUME NEW c \in Commands, Submit(c) \/ ReclaimStale(c) PROVE pc' = pc
  BY <1>8 DEF Submit, ReclaimStale, workerVars
<1>9. CASE CaseChange \/ UNCHANGED vars
  BY <1>2, <1>9 DEF CaseChange, ReviseApplication, ReviseCase, ToggleReady, ToggleSnapshot,
       workerVars, vars
<1>10. QED
  BY <1>2, <1>3, <1>4, <1>5, <1>6, <1>7, <1>8, <1>9 DEF Next, Reclaim, Claim, WorkerStep

-----------------------------------------------------------------------------
(* The deal and its application *)

\* Before there is an application one command at most is open, and the deal
\* queued.  With an application nothing is open unless the processor declined it.
Filing ==
  /\ dealApp = None => \A c, d \in Commands :
                         /\ Open(c) => dealStatus = "queued"
                         /\ Open(c) /\ Open(d) => c = d
  /\ dealApp # None => \/ verdict[dealApp] = "declined"
                       \/ /\ dealStatus \in {"submitted", "approved"}
                          /\ \A c \in Commands : ~Open(c)

\* Whoever owns a row of a deal with an application does not submit it again.
OwnersLate ==
  dealApp # None => \A w \in Workers : pc[w] # "idle" /\ Owns(w) => pc[w] \in Late

\* An application id stays, and is only given to a deal that had none.
LEMMA ApplicationStays ==
  ASSUME TypeOK, ClaimsAreExclusive, OwnersLate, [Next]_vars, dealApp # None
  PROVE  dealApp' = dealApp
<1>1. ASSUME NEW w \in Workers, NEW c \in Commands, Closes(w, c) PROVE dealApp' = dealApp
  BY <1>1 DEF Closes, OwnersLate, Late
<1>2. QED
  BY <1>1, StepShows DEF Unseen, Opens

LEMMA FilingStep ==
  ASSUME TypeOK, ClaimsAreExclusive, Filing, OwnersLate, [Next]_vars, verdict' = verdict
  PROVE  Filing'
<1>1. CASE Unseen
  BY <1>1 DEF Unseen, Filing
<1>2. CASE Opens
  BY <1>2 DEF Opens, Filing, Resubmittable
<1>3. ASSUME NEW w \in Workers, NEW c \in Commands, Closes(w, c) PROVE Filing'
  <2>1. CASE dealApp = None
    <3>1. \A d \in Commands : ~Open(d)'
      BY <1>3, <2>1 DEF Closes, Filing
    <3>2. dealApp' # None => dealStatus' = "submitted"
      BY <1>3, <2>1 DEF Closes
    <3>3. QED
      BY <3>1, <3>2 DEF Filing
  <2>2. CASE dealApp # None
    BY <1>3, <2>2, ApplicationStays DEF Closes, Filing
  <2>3. QED
    BY <2>1, <2>2
<1>4. QED
  BY <1>1, <1>2, <1>3, StepShows

LEMMA OwnersStep ==
  ASSUME TypeOK, ClaimsAreExclusive, Filing, OwnersLate, [Next]_vars
  PROVE  OwnersLate'
<1> SUFFICES ASSUME dealApp' # None, NEW v \in Workers, pc'[v] # "idle", Owns(v)'
             PROVE  pc'[v] \in Late
  BY DEF OwnersLate
<1>1. CASE dealApp # None
  <2>1. pc'[v] = "load" \/ (pc[v] # "idle" /\ Owns(v))
    BY OwnsKept
  <2>2. CASE pc'[v] = "load"
    BY <2>2 DEF Late
  <2>3. CASE pc[v] # "idle" /\ Owns(v)
    BY <1>1, <2>3, LateStays DEF OwnersLate
  <2>4. QED
    BY <2>1, <2>2, <2>3
<1>2. CASE dealApp = None
  <2>1. PICK w \in Workers, c \in Commands : Closes(w, c)
    BY <1>2, StepShows DEF Unseen, Opens
  <2>2. \A d \in Commands : ~Open(d)'
    BY <1>2, <2>1 DEF Closes, Filing
  <2>3. ClaimsAreExclusive'
    BY ClaimsStep
  <2>4. claim'[v] \in Commands
    BY <2>3 DEF ClaimsAreExclusive
  <2>5. QED
    BY <2>2, <2>4 DEF Owns, Open
<1>3. QED
  BY <1>1, <1>2

-----------------------------------------------------------------------------
(* Refreshes *)

SysTyped ==
  /\ log \in Seq(Entries) /\ mid \in BOOLEAN
  /\ verdict \in [Commands -> Verdicts]
  /\ rpc \in [Refreshers -> {"idle", "observe", "poll", "apply", "fail"}]
  /\ seen \in [Refreshers -> [app: Commands \cup {None}, status: DealStatuses,
                              log: Seq(Entries), key: Nat \X BOOLEAN]]
  /\ answer \in [Refreshers -> [status: Verdicts, mid: BOOLEAN]]

\* A refresh under way was started for the application that is still the
\* deal's, with a log that names the processor; what it was told is true or was.
RefreshesTrue ==
  \A r \in Refreshers :
    /\ rpc[r] # "idle" => /\ dealApp # None /\ seen[r].app = dealApp
                          /\ Logged("submitted", seen[r].log)
    /\ rpc[r] = "apply" => /\ answer[r].status \in {"submitted", verdict[dealApp]}
                           /\ answer[r].mid => answer[r].status = "approved"

SysInv ==
  /\ TypeOK /\ SysTyped /\ ClaimsAreExclusive /\ Filing /\ OwnersLate
  /\ RefreshesTrue /\ DecisionIsReal /\ SubmissionStaysLogged

\* An entry survives an append.
LEMMA LoggedAppend ==
  ASSUME NEW s \in Seq(Entries), NEW e \in Entries, NEW x
  PROVE  /\ Append(s, e) \in Seq(Entries)
         /\ Logged(x, s) => Logged(x, Append(s, e))
         /\ Logged(e, Append(s, e))
BY DEF Logged

LEMMA NoSeenTyped ==
  NoSeen \in [app: Commands \cup {None}, status: DealStatuses,
             log: Seq(Entries), key: Nat \X BOOLEAN]
<1>1. "not_submitted" \in DealStatuses
  BY DEF DealStatuses
<1>2. << >> \in Seq(Entries)
  OBVIOUS
<1>3. <<0, TRUE>> \in Nat \X BOOLEAN
  OBVIOUS
<1>4. QED
  BY <1>1, <1>2, <1>3 DEF NoSeen

\* The end of a refresh, and a failure, leave the others as they are.
LEMMA RefreshMoves ==
  ASSUME SysTyped, NEW r \in Refreshers, EndRefresh(r) \/ RefreshTo(r, "fail")
  PROVE  /\ rpc' \in [Refreshers -> {"idle", "observe", "poll", "apply", "fail"}]
         /\ seen' \in [Refreshers -> [app: Commands \cup {None}, status: DealStatuses,
                                      log: Seq(Entries), key: Nat \X BOOLEAN]]
         /\ answer' \in [Refreshers -> [status: Verdicts, mid: BOOLEAN]]
         /\ \A q \in Refreshers \ {r} : /\ rpc'[q] = rpc[q] /\ seen'[q] = seen[q]
                                        /\ answer'[q] = answer[q]
         /\ \/ rpc'[r] = "idle"
            \/ rpc'[r] = "fail" /\ seen'[r] = seen[r]
<1>1. CASE EndRefresh(r)
  <2>1. NoSeen \in [app: Commands \cup {None}, status: DealStatuses,
                    log: Seq(Entries), key: Nat \X BOOLEAN]
    BY NoSeenTyped
  <2>2. NoAnswer \in [status: Verdicts, mid: BOOLEAN]
    BY DEF NoAnswer, Verdicts
  <2>3. QED
    BY <1>1, <2>1, <2>2 DEF EndRefresh, SysTyped
<1>2. CASE RefreshTo(r, "fail")
  BY <1>2 DEF RefreshTo, SysTyped
<1>3. QED
  BY <1>1, <1>2

-----------------------------------------------------------------------------
(* The steps of the outbox, the processor and the refreshes *)

\* An approved deal is not touched by the outbox: nothing of it is open.
LEMMA ApprovalStays ==
  ASSUME TypeOK, ClaimsAreExclusive, Filing, DecisionIsReal, [Next]_vars,
         dealStatus = "approved"
  PROVE  dealStatus' = "approved" /\ dealApp' = dealApp
<1>1. dealApp # None /\ verdict[dealApp] = "approved"
  BY DEF DecisionIsReal, Terminal
<1>2. \A c \in Commands : ~Open(c)
  BY <1>1 DEF Filing
<1>3. QED
  BY <1>2, StepShows DEF Unseen, Opens, Closes, Resubmittable

LEMMA BoardingPreserves ==
  ASSUME SysInv, [Next]_vars, UNCHANGED <<mid, verdict, refreshVars>>,
         log' = IF dealApp' # dealApp THEN Append(log, "submitted") ELSE log
  PROVE  SysInv'
<1>1. TypeOK /\ ClaimsAreExclusive /\ Filing /\ OwnersLate /\ SysTyped
  BY DEF SysInv
<1>2. TypeOK'
  BY <1>1, TypeStep
<1>3. ClaimsAreExclusive'
  BY <1>1, ClaimsStep
<1>4. Filing' /\ OwnersLate'
  BY <1>1, FilingStep, OwnersStep
<1>5. log' \in Seq(Entries) /\ SubmissionStaysLogged'
  <2>1. CASE dealApp' = dealApp
    BY <1>1, <2>1 DEF SysInv, SysTyped, SubmissionStaysLogged, Logged
  <2>2. CASE dealApp' # dealApp
    <3>1. "submitted" \in Entries /\ log \in Seq(Entries) /\ log' = Append(log, "submitted")
      BY <1>1, <2>2 DEF SysTyped, Entries
    <3>2. log' \in Seq(Entries) /\ Logged("submitted", Append(log, "submitted"))
      BY <3>1, LoggedAppend
    <3>3. QED
      BY <3>1, <3>2 DEF SubmissionStaysLogged, Logged
  <2>3. QED
    BY <2>1, <2>2
<1>6. SysTyped'
  BY <1>1, <1>5 DEF SysTyped, refreshVars
<1>7. RefreshesTrue'
  <2>1. dealApp # None => dealApp' = dealApp
    BY <1>1, ApplicationStays
  <2>2. QED
    BY <2>1 DEF SysInv, RefreshesTrue, refreshVars, Logged
<1>8. DecisionIsReal'
  <2>1. ASSUME dealStatus' \in Terminal
        PROVE  dealApp' = dealApp /\ dealStatus' = dealStatus
    BY <1>1, <2>1, StepShows DEF Unseen, Opens, Closes, Terminal, AMBIGUOUS
  <2>2. mid' => dealStatus' = "approved"
    BY <1>1, ApprovalStays DEF SysInv, DecisionIsReal
  <2>3. QED
    BY <2>1, <2>2 DEF SysInv, DecisionIsReal
<1>9. QED
  BY <1>2, <1>3, <1>4, <1>5, <1>6, <1>7, <1>8 DEF SysInv

LEMMA DecisionPreserves ==
  ASSUME SysInv, NEW c \in Commands, ProviderDecides(c)
  PROVE  SysInv'
<1>1. /\ UNCHANGED <<vars, log, mid, refreshVars>>
      /\ verdict[c] = "submitted"
      /\ \A d \in Commands \ {c} : verdict'[d] = verdict[d]
      /\ verdict' \in [Commands -> Verdicts] /\ verdict'[c] \in Terminal
  BY DEF ProviderDecides, SysInv, SysTyped, Verdicts, Terminal
<1>2. TypeOK' /\ ClaimsAreExclusive' /\ SysTyped' /\ SubmissionStaysLogged'
  BY <1>1, Zenon DEF SysInv, TypeOK, ClaimsAreExclusive, SysTyped, SubmissionStaysLogged,
     Logged, vars, dealVars, rowVars, caseVars, workerVars, refreshVars
<1>3. OwnersLate'
  BY <1>1 DEF SysInv, OwnersLate, Owns, vars, dealVars, rowVars, workerVars
<1>4. dealApp # None => verdict'[dealApp] = verdict[dealApp]
                        \/ verdict[dealApp] = "submitted"
  BY <1>1 DEF SysInv, TypeOK
<1>5. /\ dealApp' = dealApp /\ dealStatus' = dealStatus
      /\ \A d \in Commands : Open(d)' <=> Open(d)
  BY <1>1 DEF vars, dealVars, rowVars, Open
<1>6. Filing'
  BY <1>4, <1>5 DEF SysInv, Filing
<1>7. DecisionIsReal'
  BY <1>1, <1>4, <1>5 DEF SysInv, DecisionIsReal, Terminal
<1>8. RefreshesTrue'
  BY <1>1, <1>4, <1>5 DEF SysInv, RefreshesTrue, refreshVars, Logged
<1>9. QED
  BY <1>2, <1>3, <1>6, <1>7, <1>8 DEF SysInv

\* What SysInv says of the outbox, the deal and the log, without the refreshes.
DealInv ==
  /\ TypeOK /\ ClaimsAreExclusive /\ Filing /\ OwnersLate
  /\ DecisionIsReal /\ SubmissionStaysLogged

LEMMA DealInvKept ==
  ASSUME DealInv, UNCHANGED <<vars, mid, verdict>>,
         log' = log \/ Logged("submitted", log')
  PROVE  DealInv'
<1>1. TypeOK' /\ ClaimsAreExclusive' /\ DecisionIsReal'
  BY Zenon DEF DealInv, TypeOK, ClaimsAreExclusive, DecisionIsReal,
     vars, dealVars, rowVars, caseVars, workerVars
<1>2. Filing'
  <2>1. /\ dealApp' = dealApp /\ dealStatus' = dealStatus
        /\ \A d \in Commands : Open(d)' <=> Open(d)
    BY DEF vars, dealVars, rowVars, Open
  <2>2. QED
    BY <2>1 DEF DealInv, Filing
<1>3. OwnersLate'
  BY DEF DealInv, OwnersLate, Owns, vars, dealVars, rowVars, workerVars
<1>4. SubmissionStaysLogged'
  BY DEF DealInv, SubmissionStaysLogged, Logged, vars, dealVars
<1>5. QED
  BY <1>1, <1>2, <1>3, <1>4 DEF DealInv

\* A read, a poll or the end of a refresh.
LEMMA LookPreserves ==
  ASSUME SysInv, NEW r \in Refreshers,
         \/ StartRefresh(r) \/ ObserveCase(r) \/ PollAnswers(r)
         \/ RefreshFails(r) \/ RefreshDies(r)
  PROVE  SysInv'
<1>1. /\ UNCHANGED <<vars, log, mid, verdict>> /\ UNCHANGED dealApp
      /\ TypeOK /\ SysTyped /\ RefreshesTrue
  BY DEF StartRefresh, ObserveCase, PollAnswers, RefreshFails, RefreshDies, SysInv,
     vars, dealVars
<1>2. DealInv'
  BY <1>1, DealInvKept DEF SysInv, DealInv
<1>3. CASE EndRefresh(r) \/ RefreshTo(r, "fail")
  <2>1. SysTyped'
    BY <1>1, <1>3, RefreshMoves DEF SysTyped
  <2>2. \/ rpc'[r] = "idle"
        \/ rpc'[r] = "fail" /\ seen'[r] = seen[r] /\ rpc[r] # "idle"
    BY <1>3, RefreshMoves, <1>1
       DEF StartRefresh, ObserveCase, PollAnswers, RefreshFails, RefreshDies, EndRefresh, SysTyped
  <2>3. \A q \in Refreshers \ {r} : /\ rpc'[q] = rpc[q] /\ seen'[q] = seen[q]
                                    /\ answer'[q] = answer[q]
    BY <1>1, <1>3, RefreshMoves
  <2>4. RefreshesTrue'
    BY <1>1, <2>2, <2>3 DEF RefreshesTrue, Logged
  <2>5. QED
    BY <1>2, <2>1, <2>4 DEF SysInv, DealInv
<1>4. CASE StartRefresh(r)
  <2>1. SysTyped'
    <3>1. NoSeen.key \in Nat \X BOOLEAN
      BY DEF NoSeen
    <3>2. [app |-> dealApp, status |-> dealStatus, log |-> log, key |-> NoSeen.key]
            \in [app: Commands \cup {None}, status: DealStatuses,
                 log: Seq(Entries), key: Nat \X BOOLEAN]
      BY <1>1, <3>1 DEF TypeOK, SysTyped
    <3>3. QED
      BY <1>1, <1>4, <3>2 DEF StartRefresh, SysTyped
  <2>2. RefreshesTrue'
    <3>1. /\ rpc'[r] = "observe" /\ seen'[r].app = dealApp /\ seen'[r].log = log
          /\ dealApp # None /\ Logged("submitted", log)
      BY <1>1, <1>4 DEF StartRefresh, SysTyped
    <3>2. \A q \in Refreshers \ {r} : /\ rpc'[q] = rpc[q] /\ seen'[q] = seen[q]
                                      /\ answer'[q] = answer[q]
      BY <1>1, <1>4 DEF StartRefresh, SysTyped
    <3>3. QED
      BY <1>1, <3>1, <3>2 DEF RefreshesTrue, Logged
  <2>3. QED
    BY <1>2, <2>1, <2>2 DEF SysInv, DealInv
<1>5. CASE ObserveCase(r) /\ ~EndRefresh(r)
  <2>1. /\ seen' = [seen EXCEPT ![r].key = CaseKey] /\ rpc' = [rpc EXCEPT ![r] = "poll"]
        /\ answer' = answer /\ rpc[r] = "observe"
    BY <1>5 DEF ObserveCase
  <2>2. CaseKey \in Nat \X BOOLEAN
    BY <1>1 DEF TypeOK, CaseKey
  <2>3. SysTyped'
    BY <1>1, <2>1, <2>2 DEF SysTyped
  <2>4. RefreshesTrue'
    <3>1. /\ \A q \in Refreshers : seen'[q].app = seen[q].app /\ seen'[q].log = seen[q].log
          /\ \A q \in Refreshers \ {r} : rpc'[q] = rpc[q]
          /\ rpc'[r] = "poll"
      BY <1>1, <2>1 DEF SysTyped
    <3>2. QED
      BY <1>1, <2>1, <3>1 DEF RefreshesTrue, Logged
  <2>5. QED
    BY <1>2, <2>3, <2>4 DEF SysInv, DealInv
<1>6. CASE PollAnswers(r)
  <2>1. PICK m \in BOOLEAN :
          /\ m => verdict[seen[r].app] = "approved"
          /\ answer' = [answer EXCEPT ![r] = [status |-> verdict[seen[r].app], mid |-> m]]
    BY <1>6 DEF PollAnswers
  <2>2. /\ rpc[r] = "poll" /\ rpc' = [rpc EXCEPT ![r] = "apply"] /\ seen' = seen
        /\ seen[r].app = dealApp /\ dealApp \in Commands
    BY <1>1, <1>6 DEF PollAnswers, RefreshesTrue, TypeOK
  <2>3. SysTyped'
    BY <1>1, <2>1, <2>2 DEF SysTyped
  <2>4. RefreshesTrue'
    <3>1. /\ answer'[r].status = verdict[dealApp]
          /\ answer'[r].mid => verdict[dealApp] = "approved"
          /\ \A q \in Refreshers \ {r} : rpc'[q] = rpc[q] /\ answer'[q] = answer[q]
      BY <1>1, <2>1, <2>2 DEF SysTyped
    <3>2. QED
      BY <1>1, <2>2, <3>1 DEF RefreshesTrue, Logged
  <2>5. QED
    BY <1>2, <2>3, <2>4 DEF SysInv, DealInv
<1>7. QED
  BY <1>3, <1>4, <1>5, <1>6 DEF RefreshFails, RefreshDies

\* A failure is appended to the log that the refresh read, which names the
\* processor: whatever it overwrites, that entry stays.
LEMMA FailurePreserves ==
  ASSUME SysInv, NEW r \in Refreshers, RecordFailure(r)
  PROVE  SysInv'
<1>1. /\ UNCHANGED <<vars, mid, verdict>> /\ UNCHANGED dealApp
      /\ rpc[r] = "fail" /\ EndRefresh(r) /\ log' = Append(seen[r].log, "failed")
      /\ SysTyped /\ RefreshesTrue
  BY DEF RecordFailure, SysInv, vars, dealVars
<1>2. seen[r].log \in Seq(Entries) /\ Logged("submitted", seen[r].log)
  BY <1>1 DEF SysTyped, RefreshesTrue
<1>3. log' \in Seq(Entries) /\ Logged("submitted", log')
  <2>1. "failed" \in Entries
    BY DEF Entries
  <2>2. QED
    BY <1>1, <1>2, <2>1, LoggedAppend DEF Logged
<1>4. DealInv'
  BY <1>1, <1>3, DealInvKept DEF SysInv, DealInv
<1>5. SysTyped'
  BY <1>1, <1>3, RefreshMoves DEF SysTyped
<1>6. rpc'[r] = "idle"
  BY <1>1 DEF EndRefresh, SysTyped
<1>7. \A q \in Refreshers \ {r} : /\ rpc'[q] = rpc[q] /\ seen'[q] = seen[q]
                                  /\ answer'[q] = answer[q]
  BY <1>1, RefreshMoves
<1>8. RefreshesTrue'
  BY <1>1, <1>6, <1>7 DEF RefreshesTrue, Logged
<1>9. QED
  BY <1>4, <1>5, <1>8 DEF SysInv, DealInv

\* An observation that is applied is the processor's and does not undo a
\* decision.
LEMMA ApplyPreserves ==
  ASSUME SysInv, NEW r \in Refreshers, Apply(r)
  PROVE  SysInv'
<1>1. /\ TypeOK /\ SysTyped /\ RefreshesTrue /\ DecisionIsReal
      /\ rpc[r] = "apply" /\ EndRefresh(r)
      /\ UNCHANGED <<dealApp, monitored, rowVars, caseVars, held, workerVars, verdict>>
  BY DEF Apply, SysInv
<1>2. /\ dealApp \in Commands /\ dealApp # None
      /\ seen[r].log \in Seq(Entries) /\ Logged("submitted", seen[r].log)
      /\ answer[r].status \in Verdicts /\ answer[r].mid \in BOOLEAN
      /\ answer[r].status \in {"submitted", verdict[dealApp]}
      /\ answer[r].mid => answer[r].status = "approved"
  BY <1>1 DEF SysTyped, RefreshesTrue, TypeOK
<1>3. \/ UNCHANGED <<dealStatus, log, mid>>
      \/ /\ ~Conflicts(r) /\ dealStatus' = answer[r].status
         /\ log' = Append(seen[r].log, "observed") /\ mid' = (mid \/ answer[r].mid)
  BY DEF Apply
<1>4. log' \in Seq(Entries) /\ (log' = log \/ Logged("submitted", log'))
  <2>1. "observed" \in Entries
    BY DEF Entries
  <2>2. Append(seen[r].log, "observed") \in Seq(Entries)
        /\ Logged("submitted", Append(seen[r].log, "observed"))
    BY <1>2, <2>1, LoggedAppend
  <2>3. QED
    BY <1>1, <1>3, <2>2 DEF SysTyped, Logged
<1>5. TypeOK'
  <2>1. dealStatus' \in DealStatuses
    BY <1>1, <1>2, <1>3 DEF TypeOK, Verdicts, DealStatuses
  <2>2. QED
    BY <1>1, <2>1, Zenon DEF TypeOK, rowVars, caseVars, workerVars
<1>6. ClaimsAreExclusive'
  BY <1>1, Zenon DEF SysInv, ClaimsAreExclusive, rowVars, workerVars
<1>7. OwnersLate'
  BY <1>1 DEF SysInv, OwnersLate, Owns, rowVars, workerVars
<1>8. SubmissionStaysLogged'
  BY <1>1, <1>4 DEF SysInv, SubmissionStaysLogged, Logged
<1>9. Filing'
  <2>1. \A d \in Commands : Open(d)' <=> Open(d)
    BY <1>1 DEF rowVars, Open
  <2>2. verdict[dealApp] # "declined" => dealStatus' \in {"submitted", "approved"}
    BY <1>2, <1>3 DEF SysInv, Filing, Verdicts
  <2>3. QED
    BY <1>1, <1>2, <2>1, <2>2 DEF SysInv, Filing
<1>10. DecisionIsReal'
  <2>1. CASE UNCHANGED <<dealStatus, log, mid>>
    BY <1>1, <2>1 DEF DecisionIsReal
  <2>2. CASE ~Conflicts(r) /\ dealStatus' = answer[r].status /\ mid' = (mid \/ answer[r].mid)
    <3>1. dealStatus' \in Terminal => verdict[dealApp] = dealStatus'
      BY <1>2, <2>2 DEF Terminal
    <3>2. mid' => dealStatus' = "approved"
      BY <1>1, <1>2, <2>2 DEF DecisionIsReal, Conflicts, Terminal
    <3>3. QED
      BY <1>1, <1>2, <3>1, <3>2 DEF DecisionIsReal
  <2>3. QED
    BY <1>3, <2>1, <2>2
<1>11. SysTyped'
  BY <1>1, <1>3, <1>4, RefreshMoves DEF SysTyped
<1>12. RefreshesTrue'
  <2>1. rpc'[r] = "idle"
    BY <1>1 DEF EndRefresh, SysTyped
  <2>2. \A q \in Refreshers \ {r} : /\ rpc'[q] = rpc[q] /\ seen'[q] = seen[q]
                                    /\ answer'[q] = answer[q]
    BY <1>1, RefreshMoves
  <2>3. QED
    BY <1>1, <2>1, <2>2 DEF RefreshesTrue, Logged
<1>13. QED
  BY <1>5, <1>6, <1>7, <1>8, <1>9, <1>10, <1>11, <1>12 DEF SysInv

LEMMA SysStep == SysInv /\ [SysNext]_sysVars => SysInv'
<1> SUFFICES ASSUME SysInv, [SysNext]_sysVars PROVE SysInv'
  OBVIOUS
<1>1. CASE BoardingStep
  BY <1>1, BoardingPreserves DEF BoardingStep
<1>2. ASSUME NEW c \in Commands, ProviderDecides(c) PROVE SysInv'
  BY <1>2, DecisionPreserves
<1>3. ASSUME NEW r \in Refreshers, RefreshStep(r) PROVE SysInv'
  BY <1>3, LookPreserves, FailurePreserves, ApplyPreserves DEF RefreshStep
<1>4. CASE UNCHANGED sysVars
  <2>1. UNCHANGED <<vars, mid, verdict, log, refreshVars>>
    BY <1>4 DEF sysVars
  <2>2. dealApp' = dealApp
    BY <2>1 DEF vars, dealVars
  <2>3. QED
    BY <2>1, <2>2, BoardingPreserves
<1>5. QED
  BY <1>1, <1>2, <1>3, <1>4 DEF SysNext

LEMMA SysStart == SysInit => SysInv
<1> SUFFICES ASSUME SysInit PROVE SysInv
  OBVIOUS
<1>1. /\ Init /\ log = << >> /\ mid = FALSE
      /\ verdict = [c \in Commands |-> "submitted"]
      /\ rpc = [r \in Refreshers |-> "idle"]
      /\ seen = [r \in Refreshers |-> NoSeen]
      /\ answer = [r \in Refreshers |-> NoAnswer]
  BY DEF SysInit
<1>2. TypeOK
  BY <1>1, InitTyped
<1>3. ClaimsAreExclusive
  BY <1>1 DEF Init, ClaimsAreExclusive
<1>4. Filing
  BY <1>1 DEF Init, Filing, Open
<1>5. OwnersLate /\ DecisionIsReal /\ SubmissionStaysLogged
  BY <1>1 DEF Init, OwnersLate, DecisionIsReal, SubmissionStaysLogged, Terminal
<1>6. SysTyped
  <2>1. NoSeen \in [app: Commands \cup {None}, status: DealStatuses,
                    log: Seq(Entries), key: Nat \X BOOLEAN]
    BY NoSeenTyped
  <2>2. NoAnswer \in [status: Verdicts, mid: BOOLEAN]
    BY DEF NoAnswer, Verdicts
  <2>3. << >> \in Seq(Entries) /\ "submitted" \in Verdicts
    BY DEF Verdicts
  <2>4. QED
    BY <1>1, <2>1, <2>2, <2>3 DEF SysTyped
<1>7. RefreshesTrue
  BY <1>1 DEF RefreshesTrue
<1>8. QED
  BY <1>2, <1>3, <1>4, <1>5, <1>6, <1>7 DEF SysInv

LEMMA SysHolds == SysSpec => []SysInv
  BY SysStart, SysStep, PTL DEF SysSpec

\* A recorded decision is the processor's on the application that the deal
\* names, and a MID is only on an approved deal, however refreshes overlap with
\* each other, with retries and with new submissions (setSubmittedFields and
\* the application of an observation in performBoardingStatusRefresh).
THEOREM DecisionsAreReal == SysSpec => []DecisionIsReal
  BY SysHolds, PTL DEF SysInv

\* The log entry that names the processor survives the refreshes that write
\* back a log they read earlier (recordBoardingFailureAndAlert).
THEOREM SubmissionsStayLogged == SysSpec => []SubmissionStaysLogged
  BY SysHolds, PTL DEF SysInv

\* Nothing moves an approved deal: no late observation, because it conflicts,
\* and no settlement, because the outbox has nothing open.
THEOREM ApprovalsFinal == SysSpec => ApprovalIsFinal
<1>1. SysInv /\ [SysNext]_sysVars =>
        [dealStatus = "approved" => dealStatus' = "approved"]_sysVars
  <2> SUFFICES ASSUME SysInv, SysNext, dealStatus = "approved"
               PROVE  dealStatus' = "approved"
    OBVIOUS
  <2>1. CASE BoardingStep
    BY <2>1, ApprovalStays DEF BoardingStep, SysInv
  <2>2. ASSUME NEW c \in Commands, ProviderDecides(c) PROVE dealStatus' = dealStatus
    BY <2>2 DEF ProviderDecides, vars, dealVars
  <2>3. ASSUME NEW r \in Refreshers, RefreshStep(r) PROVE dealStatus' = "approved"
    <3>1. CASE Apply(r)
      BY <3>1 DEF Apply, Conflicts, Terminal
    <3>2. CASE ~Apply(r)
      BY <2>3, <3>2 DEF RefreshStep, StartRefresh, ObserveCase, PollAnswers, RefreshFails,
         RecordFailure, RefreshDies, vars, dealVars
    <3>3. QED
      BY <3>1, <3>2
  <2>4. QED
    BY <2>1, <2>2, <2>3 DEF SysNext
<1>2. QED
  BY <1>1, SysHolds, PTL DEF SysSpec, ApprovalIsFinal

\* A step of the processor or of a refresh changes nothing of the outbox that
\* the marker discipline is about.
LEMMA OutsideOutbox ==
  ASSUME IInv, AtMostOneApplication,
         UNCHANGED <<dealApp, monitored, rowVars, caseVars, held, workerVars>>
  PROVE  MarkerDiscipline' /\ AtMostOneApplication'
<1>1. UNCHANGED <<status, attempts, lastError, held, pc, claim, token, sawMarker>>
  BY DEF rowVars, workerVars
<1>2. QED
  BY <1>1 DEF IInv, AtMostOneApplication, MarkerDiscipline, SendersAlone, MarkerKept,
     MarkerSeen, RetryIsSafe, Reached, Settled, Owns

\* The refreshes break nothing that the outbox promises about applications:
\* with them too the processor holds at most one application per command
\* (the DISPATCH_STARTED marker of deal-boarding-outbox-worker).
THEOREM OneApplicationInSystem == SysSpec => []AtMostOneApplication
<1>1. SysInit => MarkerDiscipline /\ AtMostOneApplication
  BY InitHolds DEF SysInit, Init, MarkerDiscipline,
     SendersAlone, MarkerKept, MarkerSeen, RetryIsSafe, Reached, BeforeFence
<1>2. SysInv /\ MarkerDiscipline /\ AtMostOneApplication /\ [SysNext]_sysVars
        => MarkerDiscipline' /\ AtMostOneApplication'
  <2> SUFFICES ASSUME SysInv, IInv, AtMostOneApplication, [SysNext]_sysVars
               PROVE  MarkerDiscipline' /\ AtMostOneApplication'
    BY DEF SysInv, IInv
  <2>1. CASE BoardingStep
    BY <2>1, MarkerStep, ApplicationsStep DEF BoardingStep
  <2>2. CASE ~BoardingStep
    <3>1. UNCHANGED <<dealApp, monitored, rowVars, caseVars, held, workerVars>>
      BY <2>2 DEF SysNext, sysVars, ProviderDecides, RefreshStep, StartRefresh, ObserveCase,
         PollAnswers, Apply, RefreshFails, RecordFailure, RefreshDies, vars, dealVars
    <3>2. QED
      BY <3>1, OutsideOutbox
  <2>3. QED
    BY <2>1, <2>2
<1>3. QED
  BY <1>1, <1>2, SysHolds, PTL DEF SysSpec

-----------------------------------------------------------------------------
(* Queued deals *)

\* The application on file is the one of a delivered row, and a worker that is
\* about to reconcile has found one.
FiledIsDelivered ==
  /\ dealApp # None => status[dealApp] = "delivered"
  /\ \A w \in Workers : pc[w] = "reconcile" => dealApp # None

CarriedInv == FiledIsDelivered /\ QueuedIsCarried

\* What the settlement of a claim leaves of a queued deal: its own row is one of
\* the three that account for it, unless the claim was lost.
LEMMA SettlementCarries ==
  ASSUME SysInv, CarriedInv, NEW w \in Workers,
         \/ CommitSuccess(w) \/ Reconcile(w) \/ Refuse(w)
         \/ RefuseUnconfirmed(w) \/ SettleAmbiguous(w) \/ MarkRetryOrDeadLetter(w),
         verdict' = verdict, dealStatus' = "queued"
  PROVE  QueuedIsCarried'
<1>1. PICK c \in Commands : c = claim[w] /\ pc[w] # "idle"
  BY DEF CommitSuccess, Reconcile, Refuse, RefuseUnconfirmed, SettleAmbiguous,
         MarkRetryOrDeadLetter, SysInv, ClaimsAreExclusive
<1>2. CASE ~Owns(w)
  <2>1. UNCHANGED <<status, lastError, dealStatus, dealApp>>
    BY <1>2 DEF CommitSuccess, Reconcile, Refuse, RefuseUnconfirmed, SettleAmbiguous,
           MarkRetryOrDeadLetter, SettleWith, rowVars
  <2>2. QED
    BY <2>1 DEF CarriedInv, QueuedIsCarried, ReconciledAfterDecline, Open, Dead
<1>3. CASE Owns(w)
  <2>1. /\ status \in [Commands -> RowStatuses] /\ lastError \in [Commands -> RowErrors]
        /\ Open(c) /\ status[c] = "processing"
    BY <1>1, <1>3 DEF SysInv, TypeOK, Owns, Open
  <2>2. ~(CommitSuccess(w) \/ Refuse(w) \/ SettleAmbiguous(w))
    BY <1>3 DEF CommitSuccess, Refuse, SettleAmbiguous, SettleWith, AMBIGUOUS
  <2>3. CASE Reconcile(w)
    <3>1. dealApp' = dealApp /\ status'[c] = "delivered" /\ dealApp # None
      BY <1>1, <1>3, <2>1, <2>3 DEF Reconcile, SettleWith, SetRow, CarriedInv, FiledIsDelivered
    <3>2. dealApp # c /\ verdict[dealApp] = "declined"
      BY <2>1, <3>1 DEF CarriedInv, FiledIsDelivered, SysInv, Filing
    <3>3. QED
      BY <3>1, <3>2 DEF QueuedIsCarried, ReconciledAfterDecline
  <2>4. CASE RefuseUnconfirmed(w)
    <3>1. status'[c] = "dead_letter" /\ lastError'[c] = SNAPSHOT_REQUIRED
      BY <1>1, <1>3, <2>1, <2>4 DEF RefuseUnconfirmed, SettleWith, SetRow
    <3>2. QED
      BY <3>1 DEF QueuedIsCarried, Dead
  <2>5. CASE MarkRetryOrDeadLetter(w)
    <3>1. status'[c] = "pending"
      BY <1>1, <1>3, <2>1, <2>5 DEF MarkRetryOrDeadLetter, SettleWith, SetRow
    <3>2. QED
      BY <3>1 DEF QueuedIsCarried, Open
  <2>6. QED
    BY <2>2, <2>3, <2>4, <2>5
<1>4. QED
  BY <1>2, <1>3

\* The application on file stays the one of a delivered row.
LEMMA FiledStep ==
  ASSUME SysInv, FiledIsDelivered, [Next]_vars
  PROVE  FiledIsDelivered'
<1>1. TypeOK /\ ClaimsAreExclusive /\ OwnersLate
  BY DEF SysInv
<1>2. dealApp # None => dealApp' = dealApp
  BY <1>1, ApplicationStays
<1>3. ASSUME dealApp' # None PROVE status'[dealApp'] = "delivered"
  <2>1. CASE dealApp # None
    BY <1>1, <1>2, <2>1, SettledStays DEF FiledIsDelivered, Settled, TypeOK
  <2>2. CASE dealApp = None
    <3>1. PICK w \in Workers, c \in Commands : Closes(w, c) /\ dealApp' = c /\ pc[w] = "commit"
      BY <1>1, <1>3, <2>2, StepShows DEF Unseen, Opens, Closes
    <3>2. \E v \in Workers : CommitSuccess(v) /\ Owns(v)
      BY <1>3, <2>2 DEF Next, Reclaim, Claim, WorkerStep, Submit, ReclaimStale, ClaimOne,
         LoadDeal, CheckLinkage, CheckReadiness, CheckSnapshot, FinalFence, ProviderAccepts,
         ProviderRefuses, ProviderUnclear, CommitSuccess, Reconcile, Refuse, RefuseUnconfirmed,
         SettleAmbiguous, MarkRetryOrDeadLetter, CatchFailure, Fault, Abandon, CaseChange,
         ReviseApplication, ReviseCase, ToggleReady, ToggleSnapshot, dealVars, vars
    <3>3. PICK v \in Workers : CommitSuccess(v) /\ Owns(v)
      BY <3>2
    <3>4. dealApp' = claim[v] /\ status' = [status EXCEPT ![claim[v]] = "delivered"]
      BY <3>3 DEF CommitSuccess, SettleWith, SetRow
    <3>5. QED
      BY <1>1, <3>1, <3>4 DEF TypeOK
  <2>3. QED
    BY <2>1, <2>2
<1>4. ASSUME NEW v \in Workers, pc'[v] = "reconcile" PROVE dealApp' # None
  <2>1. CASE pc[v] = "reconcile"
    BY <1>2, <2>1 DEF FiledIsDelivered
  <2>2. CASE pc[v] # "reconcile"
    <3>1. pc[v] = "load" /\ dealApp # None
      BY <1>1, <1>4, <2>2 DEF TypeOK, Next, Reclaim, Claim, WorkerStep, Submit, ReclaimStale,
         ClaimOne, LoadDeal, CheckLinkage, CheckReadiness, CheckSnapshot, FinalFence,
         ProviderAccepts, ProviderRefuses, ProviderUnclear, CommitSuccess, Reconcile, Refuse,
         RefuseUnconfirmed, SettleAmbiguous, MarkRetryOrDeadLetter, CatchFailure, Fault,
         Abandon, CaseChange, ReviseApplication, ReviseCase, ToggleReady, ToggleSnapshot,
         workerVars, vars, GoTo, Release, SettleWith
    <3>2. QED
      BY <1>2, <3>1
  <2>3. QED
    BY <2>1, <2>2
<1>5. QED
  BY <1>3, <1>4 DEF FiledIsDelivered

\* A step of the outbox leaves a queued deal accounted for.
LEMMA BoardingCarries ==
  ASSUME SysInv, CarriedInv, [Next]_vars, verdict' = verdict, dealStatus' = "queued"
  PROVE  QueuedIsCarried'
<1>1. TypeOK /\ ClaimsAreExclusive /\ OwnersLate
  BY DEF SysInv
<1>2. ASSUME NEW c \in Commands, Submit(c) PROVE QueuedIsCarried'
  BY <1>1, <1>2 DEF Submit, TypeOK, QueuedIsCarried, Open
<1>3. ASSUME dealStatus' = dealStatus, \A c \in Commands : Open(c) => Open(c)'
      PROVE  QueuedIsCarried'
  <2>1. PICK c \in Commands : \/ Open(c)
                             \/ Dead(c, {SNAPSHOT_REQUIRED})
                             \/ ReconciledAfterDecline(c)
    BY <1>3 DEF CarriedInv, QueuedIsCarried
  <2>2. CASE Open(c)
    BY <1>3, <2>2 DEF QueuedIsCarried
  <2>3. CASE Dead(c, {SNAPSHOT_REQUIRED})
    <3>1. Dead(c, {SNAPSHOT_REQUIRED})'
      BY <1>1, <2>3, SettledStays DEF Settled, Dead
    <3>2. QED
      BY <3>1 DEF QueuedIsCarried
  <2>4. CASE ReconciledAfterDecline(c)
    <3>1. ReconciledAfterDecline(c)'
      BY <1>1, <2>4, SettledStays, ApplicationStays DEF Settled, ReconciledAfterDecline
    <3>2. QED
      BY <3>1 DEF QueuedIsCarried
  <2>5. QED
    BY <2>1, <2>2, <2>3, <2>4
<1>4. CASE \/ \E c \in Commands : ReclaimStale(c)
           \/ \E w \in Workers, c \in Commands : ClaimOne(w, c)
  BY <1>1, <1>3, <1>4 DEF ReclaimStale, ClaimOne, Open, TypeOK, dealVars
<1>5. ASSUME UNCHANGED <<dealVars, status>> PROVE QueuedIsCarried'
  BY <1>3, <1>5 DEF Open, dealVars
<1>6. ASSUME NEW w \in Workers,
             \/ LoadDeal(w) \/ CheckLinkage(w) \/ CheckReadiness(w) \/ CheckSnapshot(w)
             \/ FinalFence(w) \/ ProviderAccepts(w) \/ ProviderRefuses(w) \/ ProviderUnclear(w)
             \/ CatchFailure(w) \/ Fault(w) \/ Abandon(w)
      PROVE  UNCHANGED <<dealVars, status>>
  BY <1>6 DEF LoadDeal, CheckLinkage, CheckReadiness, CheckSnapshot, FinalFence,
       ProviderAccepts, ProviderRefuses, ProviderUnclear, CatchFailure, Fault, Abandon, rowVars
<1>7. CASE CaseChange \/ UNCHANGED vars
  BY <1>5, <1>7 DEF CaseChange, ReviseApplication, ReviseCase, ToggleReady, ToggleSnapshot,
       rowVars, vars
<1>8. QED
  BY <1>2, <1>4, <1>5, <1>6, <1>7, SettlementCarries
     DEF Next, Reclaim, Claim, WorkerStep

\* A queued deal has an open command; or one that died for lack of an activation
\* snapshot (RefuseUnconfirmed); or it was submitted again after a decline, and
\* the worker reconciled the new row with the declined application
\* (handleProcessorSubmit), leaving the deal as it found it.
THEOREM QueuedHolds == SysSpec => []QueuedIsCarried
<1>1. SysInit => CarriedInv
  BY DEF SysInit, Init, CarriedInv, FiledIsDelivered, QueuedIsCarried
<1>2. SysInv /\ CarriedInv /\ [SysNext]_sysVars => CarriedInv'
  <2> SUFFICES ASSUME SysInv, CarriedInv, [SysNext]_sysVars PROVE CarriedInv'
    OBVIOUS
  <2>1. CASE BoardingStep
    <3>1. [Next]_vars /\ verdict' = verdict
      BY <2>1 DEF BoardingStep
    <3>2. FiledIsDelivered'
      BY <3>1, FiledStep DEF CarriedInv
    <3>3. QueuedIsCarried'
      BY <3>1, BoardingCarries DEF QueuedIsCarried
    <3>4. QED
      BY <3>2, <3>3 DEF CarriedInv
  <2>2. CASE ~BoardingStep
    <3>1. UNCHANGED <<dealApp, status, lastError, pc>>
      BY <2>2 DEF SysNext, sysVars, ProviderDecides, RefreshStep, StartRefresh, ObserveCase,
         PollAnswers, Apply, RefreshFails, RecordFailure, RefreshDies, vars, dealVars, rowVars,
         workerVars
    <3>2. dealStatus' = "queued" => dealStatus = "queued"
      <4>1. ASSUME NEW r \in Refreshers, Apply(r)
            PROVE  dealStatus' \in Verdicts \cup {dealStatus}
        BY <4>1 DEF Apply, SysInv, SysTyped
      <4>2. QED
        BY <2>2, <4>1 DEF SysNext, sysVars, ProviderDecides, RefreshStep, StartRefresh,
           ObserveCase, PollAnswers, RefreshFails, RecordFailure, RefreshDies, vars, dealVars,
           Verdicts
    <3>3. \A c \in Commands : verdict[c] = "declined" => verdict'[c] = "declined"
      BY <2>2 DEF SysNext, sysVars, ProviderDecides, RefreshStep, StartRefresh, ObserveCase,
         PollAnswers, Apply, RefreshFails, RecordFailure, RefreshDies, SysInv, SysTyped
    <3>4. FiledIsDelivered'
      BY <3>1 DEF CarriedInv, FiledIsDelivered
    <3>5. QueuedIsCarried'
      BY <3>1, <3>2, <3>3 DEF CarriedInv, QueuedIsCarried, ReconciledAfterDecline, Open, Dead,
         SysInv, TypeOK
    <3>6. QED
      BY <3>4, <3>5 DEF CarriedInv
  <2>3. QED
    BY <2>1, <2>2
<1>3. QED
  BY <1>1, <1>2, SysHolds, PTL DEF SysSpec, CarriedInv
=============================================================================
