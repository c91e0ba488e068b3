------------------------- MODULE DealBoardingProofs -------------------------
(***************************************************************************)
(* Proofs about DealBoarding, for any set of commands and processes and    *)
(* any number of attempts: type correctness, the exclusiveness of claims,  *)
(* the marker discipline and, from it, at most one application per         *)
(* command.  Then DealBoarding implements BoardingPromise: every step of   *)
(* the route, the worker, the processor and the case accepts, takes or     *)
(* ends a command as promised, or changes nothing that was promised.  With *)
(* it, the safety invariants that speak of how commands end.               *)
(***************************************************************************)
EXTENDS DealBoarding, TLAPS

-----------------------------------------------------------------------------
(* Types *)

LocalsTyped ==
  /\ pc \in [Workers -> Points]
  /\ claim \in [Workers -> Commands \cup {None}]
  /\ token \in [Workers -> Nat]
  /\ sawMarker \in [Workers -> BOOLEAN]
  /\ permanent \in [Workers -> BOOLEAN]

\* Moving on to a program point keeps the types of the local state.
LEMMA GoToTyped ==
  ASSUME TypeOK, NEW w \in Workers, NEW point \in Points, GoTo(w, point)
  PROVE  LocalsTyped'
BY DEF TypeOK, GoTo, LocalsTyped

\* So does the end of a tick.
LEMMA ReleaseTyped ==
  ASSUME TypeOK, NEW w \in Workers, Release(w)
  PROVE  LocalsTyped'
BY DEF TypeOK, Release, Points, LocalsTyped

\* A settlement writes a row state, a row error and a deal status, if anything.
LEMMA SettleTyped ==
  ASSUME TypeOK, NEW w \in Workers,
         NEW s \in RowStatuses, NEW e \in RowErrors, NEW d \in DealStatuses,
         SettleWith(w, s, e, d),
         dealApp' \in Commands \cup {None}, monitored' \in BOOLEAN
  PROVE  TypeOK'
BY ReleaseTyped DEF TypeOK, LocalsTyped, SettleWith, SetRow, rowVars, caseVars

\* The initial state is typed.
LEMMA InitTyped == Init => TypeOK
<1> SUFFICES ASSUME Init PROVE TypeOK
  OBVIOUS
<1> USE DEF Init
<1>1. /\ dealStatus \in DealStatuses /\ dealApp \in Commands \cup {None}
      /\ monitored \in BOOLEAN
  BY DEF DealStatuses
<1>2. status \in [Commands -> RowStatuses] /\ attempts \in [Commands -> Nat]
  BY DEF RowStatuses
<1>3. lastError \in [Commands -> RowErrors]
  BY DEF RowErrors
<1>4. captured \in [Commands -> Captures]
  BY DEF Captures
<1>5. /\ appRev \in Nat /\ caseRev \in Nat
      /\ ready \in BOOLEAN /\ snapshot \in BOOLEAN
      /\ held \in [Commands -> Nat]
  OBVIOUS
<1>6. LocalsTyped
  BY DEF LocalsTyped, Points
<1>7. QED
  BY <1>1, <1>2, <1>3, <1>4, <1>5, <1>6 DEF TypeOK, LocalsTyped

\* A step of a tick that only reads moves the process to another point.
LEMMA ReadTyped ==
  ASSUME TypeOK, NEW w \in Workers,
         \/ LoadDeal(w) \/ CheckLinkage(w) \/ CheckReadiness(w)
         \/ CheckSnapshot(w) \/ CatchFailure(w) \/ Fault(w) \/ Abandon(w)
  PROVE  TypeOK'
<1>1. UNCHANGED <<dealVars, rowVars, caseVars, held>>
  BY DEF LoadDeal, CheckLinkage, CheckReadiness, CheckSnapshot, CatchFailure,
         Fault, Abandon
<1>2. LocalsTyped'
  <2>1. CASE Abandon(w)
    BY <2>1, ReleaseTyped DEF Abandon
  <2>2. CASE ~Abandon(w)
    <3>1. \E point \in Points : GoTo(w, point)
      BY <2>2 DEF LoadDeal, CheckLinkage, CheckReadiness, CheckSnapshot,
                  CatchFailure, Fault, Points, BeforeFence, Settling
    <3>2. QED
      BY <3>1, GoToTyped
  <2>3. QED
    BY <2>1, <2>2
<1>3. QED
  BY <1>1, <1>2 DEF TypeOK, LocalsTyped, dealVars, rowVars, caseVars

\* The fence either reads and moves on, gives up, or writes the marker.
LEMMA FenceTyped ==
  ASSUME TypeOK, NEW w \in Workers, FinalFence(w)
  PROVE  TypeOK'
<1>1. LocalsTyped'
  BY GoToTyped, ReleaseTyped DEF FinalFence, Points, BeforeFence, Settling
<1>2. lastError' \in [Commands -> RowErrors]
  BY DEF FinalFence, TypeOK, rowVars, RowErrors
<1>3. QED
  BY <1>1, <1>2 DEF FinalFence, TypeOK, LocalsTyped, dealVars, rowVars, caseVars

\* The processor's answers.
LEMMA ProviderTyped ==
  ASSUME TypeOK, NEW w \in Workers,
         ProviderAccepts(w) \/ ProviderRefuses(w) \/ ProviderUnclear(w)
  PROVE  TypeOK'
<1>1. held' \in [Commands -> Nat]
  BY DEF ProviderAccepts, ProviderRefuses, ProviderUnclear, TypeOK
<1>2. LocalsTyped'
  <2>1. CASE ProviderRefuses(w)
    BY <2>1 DEF ProviderRefuses, TypeOK, LocalsTyped, Points, Settling
  <2>2. CASE ProviderAccepts(w) \/ ProviderUnclear(w)
    BY <2>2, GoToTyped DEF ProviderAccepts, ProviderUnclear, Points, Settling
  <2>3. QED
    BY <2>1, <2>2
<1>3. QED
  BY <1>1, <1>2 DEF ProviderAccepts, ProviderRefuses, ProviderUnclear, TypeOK,
                    LocalsTyped, dealVars, rowVars, caseVars

\* The settlements.
LEMMA SettlementTyped ==
  ASSUME TypeOK, NEW w \in Workers,
         \/ CommitSuccess(w) \/ Reconcile(w) \/ Refuse(w)
         \/ RefuseUnconfirmed(w) \/ SettleAmbiguous(w)
         \/ MarkRetryOrDeadLetter(w)
  PROVE  TypeOK'
<1>1. /\ dealStatus \in DealStatuses
      /\ {"submitted", "dead_letter", AMBIGUOUS} \subseteq DealStatuses
      /\ {"pending", "delivered", "dead_letter"} \subseteq RowStatuses
      /\ {"none", "error", "refused", AMBIGUOUS, SNAPSHOT_REQUIRED}
           \subseteq RowErrors
  BY DEF TypeOK, DealStatuses, RowStatuses, RowErrors
<1>2. CASE CommitSuccess(w)
  <2>1. dealApp' \in Commands \cup {None} /\ monitored' \in BOOLEAN
    BY <1>2 DEF CommitSuccess, TypeOK
  <2>2. QED
    BY <1>1, <1>2, <2>1, SettleTyped DEF CommitSuccess
<1>3. CASE Reconcile(w)
  <2>1. dealApp' \in Commands \cup {None} /\ monitored' \in BOOLEAN
    BY <1>3 DEF Reconcile, TypeOK
  <2>2. QED
    BY <1>1, <1>3, <2>1, SettleTyped DEF Reconcile
<1>4. CASE \/ Refuse(w) \/ RefuseUnconfirmed(w) \/ SettleAmbiguous(w)
           \/ MarkRetryOrDeadLetter(w)
  <2>1. dealApp' \in Commands \cup {None} /\ monitored' \in BOOLEAN
    BY <1>4 DEF Refuse, RefuseUnconfirmed, SettleAmbiguous,
                MarkRetryOrDeadLetter, TypeOK
  <2>2. QED
    BY <1>1, <1>4, <2>1, SettleTyped
       DEF Refuse, RefuseUnconfirmed, SettleAmbiguous, MarkRetryOrDeadLetter
<1>5. QED
  BY <1>2, <1>3, <1>4

\* The route, the claims and the changes of the case.
LEMMA QueueTyped ==
  ASSUME TypeOK,
         \/ \E c \in Commands : Submit(c) \/ ReclaimStale(c)
         \/ \E w \in Workers, c \in Commands : ClaimOne(w, c)
         \/ CaseChange
  PROVE  TypeOK'
<1>1. ASSUME NEW c \in Commands, Submit(c) PROVE TypeOK'
  <2>1. dealStatus' \in DealStatuses /\ status' \in [Commands -> RowStatuses]
    BY <1>1 DEF Submit, TypeOK, DealStatuses, RowStatuses
  <2>2. captured' \in [Commands -> Captures]
    BY <1>1 DEF Submit, TypeOK, Captures
  <2>3. QED
    BY <1>1, <2>1, <2>2 DEF Submit, TypeOK, caseVars, workerVars
<1>2. ASSUME NEW c \in Commands, ReclaimStale(c) PROVE TypeOK'
  BY <1>2 DEF ReclaimStale, TypeOK, RowStatuses, dealVars, caseVars, workerVars
<1>3. ASSUME NEW w \in Workers, NEW c \in Commands, ClaimOne(w, c)
      PROVE  TypeOK'
  BY <1>3 DEF ClaimOne, TypeOK, RowStatuses, Points, BeforeFence, dealVars,
              caseVars
<1>4. CASE CaseChange
  <2>1. UNCHANGED <<dealVars, rowVars, held, workerVars>>
    BY <1>4 DEF CaseChange, ReviseApplication, ReviseCase, ToggleReady,
                ToggleSnapshot
  <2>2. appRev' \in Nat /\ caseRev' \in Nat
    BY <1>4 DEF CaseChange, ReviseApplication, ReviseCase, ToggleReady,
                ToggleSnapshot, TypeOK
  <2>3. ready' \in BOOLEAN /\ snapshot' \in BOOLEAN
    BY <1>4, Zenon DEF CaseChange, ReviseApplication, ReviseCase, ToggleReady,
                       ToggleSnapshot, TypeOK
  <2>4. QED
    BY <2>1, <2>2, <2>3 DEF TypeOK, dealVars, rowVars, workerVars
<1>5. QED
  BY <1>1, <1>2, <1>3, <1>4

\* A step of the system, whoever takes it, keeps the state well typed.
LEMMA TypeStep == TypeOK /\ [Next]_vars => TypeOK'
<1> SUFFICES ASSUME TypeOK, [Next]_vars PROVE TypeOK'
  OBVIOUS
<1>1. CASE UNCHANGED vars
  BY <1>1 DEF TypeOK, vars, dealVars, rowVars, caseVars, workerVars
<1>2. CASE Next
  BY <1>2, ReadTyped, FenceTyped, ProviderTyped, SettlementTyped, QueueTyped
     DEF Next, Reclaim, Claim, WorkerStep
<1>3. QED
  BY <1>1, <1>2

\* Every step of the route, the worker, the processor and the case keeps the
\* state well typed.
THEOREM TypeCorrect == Spec => []TypeOK
<1>1. Init => TypeOK
  BY InitTyped
<1>2. TypeOK /\ [Next]_vars => TypeOK'
  BY TypeStep
<1>3. QED
  BY <1>1, <1>2, PTL DEF Spec

-----------------------------------------------------------------------------
(* Claims *)

\* The process keeps its place and its claim.
Kept(v) ==
  /\ pc'[v] = pc[v] /\ claim'[v] = claim[v]
  /\ token'[v] = token[v] /\ sawMarker'[v] = sawMarker[v]

\* A step of w moves nobody else, hands out no attempt, and w either ends its
\* tick or goes on with the same claim.
Frame(w) ==
  /\ \A v \in Workers \ {w} : Kept(v)
  /\ attempts' = attempts
  /\ pc[w] # "idle"
  /\ \/ pc'[w] = "idle"
     \/ claim'[w] = claim[w] /\ token'[w] = token[w] /\ sawMarker'[w] = sawMarker[w]

\* Moving on to the next await keeps the process's claim and moves nobody else.
LEMMA GoToFrame ==
  ASSUME TypeOK, NEW w \in Workers, NEW point \in Points, GoTo(w, point)
  PROVE  /\ \A v \in Workers \ {w} : Kept(v)
         /\ claim'[w] = claim[w] /\ token'[w] = token[w]
         /\ sawMarker'[w] = sawMarker[w] /\ pc'[w] = point
BY DEF TypeOK, GoTo, Kept

\* Ending a tick idles the process and moves nobody else.
LEMMA ReleaseFrame ==
  ASSUME TypeOK, NEW w \in Workers, Release(w)
  PROVE  /\ \A v \in Workers \ {w} : Kept(v)
         /\ pc'[w] = "idle"
BY DEF TypeOK, Release, Kept

\* A settlement, fenced out or not, ends the tick of its own process only; it
\* hands out no attempt and the processor is not involved.
LEMMA SettleFrame ==
  ASSUME TypeOK, NEW w \in Workers, NEW s, NEW e, NEW d, SettleWith(w, s, e, d)
  PROVE  /\ \A v \in Workers \ {w} : Kept(v)
         /\ pc'[w] = "idle"
         /\ attempts' = attempts
         /\ held' = held
BY ReleaseFrame DEF SettleWith, SetRow, rowVars

\* Every step a process takes inside a tick, and every way a tick can break off,
\* leaves the other processes and all attempt counters alone.
LEMMA StepFrame ==
  ASSUME TypeOK, NEW w \in Workers, WorkerStep(w) \/ Fault(w) \/ Abandon(w)
  PROVE  Frame(w)
<1> USE DEF Frame
<1>1. CASE LoadDeal(w)
  BY <1>1, GoToFrame DEF LoadDeal, rowVars, Points, BeforeFence, Settling
<1>2. CASE CheckLinkage(w)
  BY <1>2, GoToFrame DEF CheckLinkage, rowVars, Points, BeforeFence
<1>3. CASE CheckReadiness(w)
  BY <1>3, GoToFrame DEF CheckReadiness, rowVars, Points, BeforeFence, Settling
<1>4. CASE CheckSnapshot(w)
  BY <1>4, GoToFrame DEF CheckSnapshot, rowVars, Points, BeforeFence, Settling
<1>5. CASE FinalFence(w)
  BY <1>5, GoToFrame, ReleaseFrame DEF FinalFence, rowVars, Points, Settling
<1>6. CASE ProviderAccepts(w) \/ ProviderUnclear(w)
  BY <1>6, GoToFrame DEF ProviderAccepts, ProviderUnclear, rowVars, Points,
                         Settling
<1>7. CASE ProviderRefuses(w)
  BY <1>7 DEF ProviderRefuses, rowVars, TypeOK, Kept
<1>8. CASE CommitSuccess(w) \/ Reconcile(w) \/ Refuse(w)
           \/ RefuseUnconfirmed(w) \/ SettleAmbiguous(w)
           \/ MarkRetryOrDeadLetter(w)
  BY <1>8, SettleFrame DEF CommitSuccess, Reconcile, Refuse,
     RefuseUnconfirmed, SettleAmbiguous, MarkRetryOrDeadLetter
<1>9. CASE CatchFailure(w) \/ Fault(w)
  BY <1>9, GoToFrame DEF CatchFailure, Fault, rowVars, Points, BeforeFence,
                         Settling
<1>10. CASE Abandon(w)
  BY <1>10, ReleaseFrame DEF Abandon, rowVars
<1>11. QED
  BY <1>1, <1>2, <1>3, <1>4, <1>5, <1>6, <1>7, <1>8, <1>9, <1>10 DEF WorkerStep

\* A claim takes a number that no running process holds.
LEMMA ClaimFrame ==
  ASSUME TypeOK, NEW w \in Workers, NEW c \in Commands, ClaimOne(w, c)
  PROVE  /\ \A v \in Workers \ {w} : Kept(v)
         /\ pc[w] = "idle" /\ pc'[w] = "load" /\ claim'[w] = c
         /\ token'[w] = attempts[c] + 1
         /\ sawMarker'[w] = (lastError[c] = DISPATCH_STARTED)
         /\ status[c] = "pending" /\ status'[c] = "processing"
         /\ attempts'[c] = attempts[c] + 1
         /\ \A d \in Commands \ {c} : /\ attempts'[d] = attempts[d]
                                      /\ status'[d] = status[d]
         /\ lastError' = lastError /\ held' = held
BY DEF ClaimOne, TypeOK, Kept

\* No step lets two processes hold one attempt number.
LEMMA ClaimsStep ==
  TypeOK /\ ClaimsAreExclusive /\ [Next]_vars => ClaimsAreExclusive'
<1> SUFFICES ASSUME TypeOK, ClaimsAreExclusive, [Next]_vars
             PROVE  ClaimsAreExclusive'
  OBVIOUS
<1>1. CASE UNCHANGED <<attempts, workerVars>>
  BY <1>1 DEF ClaimsAreExclusive, workerVars
<1>2. ASSUME NEW w \in Workers, Frame(w)
      PROVE  ClaimsAreExclusive'
  BY <1>2 DEF ClaimsAreExclusive, Frame, Kept
<1>3. ASSUME NEW w \in Workers, NEW c \in Commands, ClaimOne(w, c)
      PROVE  ClaimsAreExclusive'
  <2>1. \A v \in Workers : token[v] \in Nat
    BY DEF TypeOK
  <2>2. \A d \in Commands : attempts[d] \in Nat
    BY DEF TypeOK
  <2>3. QED
    BY <1>3, <2>1, <2>2, ClaimFrame DEF ClaimsAreExclusive, Kept
<1>4. CASE \/ \E c \in Commands : Submit(c) \/ ReclaimStale(c)
           \/ CaseChange \/ UNCHANGED vars
  <2>1. UNCHANGED <<attempts, workerVars>>
    BY <1>4 DEF Submit, ReclaimStale, CaseChange, ReviseApplication,
       ReviseCase, ToggleReady, ToggleSnapshot, rowVars, vars
  <2>2. QED
    BY <2>1, <1>1
<1>5. QED
  BY <1>2, <1>3, <1>4, StepFrame DEF Next, Reclaim, Claim

\* An attempt number names one process: the fence of every settlement admits
\* its owner only, however many processes poll the queue.
THEOREM ClaimsExclusive == Spec => []ClaimsAreExclusive
<1>1. Init => ClaimsAreExclusive
  BY DEF Init, ClaimsAreExclusive
<1>2. TypeOK /\ ClaimsAreExclusive /\ [Next]_vars => ClaimsAreExclusive'
  BY ClaimsStep
<1>3. QED
  BY <1>1, <1>2, TypeCorrect, PTL DEF Spec

-----------------------------------------------------------------------------
(* The marker *)

\* What the marker argument assumes of the current state.
IInv == TypeOK /\ ClaimsAreExclusive /\ MarkerDiscipline

\* A step of w that leaves rows and applications alone and sends nothing.
Quiet(w) ==
  /\ Frame(w)
  /\ UNCHANGED <<status, lastError, held>>
  /\ pc'[w] # "send"
  /\ pc'[w] \in BeforeFence => pc[w] \in BeforeFence
  /\ pc'[w] = "fence" => ~sawMarker[w]
  /\ (pc'[w] = "retry" /\ Owns(w)) => lastError[claim[w]] # DISPATCH_STARTED

\* All the reads of a tick are quiet, and so is a fence that does not pass.
LEMMA QuietSteps ==
  ASSUME TypeOK, NEW w \in Workers,
         \/ LoadDeal(w) \/ CheckLinkage(w) \/ CheckReadiness(w)
         \/ CheckSnapshot(w) \/ CatchFailure(w) \/ Fault(w) \/ Abandon(w)
         \/ FinalFence(w) /\ pc'[w] # "send"
  PROVE  Quiet(w)
<1>1. Frame(w)
  BY StepFrame DEF WorkerStep
<1>2. UNCHANGED <<status, lastError, held>>
  <2>1. CASE FinalFence(w) /\ pc'[w] # "send"
    BY <2>1, GoToFrame DEF FinalFence, rowVars, Points, Settling
  <2>2. CASE \/ LoadDeal(w) \/ CheckLinkage(w) \/ CheckReadiness(w)
             \/ CheckSnapshot(w) \/ CatchFailure(w) \/ Fault(w) \/ Abandon(w)
    BY <2>2 DEF LoadDeal, CheckLinkage, CheckReadiness, CheckSnapshot,
                CatchFailure, Fault, Abandon, rowVars
  <2>3. QED
    BY <2>1, <2>2
<1>3. CASE Abandon(w)
  BY <1>1, <1>2, <1>3, ReleaseFrame DEF Abandon, Quiet, BeforeFence
<1>4. CASE FinalFence(w) /\ pc'[w] # "send"
  <2>1. pc'[w] \in {"idle", "thrown", "refuse"}
    BY <1>4, GoToFrame, ReleaseFrame DEF FinalFence, Points, Settling
  <2>2. QED
    BY <1>1, <1>2, <2>1 DEF Quiet, BeforeFence
<1>5. CASE CatchFailure(w)
  BY <1>1, <1>2, <1>5, GoToFrame
     DEF CatchFailure, Quiet, BeforeFence, Points, Settling
<1>6. CASE Fault(w)
  BY <1>1, <1>2, <1>6, GoToFrame DEF Fault, Quiet, BeforeFence, Points
<1>7. CASE LoadDeal(w) \/ CheckLinkage(w) \/ CheckReadiness(w)
  BY <1>1, <1>2, <1>7, GoToFrame
     DEF LoadDeal, CheckLinkage, CheckReadiness, Quiet, BeforeFence, Points,
         Settling
<1>8. CASE CheckSnapshot(w)
  BY <1>1, <1>2, <1>8, GoToFrame
     DEF CheckSnapshot, Quiet, BeforeFence, Points, Settling
<1>9. QED
  BY <1>3, <1>4, <1>5, <1>6, <1>7, <1>8

\* A quiet step keeps the discipline.
LEMMA QuietMarker ==
  ASSUME IInv, NEW w \in Workers, Quiet(w)
  PROVE  MarkerDiscipline'
<1>1. \A c \in Commands : Reached(c)' => Reached(c)
  BY DEF Quiet, Frame, Kept, Reached
<1>2. SendersAlone'
  BY DEF IInv, MarkerDiscipline, SendersAlone, Quiet, Frame, Kept
<1>3. MarkerKept'
  BY <1>1 DEF IInv, MarkerDiscipline, MarkerKept, Quiet, Settled
<1>4. MarkerSeen'
  BY DEF IInv, MarkerDiscipline, MarkerSeen, Quiet, Frame, Kept, Owns,
         BeforeFence
<1>5. RetryIsSafe'
  <2> SUFFICES ASSUME NEW v \in Workers, pc'[v] = "retry", Owns(v)'
               PROVE  ~Reached(claim[v])'
    BY DEF RetryIsSafe
  <2>1. /\ claim'[v] = claim[v] /\ Owns(v) /\ claim[v] \in Commands
        /\ pc[v] # "idle"
    BY DEF IInv, ClaimsAreExclusive, Quiet, Frame, Kept, Owns
  <2>2. CASE v # w
    BY <1>1, <2>1, <2>2
       DEF IInv, MarkerDiscipline, RetryIsSafe, Quiet, Frame, Kept
  <2>3. CASE v = w
    BY <1>1, <2>1, <2>3
       DEF IInv, MarkerDiscipline, MarkerKept, Quiet, Owns, Settled
  <2>4. QED
    BY <2>2, <2>3
<1>6. QED
  BY <1>2, <1>3, <1>4, <1>5 DEF MarkerDiscipline

\* A step of the owner that ends its claim: for good, or, when the command never
\* arrived, by putting it back.
Ends(w) ==
  /\ Frame(w) /\ pc'[w] = "idle" /\ held' = held
  /\ Owns(w)
  /\ \E e : lastError' = [lastError EXCEPT ![claim[w]] = e]
  /\ \E s \in {"pending", "delivered", "dead_letter"} :
       /\ status' = [status EXCEPT ![claim[w]] = s]
       /\ s = "pending" => pc[w] = "retry"

\* A settlement ends the claim, or is quiet because the claim was lost.
LEMMA SettlementSteps ==
  ASSUME TypeOK, NEW w \in Workers,
         \/ CommitSuccess(w) \/ Reconcile(w) \/ Refuse(w)
         \/ RefuseUnconfirmed(w) \/ SettleAmbiguous(w)
         \/ MarkRetryOrDeadLetter(w)
  PROVE  Quiet(w) \/ Ends(w)
<1>1. Frame(w)
  BY StepFrame DEF WorkerStep
<1>2. PICK s \in {"pending", "delivered", "dead_letter"}, e \in RowErrors,
           d \in DealStatuses :
        SettleWith(w, s, e, d) /\ (s = "pending" => pc[w] = "retry")
  <2>1. /\ {"none", "error", "refused", AMBIGUOUS, SNAPSHOT_REQUIRED}
             \subseteq RowErrors
        /\ dealStatus \in DealStatuses
        /\ {"submitted", "dead_letter", AMBIGUOUS} \subseteq DealStatuses
    BY DEF RowErrors, TypeOK, DealStatuses
  <2>2. QED
    BY <2>1 DEF CommitSuccess, Reconcile, Refuse, RefuseUnconfirmed,
                SettleAmbiguous, MarkRetryOrDeadLetter
<1>3. pc'[w] = "idle" /\ held' = held
  BY <1>2, SettleFrame
<1>4. CASE Owns(w)
  BY <1>1, <1>2, <1>3, <1>4 DEF Ends, SettleWith, SetRow
<1>5. CASE ~Owns(w)
  BY <1>1, <1>2, <1>3, <1>5
     DEF Quiet, SettleWith, rowVars, BeforeFence
<1>6. QED
  BY <1>4, <1>5

\* The end of a claim keeps the discipline.
LEMMA EndsMarker ==
  ASSUME IInv, NEW w \in Workers, Ends(w)
  PROVE  MarkerDiscipline'
<1> DEFINE c == claim[w]
<1>1. /\ c \in Commands /\ pc[w] # "idle"
      /\ status \in [Commands -> RowStatuses]
      /\ lastError \in [Commands -> RowErrors]
  BY DEF IInv, TypeOK, ClaimsAreExclusive, Ends, Frame
<1>2. PICK s \in {"pending", "delivered", "dead_letter"} :
        /\ status' = [status EXCEPT ![c] = s]
        /\ s = "pending" => pc[w] = "retry"
  BY DEF Ends
<1>3. \A d \in Commands \ {c} : status'[d] = status[d] /\ lastError'[d] = lastError[d]
  BY <1>1, <1>2 DEF Ends
<1>4. \A d \in Commands : Reached(d)' => Reached(d)
  BY DEF Ends, Frame, Kept, Reached
<1>5. SendersAlone'
  BY DEF IInv, MarkerDiscipline, SendersAlone, Ends, Frame, Kept
<1>6. MarkerKept'
  <2> SUFFICES ASSUME NEW d \in Commands, Reached(d)'
               PROVE  lastError'[d] = DISPATCH_STARTED \/ Settled(d)'
    BY DEF MarkerKept
  <2>1. CASE d # c
    BY <1>3, <1>4, <2>1 DEF IInv, MarkerDiscipline, MarkerKept, Settled
  <2>2. CASE d = c
    <3>1. s # "pending"
      BY <1>2, <1>4, <2>2 DEF IInv, MarkerDiscipline, RetryIsSafe, Ends
    <3>2. status'[d] = s
      BY <1>1, <1>2, <2>2
    <3>3. QED
      BY <3>1, <3>2 DEF Settled
  <2>3. QED
    BY <2>1, <2>2
<1>7. \A v \in Workers : Owns(v)' /\ pc'[v] # "idle" =>
        v # w /\ claim[v] # c /\ claim[v] \in Commands /\ Owns(v)
  BY <1>1, <1>2, <1>3
     DEF IInv, ClaimsAreExclusive, Ends, Frame, Kept, Owns
<1>8. MarkerSeen'
  BY <1>3, <1>7
     DEF IInv, MarkerDiscipline, MarkerSeen, Ends, Frame, Kept, BeforeFence
<1>9. RetryIsSafe'
  BY <1>4, <1>7
     DEF IInv, MarkerDiscipline, RetryIsSafe, Ends, Frame, Kept
<1>10. QED
  BY <1>5, <1>6, <1>8, <1>9 DEF MarkerDiscipline

\* The fence that passes: the owner, having seen no marker, writes it and sends.
LEMMA FenceMarker ==
  ASSUME IInv, NEW w \in Workers, FinalFence(w), pc'[w] = "send"
  PROVE  MarkerDiscipline'
<1> DEFINE c == claim[w]
<1>1. /\ c \in Commands /\ pc[w] = "fence" /\ Owns(w)
      /\ lastError' = [lastError EXCEPT ![c] = DISPATCH_STARTED]
      /\ UNCHANGED <<status, attempts, held>>
      /\ lastError \in [Commands -> RowErrors]
  <2>1. pc[w] = "fence" /\ lastError \in [Commands -> RowErrors]
    BY DEF FinalFence, IInv, TypeOK
  <2>2. c \in Commands
    BY <2>1 DEF IInv, ClaimsAreExclusive
  <2>3. /\ Owns(w)
        /\ lastError' = [lastError EXCEPT ![c] = DISPATCH_STARTED]
        /\ UNCHANGED <<status, attempts, held>>
    BY GoToFrame, ReleaseFrame DEF FinalFence, IInv, Points, Settling
  <2>4. QED
    BY <2>1, <2>2, <2>3
<1>2. /\ \A v \in Workers \ {w} : Kept(v)
      /\ claim'[w] = c /\ token'[w] = token[w]
  BY StepFrame DEF WorkerStep, Frame, IInv
<1>3. ~Reached(c)
  BY <1>1 DEF IInv, MarkerDiscipline, MarkerKept, MarkerSeen, Settled, Owns,
              BeforeFence
<1>4. held[c] = 0
  BY <1>1, <1>3 DEF IInv, TypeOK, Reached
<1>5. \A d \in Commands \ {c} : Reached(d)' => Reached(d)
  BY <1>1, <1>2 DEF Reached, Kept
<1>6. SendersAlone'
  BY <1>1, <1>2, <1>3, <1>4
     DEF IInv, MarkerDiscipline, SendersAlone, Reached, Kept
<1>7. MarkerKept'
  BY <1>1, <1>5 DEF IInv, MarkerDiscipline, MarkerKept, Settled
<1>8. \A v \in Workers \ {w} : Owns(v)' /\ pc'[v] # "idle" =>
        Owns(v) /\ claim[v] # c /\ claim[v] \in Commands
  BY <1>1, <1>2 DEF IInv, ClaimsAreExclusive, Kept, Owns
<1>9. MarkerSeen'
  BY <1>1, <1>2, <1>8
     DEF IInv, MarkerDiscipline, MarkerSeen, Kept, BeforeFence
<1>10. RetryIsSafe'
  BY <1>1, <1>2, <1>5, <1>8 DEF IInv, MarkerDiscipline, RetryIsSafe, Kept
<1>11. QED
  BY <1>6, <1>7, <1>9, <1>10 DEF MarkerDiscipline

\* The processor's answers: the one sender leaves, and the command has arrived
\* at most once.
LEMMA ProviderMarker ==
  ASSUME IInv, NEW w \in Workers,
         ProviderAccepts(w) \/ ProviderRefuses(w) \/ ProviderUnclear(w)
  PROVE  MarkerDiscipline'
<1> DEFINE c == claim[w]
<1>1. /\ c \in Commands /\ pc[w] = "send" /\ Reached(c)
      /\ UNCHANGED <<status, attempts, lastError>>
      /\ held \in [Commands -> Nat]
  BY DEF ProviderAccepts, ProviderRefuses, ProviderUnclear, rowVars, IInv,
         TypeOK, ClaimsAreExclusive, Reached
<1>2. Frame(w) /\ pc'[w] \in {"commit", "retry", "ambiguous"}
  <2>1. Frame(w)
    BY StepFrame DEF WorkerStep, IInv
  <2>2. CASE ProviderRefuses(w)
    BY <2>1, <2>2 DEF ProviderRefuses, IInv, TypeOK
  <2>3. CASE ProviderAccepts(w) \/ ProviderUnclear(w)
    BY <2>1, <2>3, GoToFrame
       DEF ProviderAccepts, ProviderUnclear, IInv, Points, Settling
  <2>4. QED
    BY <2>1, <2>2, <2>3
<1>3. \A v \in Workers : (pc'[v] = "send") =>
        /\ v # w /\ pc[v] = "send" /\ claim'[v] = claim[v]
        /\ claim[v] # c /\ claim[v] \in Commands
  BY <1>1, <1>2
     DEF IInv, ClaimsAreExclusive, MarkerDiscipline, SendersAlone, Frame, Kept
<1>4. /\ \A d \in Commands \ {c} : held'[d] = held[d]
      /\ pc'[w] = "retry" => held'[c] = held[c]
  BY <1>1, GoToFrame DEF ProviderAccepts, ProviderRefuses, ProviderUnclear,
                         IInv, Points, Settling
<1>5. \A d \in Commands : Reached(d)' => Reached(d)
  BY <1>1, <1>3, <1>4 DEF Reached
<1>6. SendersAlone'
  BY <1>2, <1>3, <1>4
     DEF IInv, MarkerDiscipline, SendersAlone, Frame, Kept
<1>7. MarkerKept'
  BY <1>1, <1>5 DEF IInv, MarkerDiscipline, MarkerKept, Settled
<1>8. MarkerSeen'
  BY <1>1, <1>2
     DEF IInv, MarkerDiscipline, MarkerSeen, Frame, Kept, Owns, BeforeFence
<1>9. RetryIsSafe'
  <2> SUFFICES ASSUME NEW v \in Workers, pc'[v] = "retry", Owns(v)'
               PROVE  ~Reached(claim[v])'
    BY DEF RetryIsSafe
  <2>1. CASE v # w
    <3>1. /\ pc[v] = "retry" /\ claim'[v] = claim[v] /\ Owns(v)
          /\ claim[v] \in Commands
      BY <1>1, <1>2, <2>1 DEF Frame, Kept, Owns, IInv, ClaimsAreExclusive
    <3>2. QED
      BY <3>1, <1>5 DEF IInv, MarkerDiscipline, RetryIsSafe
  <2>2. CASE v = w
    <3>1. claim'[w] = c /\ held'[c] = 0
      BY <1>1, <1>2, <1>4, <2>2
         DEF Frame, IInv, MarkerDiscipline, SendersAlone
    <3>2. QED
      BY <1>3, <2>2, <3>1 DEF Reached
  <2>3. QED
    BY <2>1, <2>2
<1>10. QED
  BY <1>6, <1>7, <1>8, <1>9 DEF MarkerDiscipline

\* A new claim takes the row from everyone who held it before.
LEMMA ClaimMarker ==
  ASSUME IInv, NEW w \in Workers, NEW c \in Commands, ClaimOne(w, c)
  PROVE  MarkerDiscipline'
<1>1. /\ TypeOK
      /\ \A v \in Workers : token[v] \in Nat
      /\ attempts[c] \in Nat
  BY DEF IInv, TypeOK
<1>2. \A d \in Commands : Reached(d)' = Reached(d)
  BY <1>1, ClaimFrame DEF Reached, Kept
<1>3. \A v \in Workers \ {w} : Owns(v)' /\ pc'[v] # "idle" =>
        /\ Owns(v) /\ claim[v] # c /\ claim[v] \in Commands
  BY <1>1, ClaimFrame DEF IInv, ClaimsAreExclusive, Kept, Owns
<1>4. SendersAlone'
  BY <1>1, ClaimFrame DEF IInv, MarkerDiscipline, SendersAlone, Kept
<1>5. MarkerKept'
  BY <1>1, <1>2, ClaimFrame DEF IInv, MarkerDiscipline, MarkerKept, Settled
<1>6. MarkerSeen'
  <2>1. /\ pc'[w] = "load" /\ claim'[w] = c /\ lastError' = lastError
        /\ sawMarker'[w] = (lastError[c] = DISPATCH_STARTED)
        /\ \A v \in Workers \ {w} : Kept(v)
    BY <1>1, ClaimFrame
  <2>2. lastError'[claim'[w]] = DISPATCH_STARTED => sawMarker'[w]
    BY <2>1, Zenon
  <2>3. \A v \in Workers \ {w} :
          /\ (pc'[v] \in BeforeFence /\ Owns(v)' /\ ~sawMarker'[v]) =>
               lastError'[claim'[v]] # DISPATCH_STARTED
          /\ pc'[v] = "fence" => ~sawMarker'[v]
    BY <1>3, <2>1 DEF IInv, MarkerDiscipline, MarkerSeen, Kept, BeforeFence
  <2>4. QED
    BY <2>1, <2>2, <2>3 DEF MarkerSeen
<1>7. RetryIsSafe'
  BY <1>1, <1>2, <1>3, ClaimFrame
     DEF IInv, MarkerDiscipline, RetryIsSafe, Kept
<1>8. QED
  BY <1>4, <1>5, <1>6, <1>7 DEF MarkerDiscipline

\* The route and the take-over of a stale row only open rows.
LEMMA QueueMarker ==
  ASSUME IInv, NEW c \in Commands, Submit(c) \/ ReclaimStale(c)
  PROVE  MarkerDiscipline'
<1>1. /\ UNCHANGED <<attempts, lastError, held, pc, claim, token, sawMarker>>
      /\ status' = [status EXCEPT ![c] = "pending"] /\ ~Settled(c)
      /\ status \in [Commands -> RowStatuses]
  BY DEF Submit, ReclaimStale, workerVars, Settled, IInv, TypeOK
<1>2. \A v \in Workers : pc[v] # "idle" /\ Owns(v)' => Owns(v) /\ claim[v] \in Commands
  BY <1>1 DEF Owns, IInv, ClaimsAreExclusive
<1>3. \A d \in Commands : Reached(d)' = Reached(d)
  BY <1>1 DEF Reached
<1>4. SendersAlone'
  BY <1>1 DEF IInv, MarkerDiscipline, SendersAlone
<1>5. MarkerKept'
  BY <1>1, <1>3 DEF IInv, MarkerDiscipline, MarkerKept, Settled
<1>6. MarkerSeen'
  BY <1>1, <1>2 DEF IInv, MarkerDiscipline, MarkerSeen, BeforeFence
<1>7. RetryIsSafe'
  BY <1>1, <1>2, <1>3 DEF IInv, MarkerDiscipline, RetryIsSafe
<1>8. QED
  BY <1>4, <1>5, <1>6, <1>7 DEF MarkerDiscipline

\* Every step keeps the discipline.
LEMMA MarkerStep == IInv /\ [Next]_vars => MarkerDiscipline'
<1> SUFFICES ASSUME IInv, [Next]_vars PROVE MarkerDiscipline'
  OBVIOUS
<1>1. TypeOK
  BY DEF IInv
<1>2. CASE CaseChange \/ UNCHANGED vars
  <2>1. UNCHANGED <<status, attempts, lastError, held, pc, claim, token, sawMarker>>
    BY <1>2 DEF CaseChange, ReviseApplication, ReviseCase, ToggleReady,
                ToggleSnapshot, rowVars, workerVars, vars
  <2>2. QED
    BY <2>1 DEF IInv, MarkerDiscipline, SendersAlone, MarkerKept, MarkerSeen,
                RetryIsSafe, Reached, Settled, Owns
<1>3. ASSUME NEW w \in Workers, WorkerStep(w) \/ Fault(w) \/ Abandon(w)
      PROVE  MarkerDiscipline'
  BY <1>1, <1>3, QuietSteps, QuietMarker, SettlementSteps, EndsMarker,
     FenceMarker, ProviderMarker DEF WorkerStep
<1>4. QED
  BY <1>2, <1>3, ClaimMarker, QueueMarker DEF Next, Reclaim, Claim

\* The marker discipline holds for any number of processes, attempts, crashes
\* and take-overs.
THEOREM MarkerHolds == Spec => []MarkerDiscipline
<1>1. Init => MarkerDiscipline
  BY DEF Init, MarkerDiscipline, SendersAlone, MarkerKept, MarkerSeen,
         RetryIsSafe, Reached, BeforeFence
<1>2. TypeOK /\ ClaimsAreExclusive /\ MarkerDiscipline /\ [Next]_vars
        => MarkerDiscipline'
  BY MarkerStep DEF IInv
<1>3. QED
  BY <1>1, <1>2, TypeCorrect, ClaimsExclusive, PTL DEF Spec

\* At first the processor holds nothing.
LEMMA InitHolds == Init => AtMostOneApplication
<1> SUFFICES ASSUME Init, NEW c \in Commands PROVE held[c] <= 1
  BY DEF AtMostOneApplication
<1>1. held[c] = 0
  BY Zenon DEF Init
<1>2. QED
  BY <1>1

\* A send needs the fence, and whoever is past the fence is alone and the first.
LEMMA ApplicationsStep == IInv /\ AtMostOneApplication /\ [Next]_vars
                            => AtMostOneApplication'
<1> SUFFICES ASSUME TypeOK, ClaimsAreExclusive, MarkerDiscipline,
                    AtMostOneApplication, [Next]_vars
             PROVE  AtMostOneApplication'
  BY DEF IInv
<1>1. ASSUME NEW w \in Workers,
             ProviderAccepts(w) \/ ProviderUnclear(w)
      PROVE  AtMostOneApplication'
  <2>1. pc[w] = "send" /\ held[claim[w]] = 0 /\ claim[w] \in Commands
    BY <1>1 DEF ProviderAccepts, ProviderUnclear, ClaimsAreExclusive,
                MarkerDiscipline, SendersAlone
  <2>2. QED
    BY <1>1, <2>1 DEF ProviderAccepts, ProviderUnclear, TypeOK,
                      AtMostOneApplication
<1>2. CASE held' = held
  BY <1>2 DEF AtMostOneApplication
<1>3. ASSUME NEW w \in Workers, WorkerStep(w) \/ Fault(w) \/ Abandon(w)
      PROVE  AtMostOneApplication'
  <2>1. CASE ProviderRefuses(w)
    BY <2>1, <1>2 DEF ProviderRefuses
  <2>2. CASE FinalFence(w)
    BY <2>2, <1>2 DEF FinalFence
  <2>3. QED
    BY <1>1, <1>2, <1>3, <2>1, <2>2, QuietSteps, SettlementSteps
       DEF WorkerStep, Quiet, Ends
<1>4. CASE \/ \E c \in Commands : Submit(c) \/ ReclaimStale(c)
           \/ \E w \in Workers, c \in Commands : ClaimOne(w, c)
           \/ CaseChange \/ UNCHANGED vars
  BY <1>2, <1>4 DEF Submit, ReclaimStale, ClaimOne, CaseChange,
     ReviseApplication, ReviseCase, ToggleReady, ToggleSnapshot, vars
<1>5. QED
  BY <1>3, <1>4 DEF Next, Reclaim, Claim

\* The processor holds at most one application for a command.
THEOREM OneApplication == Spec => []AtMostOneApplication
<1>1. Init => AtMostOneApplication
  BY InitHolds
<1>2. TypeOK /\ ClaimsAreExclusive /\ MarkerDiscipline
        /\ AtMostOneApplication /\ [Next]_vars => AtMostOneApplication'
  BY ApplicationsStep DEF IInv
<1>3. QED
  BY <1>1, <1>2, TypeCorrect, ClaimsExclusive, MarkerHolds, PTL DEF Spec

-----------------------------------------------------------------------------
(* The promise that the outbox keeps *)

\* The deal and its rows agree: an open command is the only one and its deal is
\* queued; a command held for reconciliation or delivered marks the deal.
DealAgrees ==
  /\ \A c \in Commands : Open(c) => dealStatus = "queued"
  /\ \A c, d \in Commands : Open(c) /\ Open(d) => c = d
  /\ \A c \in Commands : Outcome(c) = "held" => dealStatus = AMBIGUOUS
  /\ \A c \in Commands : status[c] = "delivered" => dealStatus = "submitted"
  /\ dealApp # None => dealStatus = "submitted"

\* What a process at one of its points may rely on, whoever owns the row now.
PointAgrees(w) ==
  /\ pc[w] # "idle" => Outcome(claim[w]) # "none"
  /\ pc[w] = "reconcile" => dealApp # None
  /\ pc[w] = "commit" => held[claim[w]] = 1
  /\ pc[w] = "send" => Outcome(claim[w]) \in {"open", "held", "refused"}

PointsAgree == \A w \in Workers : PointAgrees(w)

\* With what the earlier theorems give.
Known == IInv /\ AtMostOneApplication
RInv  == Known /\ DealAgrees /\ PointsAgree

-----------------------------------------------------------------------------
(* Outcomes *)

\* An outcome depends on the state and the error of the row alone.
LEMMA OutcomeKept ==
  ASSUME NEW c, status'[c] = status[c], lastError'[c] = lastError[c]
  PROVE  Outcome(c)' = Outcome(c)
BY DEF Outcome, Open, Dead

\* An open row is an open outcome, and no other is.
LEMMA OutcomeOpen ==
  ASSUME TypeOK, NEW c \in Commands
  PROVE  /\ Open(c) <=> Outcome(c) = "open"
         /\ status[c] = "absent" <=> Outcome(c) = "none"
         /\ status[c] = "delivered" <=> Outcome(c) = "delivered"
         /\ Outcome(c) = "held" <=> status[c] = "dead_letter" /\ lastError[c] = AMBIGUOUS
         /\ Outcome(c) = "failed" <=> status[c] = "dead_letter" /\ lastError[c] = "error"
         /\ Outcome(c) \in {"none", "open", "delivered", "held", "failed", "refused"}
BY DEF Outcome, Open, Dead, TypeOK, RowStatuses, RowErrors, AMBIGUOUS, DISPATCH_STARTED,
       SNAPSHOT_REQUIRED

\* The same after a step.
LEMMA OutcomeOpenNext ==
  ASSUME TypeOK', NEW c \in Commands
  PROVE  /\ Open(c)' <=> Outcome(c)' = "open"
         /\ status'[c] = "absent" <=> Outcome(c)' = "none"
         /\ status'[c] = "delivered" <=> Outcome(c)' = "delivered"
         /\ Outcome(c)' = "held" <=> status'[c] = "dead_letter" /\ lastError'[c] = AMBIGUOUS
         /\ Outcome(c)' = "failed" <=> status'[c] = "dead_letter" /\ lastError'[c] = "error"
         /\ Outcome(c)' \in {"none", "open", "delivered", "held", "failed", "refused"}
BY DEF Outcome, Open, Dead, TypeOK, RowStatuses, RowErrors, AMBIGUOUS, DISPATCH_STARTED,
       SNAPSHOT_REQUIRED

-----------------------------------------------------------------------------
(* The steps that matter to the promise *)

\* Nothing that was promised changes.
Stutters ==
  /\ \A c \in Commands : Outcome(c)' = Outcome(c)
  /\ held' = held /\ dealStatus' = dealStatus /\ dealApp' = dealApp

\* The processor takes the command.
Takes(c) ==
  /\ \A d \in Commands : Outcome(d)' = Outcome(d)
  /\ dealStatus' = dealStatus /\ dealApp' = dealApp
  /\ held[c] = 0 /\ held' = [held EXCEPT ![c] = 1]
  /\ Outcome(c) \in {"open", "held", "refused"}

\* A request is accepted.
Accepts(c) ==
  /\ dealStatus \in Resubmittable /\ dealStatus' = "queued" /\ dealApp' = dealApp
  /\ Outcome(c) = "none" /\ Outcome(c)' = "open" /\ held' = held
  /\ \A d \in Commands \ {c} : Outcome(d)' = Outcome(d)

Endings == {"delivered", "failed", "refused", "held"}

\* w ends its command c in this way.
EndsAs(w, c, how) ==
  /\ Owns(w) /\ c = claim[w] /\ held' = held
  /\ Outcome(c) = "open" /\ Outcome(c)' = how
  /\ \A d \in Commands \ {c} : Outcome(d)' = Outcome(d)
  /\ how = "delivered" => /\ pc[w] = "commit" /\ dealStatus' = "submitted"
                          /\ dealApp' = c /\ monitored'
  /\ how # "delivered" => dealApp' = dealApp
  /\ how = "failed"    => pc[w] = "retry" /\ dealStatus' = "dead_letter"
  /\ how = "refused"   => \/ lastError'[c] = "refused" /\ dealStatus' = "dead_letter"
                          \/ lastError'[c] = SNAPSHOT_REQUIRED /\ dealStatus' = dealStatus
  /\ how = "held"      => dealStatus' = AMBIGUOUS

Promised ==
  \/ Stutters
  \/ \E c \in Commands : Takes(c) \/ Accepts(c)
  \/ \E w \in Workers, c \in Commands, how \in Endings : EndsAs(w, c, how)

\* A settlement that owns its row changes it and the deal, and no other row.
LEMMA OwnedSettlement ==
  ASSUME TypeOK, NEW w \in Workers, NEW s, NEW e, NEW d, SettleWith(w, s, e, d),
         Owns(w), claim[w] \in Commands
  PROVE  /\ status'[claim[w]] = s /\ lastError'[claim[w]] = e /\ dealStatus' = d
         /\ \A x \in Commands \ {claim[w]} :
              status'[x] = status[x] /\ lastError'[x] = lastError[x]
         /\ held' = held
BY DEF SettleWith, SetRow, TypeOK

\* One that has lost its claim changes neither rows nor deal.
LEMMA LostSettlement ==
  ASSUME NEW w \in Workers, NEW s, NEW e, NEW d, SettleWith(w, s, e, d), ~Owns(w)
  PROVE  UNCHANGED <<status, lastError, dealStatus, held>>
BY DEF SettleWith, rowVars

\* A settlement ends the command as promised, or puts it back, or does nothing.
LEMMA SettlementPromised ==
  ASSUME RInv, TypeOK', NEW w \in Workers,
         \/ CommitSuccess(w) \/ Reconcile(w) \/ Refuse(w) \/ RefuseUnconfirmed(w)
         \/ SettleAmbiguous(w) \/ MarkRetryOrDeadLetter(w)
  PROVE  Stutters \/ \E c \in Commands, how \in Endings : EndsAs(w, c, how)
<1>1. PICK c \in Commands : TypeOK /\ c = claim[w]
  BY DEF RInv, Known, IInv, ClaimsAreExclusive, CommitSuccess, Reconcile, Refuse,
         RefuseUnconfirmed, SettleAmbiguous, MarkRetryOrDeadLetter
<1>2. CASE ~Owns(w)
  <2>1. UNCHANGED <<status, lastError, dealStatus, held>> /\ dealApp' = dealApp
    BY <1>2, LostSettlement DEF CommitSuccess, Reconcile, Refuse, RefuseUnconfirmed,
       SettleAmbiguous, MarkRetryOrDeadLetter
  <2>2. QED
    BY <2>1, OutcomeKept DEF Stutters
<1>3. CASE Owns(w)
  <2>1. Open(c) /\ Outcome(c) = "open" /\ dealStatus = "queued" /\ dealApp = None
    BY <1>1, <1>3, OutcomeOpen DEF Owns, Open, RInv, DealAgrees
  <2>2. ASSUME NEW s, NEW e, NEW d, SettleWith(w, s, e, d)
        PROVE  /\ status'[c] = s /\ lastError'[c] = e /\ dealStatus' = d /\ held' = held
               /\ \A x \in Commands \ {c} : Outcome(x)' = Outcome(x)
    BY <1>1, <1>3, <2>2, OwnedSettlement, OutcomeKept
  <2>3. ASSUME CommitSuccess(w) PROVE EndsAs(w, c, "delivered")
    <3>1. /\ SettleWith(w, "delivered", "none", "submitted") /\ pc[w] = "commit"
          /\ dealApp' = c /\ monitored' = TRUE
      BY <1>1, <1>3, <2>3 DEF CommitSuccess
    <3>2. Outcome(c)' = "delivered"
      BY <1>1, <2>2, <3>1, OutcomeOpenNext
    <3>3. QED
      BY <1>1, <1>3, <2>1, <2>2, <3>1, <3>2 DEF EndsAs
  <2>4. ~Reconcile(w)
    BY <2>1 DEF Reconcile, RInv, PointsAgree, PointAgrees
  <2>5. ASSUME Refuse(w) \/ RefuseUnconfirmed(w) PROVE EndsAs(w, c, "refused")
    <3>1. /\ dealApp' = dealApp
          /\ \/ SettleWith(w, "dead_letter", "refused", "dead_letter")
             \/ SettleWith(w, "dead_letter", SNAPSHOT_REQUIRED, dealStatus)
      BY <2>5 DEF Refuse, RefuseUnconfirmed
    <3>2. Outcome(c)' = "refused"
      BY <1>1, <2>2, <3>1, OutcomeOpenNext DEF SNAPSHOT_REQUIRED, AMBIGUOUS, Outcome, Open, Dead
    <3>3. QED
      BY <1>1, <1>3, <2>1, <2>2, <3>1, <3>2 DEF EndsAs
  <2>6. ASSUME SettleAmbiguous(w) PROVE EndsAs(w, c, "held")
    <3>1. SettleWith(w, "dead_letter", AMBIGUOUS, AMBIGUOUS) /\ dealApp' = dealApp
      BY <2>6 DEF SettleAmbiguous
    <3>2. Outcome(c)' = "held"
      BY <1>1, <2>2, <3>1, OutcomeOpenNext
    <3>3. QED
      BY <1>1, <1>3, <2>1, <2>2, <3>1, <3>2 DEF EndsAs
  <2>7. ASSUME MarkRetryOrDeadLetter(w) PROVE EndsAs(w, c, "failed") \/ Stutters
    <3>1. /\ pc[w] = "retry" /\ dealApp' = dealApp
          /\ \/ SettleWith(w, "dead_letter", "error", "dead_letter")
             \/ SettleWith(w, "pending", "error", dealStatus)
      BY <2>7 DEF MarkRetryOrDeadLetter
    <3>2. CASE SettleWith(w, "dead_letter", "error", "dead_letter")
      <4>1. Outcome(c)' = "failed"
        BY <1>1, <2>2, <3>2, OutcomeOpenNext
      <4>2. QED
        BY <1>1, <1>3, <2>1, <2>2, <3>1, <3>2, <4>1 DEF EndsAs
    <3>3. CASE SettleWith(w, "pending", "error", dealStatus)
      <4>1. Outcome(c)' = "open"
        BY <1>1, <2>2, <3>3, OutcomeOpenNext DEF Open
      <4>2. QED
        BY <1>1, <2>1, <2>2, <3>1, <3>3, <4>1 DEF Stutters
    <3>4. QED
      BY <3>1, <3>2, <3>3
  <2>8. QED
    BY <2>3, <2>4, <2>5, <2>6, <2>7 DEF Endings
<1>4. QED
  BY <1>2, <1>3

\* A fence that passes writes the marker into a row that stays open.
LEMMA FencePromised ==
  ASSUME RInv, TypeOK', NEW w \in Workers, FinalFence(w)
  PROVE  Stutters /\ (pc'[w] = "send" => Open(claim[w]))
<1>1. TypeOK /\ claim[w] \in Commands
  BY DEF RInv, Known, IInv, ClaimsAreExclusive, FinalFence
<1>2. UNCHANGED <<dealStatus, dealApp, held, status>>
  BY DEF FinalFence, dealVars, rowVars
<1>3. CASE lastError' = lastError /\ pc'[w] # "send"
  BY <1>2, <1>3, OutcomeKept DEF Stutters
<1>4. CASE Owns(w) /\ lastError' = [lastError EXCEPT ![claim[w]] = DISPATCH_STARTED]
  <2>1. PICK c \in Commands : c = claim[w]
    BY <1>1
  <2>2. Outcome(c)' = Outcome(c) /\ Open(c)
    BY <1>1, <1>2, <1>4, <2>1, OutcomeOpen, OutcomeOpenNext DEF Owns, Open
  <2>3. \A d \in Commands \ {c} : Outcome(d)' = Outcome(d)
    <3>1. \A d \in Commands \ {c} : lastError'[d] = lastError[d]
      BY <1>1, <1>4, <2>1 DEF TypeOK
    <3>2. QED
      BY <1>2, <3>1, OutcomeKept
  <2>4. QED
    BY <1>2, <2>1, <2>2, <2>3 DEF Stutters
<1>5. QED
  <2>1. \/ lastError' = lastError /\ pc'[w] # "send"
        \/ Owns(w) /\ lastError' = [lastError EXCEPT ![claim[w]] = DISPATCH_STARTED]
    BY <1>1, GoToFrame, ReleaseFrame DEF FinalFence, rowVars, Points, Settling
  <2>2. QED
    BY <1>3, <1>4, <2>1

\* The processor takes what it is sent, which nobody has reported as failed.
LEMMA ProviderPromised ==
  ASSUME RInv, NEW w \in Workers,
         ProviderAccepts(w) \/ ProviderRefuses(w) \/ ProviderUnclear(w)
  PROVE  /\ Stutters \/ \E c \in Commands : Takes(c)
         /\ ProviderAccepts(w) => held'[claim[w]] = 1
<1>1. PICK c \in Commands : c = claim[w] /\ pc[w] = "send"
  BY DEF RInv, Known, IInv, ClaimsAreExclusive, ProviderAccepts, ProviderRefuses,
         ProviderUnclear
<1>2. UNCHANGED <<status, lastError, dealStatus, dealApp>>
  BY DEF ProviderAccepts, ProviderRefuses, ProviderUnclear, dealVars, rowVars
<1>3. \A d \in Commands : Outcome(d)' = Outcome(d)
  BY <1>2, OutcomeKept
<1>4. held[c] = 0 /\ Outcome(c) \in {"open", "held", "refused"} /\ held \in [Commands -> Nat]
  BY <1>1 DEF RInv, Known, IInv, TypeOK, MarkerDiscipline, SendersAlone, PointsAgree,
              PointAgrees
<1>5. /\ held' = held \/ held' = [held EXCEPT ![c] = 1]
      /\ ProviderAccepts(w) => held' = [held EXCEPT ![c] = 1]
  BY <1>1, <1>4 DEF ProviderAccepts, ProviderRefuses, ProviderUnclear
<1>6. QED
  BY <1>1, <1>2, <1>3, <1>4, <1>5 DEF Stutters, Takes

\* What the route, the claims and the case change.
LEMMA QueuePromised ==
  ASSUME RInv, TypeOK',
         \/ \E c \in Commands : Submit(c) \/ ReclaimStale(c)
         \/ \E w \in Workers, c \in Commands : ClaimOne(w, c)
         \/ CaseChange \/ UNCHANGED vars
  PROVE  Promised
<1>1. TypeOK
  BY DEF RInv, Known, IInv
<1>2. ASSUME NEW c \in Commands, Submit(c) PROVE Accepts(c)
  <2>1. /\ status[c] = "absent" /\ status' = [status EXCEPT ![c] = "pending"]
        /\ dealStatus \in Resubmittable /\ dealStatus' = "queued"
        /\ UNCHANGED <<dealApp, lastError, held>>
    BY <1>2 DEF Submit
  <2>2. Outcome(c) = "none" /\ Outcome(c)' = "open"
    BY <1>1, <2>1, OutcomeOpen, OutcomeOpenNext DEF Open, TypeOK
  <2>3. \A d \in Commands \ {c} : Outcome(d)' = Outcome(d)
    BY <1>1, <2>1, OutcomeKept DEF TypeOK
  <2>4. QED
    BY <2>1, <2>2, <2>3 DEF Accepts
<1>3. ASSUME NEW c \in Commands, ReclaimStale(c) \/ \E w \in Workers : ClaimOne(w, c)
      PROVE  Stutters
  <2>1. /\ Open(c) /\ Open(c)' /\ UNCHANGED <<dealStatus, dealApp, lastError, held>>
        /\ \A d \in Commands \ {c} : status'[d] = status[d]
    BY <1>1, <1>3 DEF ReclaimStale, ClaimOne, Open, TypeOK, dealVars
  <2>2. Outcome(c)' = Outcome(c)
    BY <1>1, <2>1, OutcomeOpen, OutcomeOpenNext
  <2>3. \A d \in Commands \ {c} : Outcome(d)' = Outcome(d)
    BY <2>1, OutcomeKept
  <2>4. QED
    BY <2>1, <2>2, <2>3 DEF Stutters
<1>4. CASE CaseChange \/ UNCHANGED vars
  <2>1. UNCHANGED <<dealStatus, dealApp, status, lastError, held>>
    BY <1>4 DEF CaseChange, ReviseApplication, ReviseCase, ToggleReady, ToggleSnapshot,
                dealVars, rowVars, vars
  <2>2. QED
    BY <2>1, OutcomeKept DEF Stutters, Promised
<1>5. QED
  BY <1>2, <1>3, <1>4 DEF Promised

\* Every step is one of those.
LEMMA StepPromised == RInv /\ TypeOK' /\ [Next]_vars => Promised
<1> SUFFICES ASSUME RInv, TypeOK', [Next]_vars PROVE Promised
  OBVIOUS
<1>1. ASSUME NEW w \in Workers,
             \/ LoadDeal(w) \/ CheckLinkage(w) \/ CheckReadiness(w) \/ CheckSnapshot(w)
             \/ CatchFailure(w) \/ Fault(w) \/ Abandon(w)
      PROVE  Promised
  <2>1. UNCHANGED <<dealStatus, dealApp, status, lastError, held>>
    BY <1>1 DEF LoadDeal, CheckLinkage, CheckReadiness, CheckSnapshot, CatchFailure,
                Fault, Abandon, dealVars, rowVars
  <2>2. QED
    BY <2>1, OutcomeKept DEF Stutters, Promised
<1>2. QED
  BY <1>1, SettlementPromised, FencePromised, ProviderPromised, QueuePromised
     DEF Next, Reclaim, Claim, WorkerStep, Promised

-----------------------------------------------------------------------------
(* The invariant *)

\* Accepting and ending a command keep deal and rows in agreement.
LEMMA DealAgreesStep ==
  ASSUME RInv, TypeOK', Promised
  PROVE  DealAgrees'
<1>1. /\ TypeOK /\ DealAgrees
      /\ \A c \in Commands : Open(c) <=> Outcome(c) = "open"
      /\ \A c \in Commands : status[c] = "delivered" <=> Outcome(c) = "delivered"
  BY OutcomeOpen DEF RInv, Known, IInv
<1>2. /\ \A c \in Commands : Open(c)' <=> Outcome(c)' = "open"
      /\ \A c \in Commands : status'[c] = "delivered" <=> Outcome(c)' = "delivered"
  BY OutcomeOpenNext
<1>3. CASE dealStatus' = dealStatus /\ dealApp' = dealApp
           /\ \A c \in Commands : Outcome(c)' = Outcome(c)
  BY <1>1, <1>2, <1>3 DEF DealAgrees
<1>4. ASSUME NEW c \in Commands, Accepts(c) PROVE DealAgrees'
  <2>1. /\ dealApp = None
        /\ \A d \in Commands : Outcome(d) \notin {"open", "held", "delivered"}
    BY <1>1, <1>4 DEF Accepts, DealAgrees, Resubmittable, AMBIGUOUS
  <2>2. \A d \in Commands : Outcome(d)' \notin {"held", "delivered"}
                            /\ (Outcome(d)' = "open" => d = c)
    BY <1>4, <2>1 DEF Accepts
  <2>3. QED
    BY <1>2, <1>4, <2>1, <2>2 DEF Accepts, DealAgrees
<1>5. ASSUME NEW w \in Workers, NEW c \in Commands, NEW how \in Endings, EndsAs(w, c, how)
      PROVE  DealAgrees'
  <2>1. Open(c) /\ dealStatus = "queued" /\ dealApp = None
    BY <1>1, <1>5 DEF EndsAs, DealAgrees
  <2>2. \A d \in Commands \ {c} : Outcome(d) \notin {"open", "held", "delivered"}
    BY <1>1, <2>1 DEF DealAgrees, AMBIGUOUS
  <2>3. \A d \in Commands : Outcome(d)' \in {"open", "held", "delivered"} =>
                              d = c /\ Outcome(d)' = how
    BY <1>5, <2>2 DEF EndsAs
  <2>4. \A d \in Commands : ~Open(d)'
    BY <1>2, <2>3 DEF Endings
  <2>5. \A d \in Commands : Outcome(d)' = "held" => dealStatus' = AMBIGUOUS
    BY <1>5, <2>3 DEF EndsAs
  <2>6. \A d \in Commands : status'[d] = "delivered" => dealStatus' = "submitted"
    BY <1>2, <1>5, <2>3 DEF EndsAs
  <2>7. dealApp' # None => dealStatus' = "submitted"
    BY <1>5, <2>1 DEF EndsAs
  <2>8. QED
    BY <2>4, <2>5, <2>6, <2>7 DEF DealAgrees
<1>6. QED
  BY <1>3, <1>4, <1>5 DEF Promised, Stutters, Takes

\* A step never takes back what a process relies on, whoever takes the step.
LEMMA PointKept ==
  ASSUME RInv, TypeOK', Promised, NEW v \in Workers,
         pc'[v] = pc[v], claim'[v] = claim[v]
  PROVE  PointAgrees(v)'
<1>1. PointAgrees(v) /\ TypeOK
  BY DEF RInv, Known, IInv, PointsAgree
<1>2. CASE pc[v] = "idle"
  BY <1>2 DEF PointAgrees
<1>3. CASE pc[v] # "idle"
  <2>1. PICK c \in Commands : c = claim[v] /\ c = claim'[v]
    BY <1>3 DEF RInv, Known, IInv, ClaimsAreExclusive
  <2>2. Outcome(c) # "none"
    BY <1>1, <1>3, <2>1 DEF PointAgrees
  <2>3. Outcome(c)' # "none"
    BY <2>2 DEF Promised, Stutters, Takes, Accepts, EndsAs, Endings
  <2>4. dealApp # None => dealApp' # None
    BY NoneAssumption DEF Promised, Stutters, Takes, Accepts, EndsAs
  <2>5. held[c] = 1 => held'[c] = 1
    BY <1>1 DEF Promised, Stutters, Takes, Accepts, EndsAs, TypeOK
  <2>6. pc[v] = "send" => Outcome(c)' \in {"open", "held", "refused"}
    <3> SUFFICES ASSUME pc[v] = "send" PROVE Outcome(c)' \in {"open", "held", "refused"}
      OBVIOUS
    <3>1. Outcome(c) \in {"open", "held", "refused"} /\ held[c] = 0 /\ Reached(c)
      BY <1>1, <2>1 DEF PointAgrees, RInv, Known, IInv, MarkerDiscipline, SendersAlone,
                        Reached
    <3>2. ASSUME NEW w \in Workers, NEW how \in Endings, EndsAs(w, c, how)
          PROVE  how \in {"held", "refused"}
      <4>1. how # "delivered"
        BY <3>1, <3>2 DEF EndsAs, RInv, PointsAgree, PointAgrees
      <4>2. how # "failed"
        BY <3>1, <3>2 DEF EndsAs, RInv, Known, IInv, MarkerDiscipline, RetryIsSafe
      <4>3. QED
        BY <4>1, <4>2 DEF Endings
    <3>3. QED
      BY <3>1, <3>2 DEF Promised, Stutters, Takes, Accepts, EndsAs
  <2>7. QED
    BY <1>1, <2>1, <2>3, <2>4, <2>5, <2>6 DEF PointAgrees
<1>4. QED
  BY <1>2, <1>3

\* A process reaches the three points that rely on more from one step each.
LEMMA PointReached ==
  ASSUME TypeOK, NEW w \in Workers, WorkerStep(w) \/ Fault(w) \/ Abandon(w)
  PROVE  /\ pc'[w] = "reconcile" => LoadDeal(w) /\ dealApp # None
         /\ pc'[w] = "commit"    => ProviderAccepts(w)
         /\ pc'[w] = "send"      => FinalFence(w)
<1>1. CASE LoadDeal(w)
  BY <1>1, GoToFrame DEF LoadDeal, Points, BeforeFence, Settling
<1>2. CASE CheckLinkage(w) \/ CheckReadiness(w) \/ CheckSnapshot(w)
  BY <1>2, GoToFrame DEF CheckLinkage, CheckReadiness, CheckSnapshot, Points, BeforeFence,
                         Settling
<1>3. CASE FinalFence(w)
  BY <1>3, GoToFrame, ReleaseFrame DEF FinalFence, Points, Settling
<1>4. CASE ProviderAccepts(w) \/ ProviderUnclear(w)
  BY <1>4, GoToFrame DEF ProviderAccepts, ProviderUnclear, Points, Settling
<1>5. CASE ProviderRefuses(w)
  BY <1>5 DEF ProviderRefuses, TypeOK
<1>6. CASE \/ CommitSuccess(w) \/ Reconcile(w) \/ Refuse(w) \/ RefuseUnconfirmed(w)
           \/ SettleAmbiguous(w) \/ MarkRetryOrDeadLetter(w)
  BY <1>6, SettleFrame DEF CommitSuccess, Reconcile, Refuse, RefuseUnconfirmed,
     SettleAmbiguous, MarkRetryOrDeadLetter
<1>7. CASE CatchFailure(w) \/ Fault(w)
  BY <1>7, GoToFrame DEF CatchFailure, Fault, Points, BeforeFence, Settling
<1>8. CASE Abandon(w)
  BY <1>8, ReleaseFrame DEF Abandon
<1>9. QED
  BY <1>1, <1>2, <1>3, <1>4, <1>5, <1>6, <1>7, <1>8 DEF WorkerStep

\* A process that moves on finds what its new point relies on.
LEMMA PointMoved ==
  ASSUME RInv, TypeOK', Promised, NEW w \in Workers,
         WorkerStep(w) \/ Fault(w) \/ Abandon(w)
  PROVE  PointAgrees(w)'
<1>1. TypeOK /\ Frame(w)
  BY StepFrame DEF RInv, Known, IInv
<1>2. CASE pc'[w] = "idle"
  BY <1>2 DEF PointAgrees
<1>3. CASE pc'[w] # "idle"
  <2>1. PICK c \in Commands : c = claim[w] /\ c = claim'[w]
    BY <1>1, <1>3 DEF Frame, RInv, Known, IInv, ClaimsAreExclusive
  <2>2. Outcome(c) # "none"
    BY <1>1, <2>1 DEF Frame, RInv, PointsAgree, PointAgrees
  <2>3. Outcome(c)' # "none"
    BY <2>2 DEF Promised, Stutters, Takes, Accepts, EndsAs, Endings
  <2>4. pc'[w] = "reconcile" => dealApp' # None
    BY <1>1, PointReached DEF LoadDeal, dealVars
  <2>5. pc'[w] = "commit" => held'[c] = 1
    BY <1>1, <2>1, PointReached, ProviderPromised
  <2>6. pc'[w] = "send" => Outcome(c)' = "open"
    <3> SUFFICES ASSUME pc'[w] = "send" PROVE Outcome(c)' = "open"
      OBVIOUS
    <3>1. Stutters /\ Open(c)
      BY <1>1, <2>1, PointReached, FencePromised
    <3>2. QED
      BY <1>1, <3>1, OutcomeOpen DEF Stutters
  <2>7. QED
    BY <2>1, <2>3, <2>4, <2>5, <2>6 DEF PointAgrees
<1>4. QED
  BY <1>2, <1>3

\* A claim starts with an open row.
LEMMA PointClaimed ==
  ASSUME TypeOK, TypeOK', NEW w \in Workers, NEW c \in Commands, ClaimOne(w, c)
  PROVE  PointAgrees(w)'
<1>1. pc'[w] = "load" /\ claim'[w] = c /\ status'[c] = "processing"
  BY ClaimFrame
<1>2. Outcome(c)' = "open"
  BY <1>1, OutcomeOpenNext DEF Open
<1>3. QED
  BY <1>1, <1>2 DEF PointAgrees

\* Every step keeps what deal, rows and processes rely on.
LEMMA AgreementStep ==
  RInv /\ TypeOK' /\ [Next]_vars => DealAgrees' /\ PointsAgree'
<1> SUFFICES ASSUME RInv, TypeOK', [Next]_vars PROVE DealAgrees' /\ PointsAgree'
  OBVIOUS
<1>1. Promised /\ TypeOK
  BY StepPromised DEF RInv, Known, IInv
<1>2. ASSUME NEW w \in Workers, WorkerStep(w) \/ Fault(w) \/ Abandon(w) PROVE PointsAgree'
  <2>1. \A v \in Workers \ {w} : Kept(v)
    BY <1>1, <1>2, StepFrame DEF Frame
  <2>2. \A v \in Workers \ {w} : PointAgrees(v)'
    BY <1>1, <2>1, PointKept DEF Kept
  <2>3. QED
    BY <1>1, <1>2, <2>2, PointMoved DEF PointsAgree
<1>3. ASSUME NEW w \in Workers, NEW c \in Commands, ClaimOne(w, c) PROVE PointsAgree'
  <2>1. \A v \in Workers \ {w} : Kept(v)
    BY <1>1, <1>3, ClaimFrame
  <2>2. \A v \in Workers \ {w} : PointAgrees(v)'
    BY <1>1, <2>1, PointKept DEF Kept
  <2>3. QED
    BY <1>1, <1>3, <2>2, PointClaimed DEF PointsAgree
<1>4. ASSUME \/ \E c \in Commands : Submit(c) \/ ReclaimStale(c)
             \/ CaseChange \/ UNCHANGED vars
      PROVE  PointsAgree'
  <2>1. pc' = pc /\ claim' = claim
    BY <1>4 DEF Submit, ReclaimStale, CaseChange, ReviseApplication, ReviseCase,
                ToggleReady, ToggleSnapshot, vars, workerVars
  <2>2. QED
    BY <1>1, <2>1, PointKept DEF PointsAgree
<1>5. PointsAgree'
  BY <1>2, <1>3, <1>4 DEF Next, Reclaim, Claim
<1>6. QED
  BY <1>1, <1>5, DealAgreesStep

-----------------------------------------------------------------------------
(* The refinement *)

\* At first nothing is promised.
LEMMA InitPromised == Init => DealAgrees /\ PointsAgree /\ Promise!PromiseInit
<1> SUFFICES ASSUME Init PROVE DealAgrees /\ PointsAgree /\ Promise!PromiseInit
  OBVIOUS
<1>1. /\ dealStatus = "not_submitted" /\ dealApp = None
      /\ held = [c \in Commands |-> 0]
      /\ \A c \in Commands : status[c] = "absent"
      /\ \A w \in Workers : pc[w] = "idle"
  BY DEF Init
<1>2. \A c \in Commands : Outcome(c) = "none" /\ ~Open(c)
  BY <1>1 DEF Outcome, Open, Dead
<1>3. DealAgrees /\ PointsAgree
  BY <1>1, <1>2 DEF DealAgrees, PointsAgree, PointAgrees
<1>4. Promise!PromiseInit
  BY <1>1, <1>2 DEF Promise!PromiseInit, DealStanding, AMBIGUOUS
<1>5. QED
  BY <1>3, <1>4

\* Each of the steps that matter is a step of the promise.
LEMMA StepMaps ==
  ASSUME RInv, TypeOK', Promised
  PROVE  [Promise!PromiseNext]_(Promise!promiseVars)
<1> DEFINE O  == [c \in Commands |-> Outcome(c)]
<1>1. TypeOK /\ DealAgrees /\ AtMostOneApplication
  BY DEF RInv, Known, IInv
<1>2. CASE Stutters
  <2>1. O' = O /\ held' = held /\ DealStanding' = DealStanding
    BY <1>2 DEF Stutters, DealStanding
  <2>2. QED
    BY <2>1 DEF Promise!promiseVars
<1>3. ASSUME NEW c \in Commands, Takes(c) PROVE Promise!Take(c)
  <2>1. /\ O' = O /\ DealStanding' = DealStanding
        /\ held[c] = 0 /\ held' = [held EXCEPT ![c] = 1]
        /\ O[c] \in {"open", "refused", "held"}
    BY <1>3 DEF Takes, DealStanding
  <2>2. QED
    BY <2>1 DEF Promise!Take
<1>4. ASSUME NEW c \in Commands, Accepts(c) PROVE Promise!Accept(c)
  <2>1. DealStanding = "free" /\ DealStanding' = "carried"
    BY <1>4 DEF Accepts, DealStanding, Resubmittable, AMBIGUOUS
  <2>2. \A d \in Commands : O[d] \in {"none", "failed", "refused"}
    <3>1. \A d \in Commands : Outcome(d) \notin {"open", "held", "delivered"}
      BY <1>1, <1>4, OutcomeOpen DEF Accepts, DealAgrees, Resubmittable, AMBIGUOUS
    <3>2. \A d \in Commands :
            Outcome(d) \in {"none", "open", "delivered", "held", "failed", "refused"}
      BY <1>1, OutcomeOpen
    <3>3. QED
      BY <3>1, <3>2
  <2>3. O' = [O EXCEPT ![c] = "open"] /\ O[c] = "none" /\ held' = held
    BY <1>4 DEF Accepts
  <2>4. QED
    BY <2>1, <2>2, <2>3 DEF Promise!Accept
<1>5. ASSUME NEW w \in Workers, NEW c \in Commands, NEW how \in Endings, EndsAs(w, c, how)
      PROVE  Promise!Ends(c, how)
  <2>1. /\ O[c] = "open" /\ O' = [O EXCEPT ![c] = how] /\ held' = held
    BY <1>5 DEF EndsAs
  <2>2. dealStatus = "queued"
    BY <1>1, <1>5, OutcomeOpen DEF EndsAs, DealAgrees
  <2>3. how = "delivered" => held[c] = 1 /\ DealStanding' = "submitted"
    BY <1>5 DEF EndsAs, DealStanding, AMBIGUOUS, RInv, PointsAgree, PointAgrees
  <2>4. how = "failed" => held[c] = 0 /\ DealStanding' = "free"
    <3>1. how = "failed" => ~(held[c] > 0)
      BY <1>5 DEF EndsAs, RInv, Known, IInv, MarkerDiscipline, RetryIsSafe, Reached
    <3>2. how = "failed" => DealStanding' = "free"
      BY <1>5 DEF EndsAs, DealStanding, AMBIGUOUS
    <3>3. QED
      BY <1>1, <3>1, <3>2 DEF TypeOK
  <2>5. how = "refused" => DealStanding' \in {"free", "carried"}
    BY <1>5, <2>2 DEF EndsAs, DealStanding, AMBIGUOUS
  <2>6. how = "held" => DealStanding' = "held"
    BY <1>5 DEF EndsAs, DealStanding, AMBIGUOUS
  <2>7. QED
    BY <2>1, <2>3, <2>4, <2>5, <2>6 DEF Promise!Ends, Endings
<1>6. QED
  BY <1>2, <1>3, <1>4, <1>5 DEF Promised, Promise!PromiseNext, Endings

\* DealBoarding implements BoardingPromise: how a command ended is final and
\* true of the processor and of the deal, whatever a process that lost its claim
\* still does, for any number of commands, processes and attempts.
THEOREM PromiseIsKept == Spec => PromiseKept
<1>1. Init => DealAgrees /\ PointsAgree /\ Promise!PromiseInit
  BY InitPromised
<1>2. /\ TypeOK /\ ClaimsAreExclusive /\ MarkerDiscipline /\ AtMostOneApplication
      /\ DealAgrees /\ PointsAgree /\ TypeOK' /\ [Next]_vars
      => DealAgrees' /\ PointsAgree' /\ [Promise!PromiseNext]_(Promise!promiseVars)
  BY AgreementStep, StepPromised, StepMaps DEF RInv, Known, IInv
<1>3. QED
  BY <1>1, <1>2, TypeCorrect, ClaimsExclusive, MarkerHolds, OneApplication, PTL
     DEF Spec, PromiseKept, Promise!PromiseSpec

-----------------------------------------------------------------------------
(* The remaining safety invariants of DealBoarding, from the refinement: what *)
(* the deal says is true of the processor, a queued deal is carried, and a    *)
(* second application needs a refused command.                                *)

\* The application on file is the delivered one, and it is monitored.
Filed ==
  /\ dealStatus = "submitted" => dealApp # None
  /\ dealApp # None => dealApp \in Commands /\ Outcome(dealApp) = "delivered" /\ monitored

\* Only what was neither unheard of nor reported as failed is at the processor,
\* and what was delivered is.
Taken ==
  \A c \in Commands : /\ held[c] > 0 => Outcome(c) \notin {"none", "failed"}
                      /\ Outcome(c) = "delivered" => held[c] = 1

\* Nothing but commands that failed, were refused or never came.
OnlyRefusedBeside(c) ==
  \A d \in Commands \ {c} : \/ Outcome(d) \in {"none", "failed"}
                            \/ Outcome(d) = "refused" /\ lastError[d] = "refused"

\* A command refused for lack of a snapshot keeps the deal queued: no other
\* command is accepted after it.
Refusals ==
  \A c \in Commands : Outcome(c) = "refused" =>
    \/ lastError[c] = "refused"
    \/ lastError[c] = SNAPSHOT_REQUIRED /\ dealStatus = "queued" /\ OnlyRefusedBeside(c)

\* At most one command is under way, held for a person or delivered.
OneAtATime ==
  \A c, d \in Commands :
    /\ Outcome(c) \in {"open", "held", "delivered"}
    /\ Outcome(d) \in {"open", "held", "delivered"}
    => c = d

OInv == Filed /\ Taken /\ Refusals /\ OneAtATime

-----------------------------------------------------------------------------
\* A settled row stays as it is: every write of a row asks for an open one.
LEMMA SettledStays ==
  ASSUME TypeOK, [Next]_vars, NEW c \in Commands, Settled(c)
  PROVE  status'[c] = status[c] /\ lastError'[c] = lastError[c]
<1>1. ASSUME NEW w \in Workers, NEW s, NEW e, NEW d, SettleWith(w, s, e, d)
      PROVE  status'[c] = status[c] /\ lastError'[c] = lastError[c]
  BY <1>1 DEF SettleWith, SetRow, Owns, Settled, rowVars, TypeOK
<1>2. ASSUME NEW w \in Workers,
             \/ CommitSuccess(w) \/ Reconcile(w) \/ Refuse(w) \/ RefuseUnconfirmed(w)
             \/ SettleAmbiguous(w) \/ MarkRetryOrDeadLetter(w)
      PROVE  status'[c] = status[c] /\ lastError'[c] = lastError[c]
  BY <1>1, <1>2 DEF CommitSuccess, Reconcile, Refuse, RefuseUnconfirmed, SettleAmbiguous,
                    MarkRetryOrDeadLetter
<1>3. ASSUME NEW w \in Workers, FinalFence(w)
      PROVE  status'[c] = status[c] /\ lastError'[c] = lastError[c]
  BY <1>3 DEF FinalFence, Owns, Settled, rowVars, TypeOK
<1>4. ASSUME NEW w \in Workers,
             \/ LoadDeal(w) \/ CheckLinkage(w) \/ CheckReadiness(w) \/ CheckSnapshot(w)
             \/ ProviderAccepts(w) \/ ProviderRefuses(w) \/ ProviderUnclear(w)
             \/ CatchFailure(w) \/ Fault(w) \/ Abandon(w)
      PROVE  status' = status /\ lastError' = lastError
  BY <1>4 DEF LoadDeal, CheckLinkage, CheckReadiness, CheckSnapshot, ProviderAccepts,
              ProviderRefuses, ProviderUnclear, CatchFailure, Fault, Abandon, rowVars
<1>5. ASSUME \/ \E d \in Commands : Submit(d) \/ ReclaimStale(d)
             \/ \E w \in Workers, d \in Commands : ClaimOne(w, d)
      PROVE  status'[c] = status[c] /\ lastError' = lastError
  BY <1>5 DEF Submit, ReclaimStale, ClaimOne, Settled, TypeOK
<1>6. ASSUME CaseChange \/ UNCHANGED vars
      PROVE  status' = status /\ lastError' = lastError
  BY <1>6 DEF CaseChange, ReviseApplication, ReviseCase, ToggleReady, ToggleSnapshot,
              rowVars, vars
<1>7. QED
  BY <1>2, <1>3, <1>4, <1>5, <1>6 DEF Next, Reclaim, Claim, WorkerStep

\* So does a refused command.
LEMMA RefusedStays ==
  ASSUME RInv, [Next]_vars, NEW c \in Commands, Outcome(c) = "refused"
  PROVE  lastError'[c] = lastError[c]
<1>1. TypeOK
  BY DEF RInv, Known, IInv
<1>2. status[c] \notin {"absent", "pending", "processing", "delivered"}
  BY <1>1, OutcomeOpen DEF Open
<1>3. status[c] = "dead_letter"
  BY <1>1, <1>2 DEF TypeOK, RowStatuses
<1>4. QED
  BY <1>1, <1>3, SettledStays DEF Settled

\* Audit and monitoring are never taken back.
LEMMA MonitoredStays ==
  ASSUME RInv, [Next]_vars, monitored
  PROVE  monitored'
<1>1. ASSUME NEW w \in Workers,
             \/ CommitSuccess(w) \/ Reconcile(w) \/ Refuse(w) \/ RefuseUnconfirmed(w)
             \/ SettleAmbiguous(w) \/ MarkRetryOrDeadLetter(w)
      PROVE  monitored'
  BY <1>1, Zenon DEF CommitSuccess, Reconcile, Refuse, RefuseUnconfirmed, SettleAmbiguous,
              MarkRetryOrDeadLetter
<1>2. ASSUME NEW w \in Workers,
             \/ LoadDeal(w) \/ CheckLinkage(w) \/ CheckReadiness(w) \/ CheckSnapshot(w)
             \/ FinalFence(w)
             \/ ProviderAccepts(w) \/ ProviderRefuses(w) \/ ProviderUnclear(w)
             \/ CatchFailure(w) \/ Fault(w) \/ Abandon(w)
      PROVE  monitored' = monitored
  BY <1>2 DEF LoadDeal, CheckLinkage, CheckReadiness, CheckSnapshot, FinalFence,
              ProviderAccepts, ProviderRefuses, ProviderUnclear, CatchFailure, Fault,
              Abandon, dealVars
<1>3. ASSUME \/ \E d \in Commands : Submit(d) \/ ReclaimStale(d)
             \/ \E w \in Workers, d \in Commands : ClaimOne(w, d)
             \/ CaseChange \/ UNCHANGED vars
      PROVE  monitored' = monitored
  BY <1>3 DEF Submit, ReclaimStale, ClaimOne, CaseChange, ReviseApplication, ReviseCase,
              ToggleReady, ToggleSnapshot, dealVars, vars
<1>4. QED
  BY <1>1, <1>2, <1>3 DEF Next, Reclaim, Claim, WorkerStep

\* What a step that accepts or ends a command finds: no other command is under
\* way, and no application is on file.
LEMMA NothingBeside ==
  ASSUME RInv, OInv, NEW c \in Commands,
         (\E w \in Workers, how \in Endings : EndsAs(w, c, how)) \/ Accepts(c)
  PROVE  /\ dealApp = None
         /\ \A d \in Commands \ {c} : Outcome(d) \notin {"open", "held", "delivered"}
         /\ OnlyRefusedBeside(c)
<1>1. TypeOK /\ DealAgrees
  BY DEF RInv, Known, IInv
<1>2. \A d \in Commands :
        /\ Open(d) <=> Outcome(d) = "open"
        /\ status[d] = "delivered" <=> Outcome(d) = "delivered"
        /\ Outcome(d) \in {"none", "open", "delivered", "held", "failed", "refused"}
  BY <1>1, OutcomeOpen
<1>3. \/ Outcome(c) = "open" /\ dealStatus = "queued"
      \/ Outcome(c) = "none" /\ dealStatus \in Resubmittable
  BY <1>1, <1>2 DEF EndsAs, Accepts, DealAgrees
<1>4. /\ dealApp = None
      /\ \A d \in Commands \ {c} : Outcome(d) \notin {"open", "held", "delivered"}
  BY <1>1, <1>2, <1>3 DEF DealAgrees, Resubmittable, AMBIGUOUS
<1>5. ASSUME NEW d \in Commands \ {c}, Outcome(d) = "refused" PROVE lastError[d] = "refused"
  BY <1>3, <1>5 DEF OInv, Refusals, OnlyRefusedBeside, Resubmittable
<1>6. QED
  BY <1>2, <1>4, <1>5 DEF OnlyRefusedBeside

\* A step that accepts and ends nothing keeps all of it.
LEMMA OutcomesKept ==
  ASSUME RInv, OInv, [Next]_vars, Stutters \/ \E c \in Commands : Takes(c)
  PROVE  OInv'
<1>1. /\ TypeOK /\ dealStatus' = dealStatus /\ dealApp' = dealApp
      /\ \A c \in Commands : Outcome(c)' = Outcome(c)
  BY DEF Stutters, Takes, RInv, Known, IInv
<1>2. \A c \in Commands : Outcome(c) = "refused" => lastError'[c] = lastError[c]
  BY RefusedStays
<1>3. Filed'
  BY <1>1, MonitoredStays DEF OInv, Filed
<1>4. Taken'
  <2>1. CASE Stutters
    BY <1>1, <2>1 DEF Stutters, OInv, Taken
  <2>2. ASSUME NEW c \in Commands, Takes(c) PROVE Taken'
    BY <1>1, <2>2 DEF Takes, OInv, Taken, TypeOK
  <2>3. QED
    BY <2>1, <2>2
<1>5. Refusals'
  <2>1. \A c \in Commands : OnlyRefusedBeside(c) => OnlyRefusedBeside(c)'
    BY <1>1, <1>2 DEF OnlyRefusedBeside
  <2>2. QED
    BY <1>1, <1>2, <2>1 DEF OInv, Refusals
<1>6. OneAtATime'
  BY <1>1 DEF OInv, OneAtATime
<1>7. QED
  BY <1>3, <1>4, <1>5, <1>6 DEF OInv

\* So does accepting a request.
LEMMA OutcomesAccepted ==
  ASSUME RInv, OInv, [Next]_vars, NEW c \in Commands, Accepts(c)
  PROVE  OInv'
<1>1. /\ dealStatus' = "queued" /\ dealApp' = None /\ held' = held
      /\ Outcome(c) = "none" /\ Outcome(c)' = "open"
      /\ \A d \in Commands \ {c} : Outcome(d)' = Outcome(d)
  BY NothingBeside DEF Accepts
<1>2. OnlyRefusedBeside(c)
  BY NothingBeside
<1>3. \A d \in Commands \ {c} : Outcome(d) = "refused" => lastError'[d] = "refused"
  BY <1>2, RefusedStays DEF OnlyRefusedBeside
<1>4. Filed'
  BY <1>1 DEF Filed
<1>5. Taken'
  BY <1>1 DEF OInv, Taken
<1>6. Refusals'
  BY <1>1, <1>3 DEF Refusals
<1>7. OneAtATime'
  BY <1>1, NothingBeside DEF OneAtATime
<1>8. QED
  BY <1>4, <1>5, <1>6, <1>7 DEF OInv

\* And ending a command.
LEMMA OutcomesEnded ==
  ASSUME RInv, OInv, [Next]_vars,
         NEW w \in Workers, NEW c \in Commands, NEW how \in Endings, EndsAs(w, c, how)
  PROVE  OInv'
<1>1. /\ TypeOK /\ held' = held /\ Outcome(c) = "open" /\ Outcome(c)' = how
      /\ \A d \in Commands \ {c} : Outcome(d)' = Outcome(d)
      /\ dealStatus = "queued"
  BY OutcomeOpen DEF EndsAs, RInv, Known, IInv, DealAgrees
<1>2. dealApp = None /\ OnlyRefusedBeside(c)
  BY NothingBeside
<1>3. \A d \in Commands \ {c} : Outcome(d) = "refused" => lastError'[d] = "refused"
  BY <1>2, RefusedStays DEF OnlyRefusedBeside
<1>4. OneAtATime'
  BY <1>1, NothingBeside DEF OneAtATime
<1>5. CASE how = "delivered"
  <2>1. dealStatus' = "submitted" /\ dealApp' = c /\ monitored' /\ held[c] = 1
    BY <1>5 DEF EndsAs, RInv, PointsAgree, PointAgrees
  <2>2. Filed'
    BY <1>1, <1>5, <2>1, NoneAssumption DEF Filed
  <2>3. Taken'
    BY <1>1, <1>5, <2>1 DEF OInv, Taken
  <2>4. Refusals'
    BY <1>1, <1>3, <1>5 DEF Refusals
  <2>5. QED
    BY <1>4, <2>2, <2>3, <2>4 DEF OInv
<1>6. CASE how \in {"failed", "held"}
  <2>1. dealStatus' \in {"dead_letter", AMBIGUOUS} /\ dealApp' = None
    BY <1>2, <1>6 DEF EndsAs
  <2>2. how = "failed" => ~(held[c] > 0)
    BY DEF EndsAs, RInv, Known, IInv, MarkerDiscipline, RetryIsSafe, Reached
  <2>3. Filed'
    BY <2>1 DEF Filed, AMBIGUOUS
  <2>4. Taken'
    BY <1>1, <1>6, <2>2 DEF OInv, Taken
  <2>5. Refusals'
    BY <1>1, <1>3, <1>6 DEF Refusals
  <2>6. QED
    BY <1>4, <2>3, <2>4, <2>5 DEF OInv
<1>7. CASE how = "refused"
  <2>1. /\ dealApp' = None
        /\ \/ lastError'[c] = "refused" /\ dealStatus' = "dead_letter"
           \/ lastError'[c] = SNAPSHOT_REQUIRED /\ dealStatus' = "queued"
    BY <1>1, <1>2, <1>7 DEF EndsAs
  <2>2. Filed'
    BY <1>1, <1>7, <2>1 DEF Filed
  <2>3. Taken'
    BY <1>1, <1>7 DEF OInv, Taken
  <2>4. OnlyRefusedBeside(c)'
    BY <1>1, <1>2, <1>3 DEF OnlyRefusedBeside
  <2>5. Refusals'
    BY <1>1, <1>3, <1>7, <2>1, <2>4 DEF Refusals
  <2>6. QED
    BY <1>4, <2>2, <2>3, <2>5 DEF OInv
<1>8. QED
  BY <1>5, <1>6, <1>7 DEF Endings

\* All of them hold for ever, with what they rest on.
LEMMA OutcomesHold == Spec => [](RInv /\ OInv)
<1>1. Init => DealAgrees /\ PointsAgree
  BY InitPromised
<1>2. Init => OInv
  <2> SUFFICES ASSUME Init PROVE OInv
    OBVIOUS
  <2>1. /\ dealStatus = "not_submitted" /\ dealApp = None
        /\ \A c \in Commands : status[c] = "absent" /\ held[c] = 0
    BY DEF Init
  <2>2. \A c \in Commands : Outcome(c) = "none"
    BY <2>1 DEF Outcome, Open, Dead
  <2>3. QED
    BY <2>1, <2>2 DEF OInv, Filed, Taken, Refusals, OneAtATime
<1>3. /\ TypeOK /\ ClaimsAreExclusive /\ MarkerDiscipline /\ AtMostOneApplication
      /\ DealAgrees /\ PointsAgree /\ OInv /\ TypeOK' /\ [Next]_vars
      => DealAgrees' /\ PointsAgree' /\ OInv'
  BY AgreementStep, StepPromised, OutcomesKept, OutcomesAccepted, OutcomesEnded
     DEF RInv, Known, IInv, Promised
<1>4. TypeOK /\ ClaimsAreExclusive /\ MarkerDiscipline /\ AtMostOneApplication
        /\ DealAgrees /\ PointsAgree /\ OInv => RInv /\ OInv
  BY DEF RInv, Known, IInv
<1>5. QED
  BY <1>1, <1>2, <1>3, <1>4, TypeCorrect, ClaimsExclusive, MarkerHolds, OneApplication, PTL
     DEF Spec

-----------------------------------------------------------------------------
\* An in-flight deal names an application that the processor holds, whose command
\* is settled as delivered, and which is audited and monitored.
THEOREM SubmissionHolds == Spec => []SubmissionIsReal
<1>1. RInv /\ OInv => SubmissionIsReal
  BY OutcomeOpen DEF RInv, Known, IInv, OInv, Filed, Taken, SubmissionIsReal
<1>2. QED
  BY <1>1, OutcomesHold, PTL

\* A second application for the deal needs a command that was refused after an
\* earlier attempt had reached the processor.
THEOREM DuplicateHolds == Spec => []DuplicateOnlyAfterRefusal
<1>1. ASSUME RInv, OInv PROVE DuplicateOnlyAfterRefusal
  <2> SUFFICES ASSUME NEW c \in Commands, NEW d \in Commands, held[c] > 0, held[d] > 0,
                      c # d, lastError[c] # "refused", lastError[d] # "refused"
               PROVE  FALSE
    BY DEF DuplicateOnlyAfterRefusal
  <2>1. /\ Outcome(c) \in {"open", "delivered", "held", "refused"}
        /\ Outcome(d) \in {"open", "delivered", "held", "refused"}
    BY <1>1, OutcomeOpen DEF RInv, Known, IInv, OInv, Taken
  <2>2. Outcome(c) # "refused" /\ Outcome(d) # "refused"
    BY <1>1, <2>1 DEF OInv, Refusals, OnlyRefusedBeside
  <2>3. QED
    BY <1>1, <2>1, <2>2 DEF OInv, OneAtATime
<1>2. QED
  BY <1>1, OutcomesHold, PTL
=============================================================================
