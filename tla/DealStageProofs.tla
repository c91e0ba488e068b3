-------------------------- MODULE DealStageProofs --------------------------
(***************************************************************************)
(* Proofs about DealStage, for any stages, effects, commands, decisions    *)
(* and sweeps: type correctness, effects at most once, receipts that tell  *)
(* what was done, settled intents that stay settled; and, for an           *)
(* onboarding deal with one sweep, that the outside CRM is never left      *)
(* behind unnoticed.                                                       *)
(***************************************************************************)
EXTENDS DealStage, TLAPS

-----------------------------------------------------------------------------
(* Types, by the groups of variables that an action changes together *)

DealTyped   == stage \in Stages /\ moves \in Nat
ReadyTyped == goLive \in BOOLEAN
CaseTyped   ==
  /\ decision \in 0..MaxDecisions
  /\ overridden \in [1..MaxDecisions -> Actions \cup {"none"}]
  /\ used \subseteq Commands
IntentTyped ==
  /\ status \in [Intents -> States] /\ tries \in [Intents -> Nat]
  /\ lease \in [Intents -> Workers \cup {None}]
ReceiptTyped == receipt \in [Intents -> Receipts]
EffectTyped  == performed \in [Intents -> Nat] /\ remote \in Stages
SweepTyped ==
  /\ pc \in [Workers -> Points]
  /\ intent \in [Workers -> Intents \cup {None}]
  /\ attempt \in [Workers -> Nat]
  /\ seen \in [Workers -> Stages]
  /\ failure \in [Workers -> Failures]

LEMMA TypeParts ==
  TypeOK <=> /\ DealTyped /\ ReadyTyped /\ CaseTyped /\ IntentTyped
             /\ ReceiptTyped /\ EffectTyped /\ SweepTyped
BY DEF TypeOK, DealTyped, ReadyTyped, CaseTyped, IntentTyped, ReceiptTyped,
       EffectTyped, SweepTyped

\* The same after a step.
LEMMA TypePartsNext ==
  TypeOK' <=> /\ DealTyped' /\ ReadyTyped' /\ CaseTyped' /\ IntentTyped'
              /\ ReceiptTyped' /\ EffectTyped' /\ SweepTyped'
BY DEF TypeOK, DealTyped, ReadyTyped, CaseTyped, IntentTyped, ReceiptTyped,
       EffectTyped, SweepTyped

\* What a step leaves alone keeps its type.
LEMMA Kept ==
  ASSUME TypeOK
  PROVE  /\ UNCHANGED dealVars => DealTyped'
         /\ UNCHANGED goLive => ReadyTyped'
         /\ UNCHANGED caseVars => CaseTyped'
         /\ UNCHANGED intentVars => IntentTyped'
         /\ UNCHANGED receipt => ReceiptTyped'
         /\ UNCHANGED effectVars => EffectTyped'
         /\ UNCHANGED workerVars => SweepTyped'
BY TypeParts DEF DealTyped, ReadyTyped, CaseTyped, IntentTyped, ReceiptTyped,
       EffectTyped, SweepTyped, dealVars, caseVars, intentVars,
       effectVars, workerVars

LEMMA InitTyped == Init => TypeOK
<1> SUFFICES ASSUME Init PROVE TypeOK
  OBVIOUS
<1>1. FirstStage \in Stages /\ MaxDecisions \in Nat
  BY StagesAssumption, BoundsAssumption
<1>2. DealTyped /\ CaseTyped
  BY <1>1 DEF Init, DealTyped, CaseTyped
<1>3. ReadyTyped
  BY DEF Init, ReadyTyped
<1>4. IntentTyped /\ ReceiptTyped /\ EffectTyped
  BY <1>1 DEF Init, IntentTyped, ReceiptTyped, EffectTyped, States, Receipts
<1>5. SweepTyped
  BY <1>1 DEF Init, SweepTyped, Points, Failures
<1>6. QED
  BY <1>2, <1>3, <1>4, <1>5, TypeParts

LEMMA InsertTyped ==
  ASSUME IntentTyped, NEW new, Insert(new)
  PROVE  status' \in [Intents -> States]
BY DEF IntentTyped, Insert, States

\* Moves, overrides, decisions and readiness.
LEMMA DealStepTyped == TypeOK /\ DealStep => TypeOK'
<1> SUFFICES ASSUME TypeOK, DealStep PROVE TypeOK'
  OBVIOUS
<1>0. DealTyped /\ ReadyTyped /\ CaseTyped /\ IntentTyped
  BY TypeParts
<1>1. ASSUME NEW to \in Stages, NEW o \in BOOLEAN, AdvanceDealStage(to, o)
      PROVE  TypeOK'
  <2>1. UNCHANGED <<goLive, caseVars, tries, lease, receipt, effectVars, workerVars>>
    BY <1>1 DEF AdvanceDealStage
  <2>2. DealTyped'
    BY <1>0, <1>1 DEF AdvanceDealStage, Move, DealTyped
  <2>3. IntentTyped'
    BY <1>0, <1>1, <2>1, InsertTyped DEF AdvanceDealStage, IntentTyped
  <2>4. QED
    BY <2>1, <2>2, <2>3, Kept, TypePartsNext
<1>2. ASSUME NEW c \in Commands, NEW a \in Actions, ApplyUnderwritingOverride(c, a)
      PROVE  TypeOK'
  <2>1. UNCHANGED <<goLive, decision, tries, lease, receipt, effectVars, workerVars>>
    BY <1>2 DEF ApplyUnderwritingOverride
  <2>2. DealTyped'
    BY <1>0, <1>2 DEF ApplyUnderwritingOverride, Move, DealTyped, dealVars
  <2>3. \E new : Insert(new)
    BY <1>2 DEF ApplyUnderwritingOverride
  <2>4. IntentTyped'
    BY <1>0, <2>1, <2>3, InsertTyped DEF IntentTyped
  <2>5. CaseTyped'
    BY <1>0, <1>2, <2>1 DEF ApplyUnderwritingOverride, CaseTyped
  <2>6. QED
    BY <2>1, <2>2, <2>4, <2>5, Kept, TypePartsNext
<1>3. CASE Decide
  <2>1. CaseTyped'
    BY <1>0, <1>3, BoundsAssumption DEF Decide, CaseTyped
  <2>2. QED
    BY <1>3, <2>1, Kept, TypePartsNext DEF Decide
<1>4. CASE ChangeReadiness
  <2>1. ReadyTyped'
    BY <1>0, <1>4 DEF ChangeReadiness, ReadyTyped
  <2>2. QED
    BY <1>4, <2>1, Kept, TypePartsNext DEF ChangeReadiness
<1>5. QED
  BY <1>1, <1>2, <1>3, <1>4 DEF DealStep

LEMMA MoveTyped ==
  ASSUME SweepTyped, NEW w \in Workers,
         \/ \E p \in Points : GoTo(w, p)
         \/ \E k \in Failures : GoFail(w, k)
         \/ Release(w)
  PROVE  SweepTyped'
<1>1. CASE \E p \in Points : GoTo(w, p)
  BY <1>1 DEF SweepTyped, GoTo
<1>2. CASE \E k \in Failures : GoFail(w, k)
  BY <1>2 DEF SweepTyped, GoFail, Points
<1>3. CASE Release(w)
  BY <1>3, StagesAssumption DEF SweepTyped, Release, Points, Failures
<1>4. QED
  BY <1>1, <1>2, <1>3

\* The steps of a sweep.
LEMMA SweepStepTyped ==
  ASSUME TypeOK, NEW w \in Workers,
         Claim(w) \/ WorkerStep(w) \/ Fault(w) \/ Abandon(w)
  PROVE  TypeOK'
<1>0. DealTyped /\ IntentTyped /\ ReceiptTyped /\ EffectTyped /\ SweepTyped
  BY TypeParts
<1>p. /\ {"receipt", "read", "record", "skip", "complete"} \subseteq Points
      /\ {"error", "deferred", "reconcile"} \subseteq Failures
  BY DEF Points, Failures
<1>1. UNCHANGED <<dealVars, goLive, caseVars>>
  BY DEF Claim, ClaimDue, ClaimExpired, Take, WorkerStep, Gate, BeginReceipt, Dismiss,
         ReadDeal, Perform, CompleteReceipt, Complete, Fail, Fault, Abandon
<1>2. DealTyped' /\ ReadyTyped' /\ CaseTyped'
  BY <1>1, Kept
<1>3. ASSUME NEW i \in Intents, Take(w, i)
      PROVE  TypeOK'
  <2>1. NextTry(i) \in Nat
    BY <1>0 DEF NextTry, IntentTyped
  <2>2. IntentTyped'
    BY <1>0, <1>3, <2>1 DEF Take, IntentTyped, States
  <2>3. SweepTyped'
    BY <1>0, <1>3, <2>1 DEF Take, SweepTyped, Points
  <2>4. QED
    BY <1>2, <1>3, <2>2, <2>3, Kept, TypePartsNext DEF Take
<1>4. CASE Gate(w) \/ Dismiss(w) \/ Fault(w) \/ Abandon(w)
  <2>1. SweepTyped'
    BY <1>0, <1>p, <1>4, MoveTyped DEF Gate, Dismiss, Fault, Abandon
  <2>2. QED
    BY <1>2, <1>4, <2>1, Kept, TypePartsNext DEF Gate, Dismiss, Fault, Abandon
<1>5. CASE BeginReceipt(w) \/ CompleteReceipt(w)
  <2>1. SweepTyped'
    BY <1>0, <1>p, <1>5, MoveTyped DEF BeginReceipt, CompleteReceipt
  <2>2. ReceiptTyped'
    BY <1>0, <1>5 DEF BeginReceipt, CompleteReceipt, Disposition, ReceiptTyped, Receipts
  <2>3. QED
    BY <1>2, <1>5, <2>1, <2>2, Kept, TypePartsNext DEF BeginReceipt, CompleteReceipt
<1>6. CASE ReadDeal(w)
  <2>1. SweepTyped'
    BY <1>0, <1>6 DEF ReadDeal, SweepTyped, DealTyped, Points
  <2>2. QED
    BY <1>2, <1>6, <2>1, Kept, TypePartsNext DEF ReadDeal
<1>7. CASE Perform(w)
  <2>1. SweepTyped'
    BY <1>0, <1>p, <1>7, MoveTyped DEF Perform
  <2>2. EffectTyped'
    <3>1. performed \in [Intents -> Nat] /\ remote \in Stages /\ seen[w] \in Stages
      BY <1>0 DEF EffectTyped, SweepTyped
    <3>2. /\ performed' = [performed EXCEPT ![intent[w]] = performed[intent[w]] + 1]
          /\ remote' \in {seen[w], remote}
      BY <1>7 DEF Perform, TakeEffect
    <3>3. performed' \in [Intents -> Nat]
      <4>1. CASE intent[w] \in Intents
        <5>1. performed[intent[w]] + 1 \in Nat
          BY <3>1, <4>1
        <5>2. QED
          BY <3>1, <3>2, <5>1
      <4>2. CASE intent[w] \notin Intents
        BY <3>1, <3>2, <4>2
      <4>3. QED
        BY <4>1, <4>2
    <3>4. QED
      BY <3>1, <3>2, <3>3 DEF EffectTyped
  <2>3. QED
    BY <1>2, <1>7, <2>1, <2>2, Kept, TypePartsNext DEF Perform
<1>8. CASE Complete(w) \/ Fail(w)
  <2>1. SweepTyped'
    BY <1>0, <1>8, MoveTyped DEF Complete, Fail
  <2>2. FailedState(w) \in States
    BY DEF FailedState, States
  <2>3. status' \in [Intents -> States] /\ lease' \in [Intents -> Workers \cup {None}]
    BY <1>0, <1>8, <2>2 DEF Complete, Fail, Settle, IntentTyped, intentVars, States
  <2>4. tries' \in [Intents -> Nat]
    <3>1. CASE tries' = tries
      BY <1>0, <3>1 DEF IntentTyped
    <3>2. CASE /\ tries[intent[w]] > 0
               /\ tries' = [tries EXCEPT ![intent[w]] = tries[intent[w]] - 1]
      <4>1. tries \in [Intents -> Nat]
        BY <1>0 DEF IntentTyped
      <4>2. CASE intent[w] \in Intents
        <5>1. tries[intent[w]] - 1 \in Nat
          BY <3>2, <4>1, <4>2
        <5>2. QED
          BY <3>2, <4>1, <5>1
      <4>3. CASE intent[w] \notin Intents
        BY <3>2, <4>1, <4>3
      <4>4. QED
        BY <4>2, <4>3
    <3>3. QED
      BY <1>8, <3>1, <3>2 DEF Complete, Fail, intentVars
  <2>5. QED
    BY <1>2, <1>8, <2>1, <2>3, <2>4, Kept, TypePartsNext DEF Complete, Fail, IntentTyped
<1>9. QED
  BY <1>3, <1>4, <1>5, <1>6, <1>7, <1>8 DEF Claim, ClaimDue, ClaimExpired, WorkerStep

LEMMA NextTyped == TypeOK /\ [Next]_vars => TypeOK'
<1> SUFFICES ASSUME TypeOK, [Next]_vars PROVE TypeOK'
  OBVIOUS
<1>1. CASE UNCHANGED vars
  BY <1>1, Kept, TypePartsNext DEF vars
<1>2. QED
  BY <1>1, DealStepTyped, SweepStepTyped DEF Next

\* Every reachable state has the types of the tables.
THEOREM StageTypeCorrect == Spec => []TypeOK
BY InitTyped, NextTyped, PTL DEF Spec

-----------------------------------------------------------------------------
(* Effects and receipts *)

\* The points behind the side-effect boundary.
Begun == {"read", "perform", "record", "skip"}

\* A sweep works on an intent that was inserted.
Engaged ==
  \A w \in Workers :
    pc[w] # "idle" => intent[w] \in Intents /\ status[intent[w]] # "absent"

\* What the columns of an intent say about its effect.
Recorded ==
  \A i \in Intents :
    /\ status[i] = "absent" => receipt[i] = "none"
    /\ status[i] = "succeeded" => Concluded(i)
    /\ receipt[i] = "none" => performed[i] = 0
    /\ receipt[i] = "applied" => performed[i] = 1 \/ i.effect \in Silent
    /\ receipt[i] = "waived" => performed[i] = 0
    /\ performed[i] <= 1

\* A sweep behind the boundary has the receipt open, and the effect did not take
\* place until it is performed.
Boundary ==
  \A w \in Workers :
    /\ pc[w] \in Begun => receipt[intent[w]] = "processing"
    /\ pc[w] \in {"read", "perform", "skip"} => performed[intent[w]] = 0
    /\ pc[w] = "record" => performed[intent[w]] = 1
    /\ pc[w] = "complete" => Concluded(intent[w])

\* One sweep at most is behind the boundary of an intent.
OneBegun ==
  \A v, w \in Workers :
    pc[v] \in Begun /\ pc[w] \in Begun /\ intent[v] = intent[w] => v = w

EffectInv == TypeOK /\ Engaged /\ Recorded /\ Boundary /\ OneBegun

\* What a step of w may not touch.
Alone(w) ==
  \A v \in Workers \ {w} : pc'[v] = pc[v] /\ intent'[v] = intent[v] /\ seen'[v] = seen[v]

\* The possible next points of w: another one on the same intent, or none.
LEMMA SweepMoves ==
  ASSUME TypeOK, NEW w \in Workers, WorkerStep(w) \/ Fault(w) \/ Abandon(w)
  PROVE  /\ Alone(w) /\ pc[w] # "idle"
         /\ pc'[w] = "idle" \/ intent'[w] = intent[w]
<1>1. pc[w] # "idle"
  BY DEF WorkerStep, Gate, BeginReceipt, ReadDeal, Perform, CompleteReceipt, Complete,
         Dismiss, Fail, Fault, Abandon
<1>2. CASE \/ Release(w)
           \/ \E p \in Points : GoTo(w, p)
           \/ \E k \in Failures : GoFail(w, k)
  BY <1>1, <1>2 DEF TypeOK, Release, GoTo, GoFail, Alone
<1>3. CASE ReadDeal(w)
  BY <1>1, <1>3 DEF TypeOK, ReadDeal, Alone
<1>4. /\ {"receipt", "read", "record", "skip", "complete"} \subseteq Points
      /\ {"error", "deferred", "reconcile"} \subseteq Failures
  BY DEF Points, Failures
<1>5. QED
  BY <1>2, <1>3, <1>4
     DEF WorkerStep, Gate, BeginReceipt, Dismiss, Perform, CompleteReceipt, Complete, Fail,
         Fault, Abandon

\* Steps that change neither receipts nor effects, nor pass the boundary.
LEMMA QuietStep ==
  ASSUME EffectInv, TypeOK', UNCHANGED <<receipt, performed>>,
         \A i \in Intents :
           /\ status[i] # "absent" => status'[i] # "absent"
           /\ status'[i] = "absent" => status[i] = "absent"
           /\ status'[i] = "succeeded" => Concluded(i),
         NEW w \in Workers, Alone(w),
         pc'[w] # "idle" => intent'[w] \in Intents /\ status'[intent'[w]] # "absent",
         \/ pc'[w] \notin Begun \cup {"complete"}
         \/ pc'[w] = "complete" /\ Concluded(intent'[w])
         \/ pc[w] = "read" /\ pc'[w] \in {"perform", "skip"} /\ intent'[w] = intent[w]
  PROVE  EffectInv'
<1> USE DEF EffectInv, Alone, Begun, Concluded
<1>1. Engaged'
  BY DEF Engaged
<1>2. Recorded'
  BY DEF Recorded
<1>3. Boundary'
  BY DEF Boundary
<1>4. OneBegun'
  BY DEF OneBegun
<1>5. QED
  BY <1>1, <1>2, <1>3, <1>4

\* A move of the deal inserts intents and touches nothing else of them.
LEMMA DealStepInserts ==
  ASSUME TypeOK, DealStep
  PROVE  /\ UNCHANGED <<receipt, effectVars, workerVars>>
         /\ \A i \in Intents : \/ status'[i] = status[i]
                               \/ status[i] = "absent" /\ status'[i] = "pending"
<1>1. UNCHANGED <<receipt, effectVars, workerVars>>
  BY DEF DealStep, AdvanceDealStage, ApplyUnderwritingOverride, Decide, ChangeReadiness
<1>2. (\E new : Insert(new)) \/ status' = status
  BY DEF DealStep, AdvanceDealStage, ApplyUnderwritingOverride, Decide, ChangeReadiness, intentVars
<1>3. QED
  BY <1>1, <1>2 DEF Insert

LEMMA DealStepEffects == ASSUME EffectInv, DealStep PROVE EffectInv'
<1> USE DEF Concluded
<1>1. TypeOK'
  BY DealStepTyped DEF EffectInv
<1>2. /\ UNCHANGED <<receipt, performed, pc, intent>>
      /\ \A i \in Intents : \/ status'[i] = status[i]
                            \/ status[i] = "absent" /\ status'[i] = "pending"
  BY DealStepInserts DEF EffectInv, effectVars, workerVars
<1>3. Engaged' /\ Boundary' /\ OneBegun'
  BY <1>2 DEF EffectInv, Engaged, Boundary, OneBegun
<1>4. Recorded'
  BY <1>2 DEF EffectInv, Recorded
<1>5. QED
  BY <1>1, <1>3, <1>4 DEF EffectInv

LEMMA ClaimEffects == ASSUME EffectInv, NEW w \in Workers, Claim(w) PROVE EffectInv'
<1> USE DEF Concluded
<1>1. TypeOK /\ TypeOK'
  BY SweepStepTyped DEF EffectInv
<1>2. PICK i \in Intents : Take(w, i) /\ status[i] \in {"pending", "retryable", "processing"}
  BY DEF Claim, ClaimDue, ClaimExpired
<1>3. /\ UNCHANGED <<receipt, performed>> /\ Alone(w)
      /\ pc'[w] = "gate" /\ intent'[w] = i /\ status'[i] = "processing"
      /\ \A j \in Intents \ {i} : status'[j] = status[j]
  BY <1>1, <1>2 DEF Take, TypeOK, Alone, effectVars
<1>4. \A j \in Intents : status[j] = "succeeded" => Concluded(j)
  BY DEF EffectInv, Recorded
<1>5. QED
  BY <1>1, <1>2, <1>3, <1>4, QuietStep DEF Begun

LEMMA SettlementEffects ==
  ASSUME EffectInv, NEW w \in Workers, Complete(w) \/ Fail(w)
  PROVE  EffectInv'
<1> USE DEF Concluded
<1>1. TypeOK /\ TypeOK'
  BY SweepStepTyped DEF EffectInv, WorkerStep
<1>2. Alone(w) /\ UNCHANGED <<receipt, performed>> /\ pc'[w] = "idle" /\ pc[w] # "idle"
  BY <1>1, SweepMoves DEF WorkerStep, Complete, Fail, effectVars, Release, TypeOK
<1>3. FailedState(w) \in {"terminal_failed", "reconcile_required", "retryable"}
  BY DEF FailedState
<1>4. intent[w] \in Intents /\ (pc[w] = "complete" => Concluded(intent[w]))
  BY <1>2 DEF EffectInv, Engaged, Boundary
<1>5. \A i \in Intents :
        /\ i # intent[w] => status'[i] = status[i]
        /\ \/ status'[i] = status[i]
           \/ status'[i] \in {"terminal_failed", "reconcile_required", "retryable"}
           \/ i = intent[w] /\ status'[i] = "succeeded" /\ Concluded(i)
  BY <1>1, <1>3, <1>4 DEF Complete, Fail, Settle, TypeOK, intentVars
<1>6. \A i \in Intents : status'[i] = "absent" <=> status[i] = "absent"
  <2>1. status[intent[w]] # "absent"
    BY <1>2 DEF EffectInv, Engaged
  <2>2. QED
    BY <1>5, <2>1
<1>7. \A i \in Intents : status[i] = "succeeded" => Concluded(i)
  BY DEF EffectInv, Recorded
<1>8. QED
  BY <1>1, <1>2, <1>5, <1>6, <1>7, QuietStep DEF Begun

LEMMA GateEffects ==
  ASSUME EffectInv, NEW w \in Workers,
         Gate(w) \/ Dismiss(w) \/ ReadDeal(w) \/ Fault(w) \/ Abandon(w)
  PROVE  EffectInv'
<1> USE DEF Concluded
<1>1. TypeOK /\ TypeOK'
  BY SweepStepTyped DEF EffectInv, WorkerStep
<1>2. /\ pc'[w] = "idle" \/ intent'[w] = intent[w]
      /\ Alone(w) /\ pc[w] # "idle"
  BY <1>1, SweepMoves DEF WorkerStep
<1>3. UNCHANGED <<receipt, performed, status>>
  BY DEF Gate, Dismiss, ReadDeal, Fault, Abandon, intentVars, effectVars
<1>4. intent[w] \in Intents /\ status[intent[w]] # "absent"
  BY <1>2 DEF EffectInv, Engaged
<1>5. \/ pc'[w] \in {"receipt", "fail", "idle"}
      \/ pc[w] = "read" /\ pc'[w] \in {"perform", "skip"} /\ intent'[w] = intent[w]
  BY <1>1 DEF Gate, Dismiss, ReadDeal, Fault, Abandon, GoTo, GoFail, Release, TypeOK
<1>6. \A i \in Intents : status[i] = "succeeded" => Concluded(i)
  BY DEF EffectInv, Recorded
<1>7. QED
  BY <1>1, <1>2, <1>3, <1>4, <1>5, <1>6, QuietStep DEF Begun

\* The receipt of an intent is begun once: the second sweep is turned away.
LEMMA BeginEffects ==
  ASSUME EffectInv, NEW w \in Workers, BeginReceipt(w)
  PROVE  EffectInv'
<1> USE DEF Concluded
<1> DEFINE i == intent[w]
<1>1. TypeOK /\ TypeOK' /\ Recorded /\ Boundary /\ OneBegun /\ Engaged
  BY SweepStepTyped DEF EffectInv, WorkerStep
<1>2. Alone(w) /\ pc[w] = "receipt" /\ UNCHANGED <<performed, status, intent>>
  BY <1>1, SweepMoves DEF WorkerStep, BeginReceipt, intentVars, effectVars, GoTo, GoFail
<1>3. i \in Intents /\ status[i] # "absent"
  BY <1>1, <1>2 DEF Engaged
<1>4. CASE receipt[i] = "none"
  <2>1. /\ pc'[w] = "read" /\ receipt'[i] = "processing"
        /\ \A j \in Intents \ {i} : receipt'[j] = receipt[j]
    BY <1>1, <1>3, <1>4 DEF BeginReceipt, GoTo, TypeOK
  <2>2. \A v \in Workers \ {w} : intent[v] = i => pc[v] \notin Begun \cup {"complete"}
    BY <1>1, <1>4 DEF Boundary
  <2>3. performed[i] = 0
    BY <1>1, <1>3, <1>4 DEF Recorded
  <2>4. Engaged'
    BY <1>1, <1>2, <1>3 DEF Engaged, Alone
  <2>5. Recorded'
    <3> SUFFICES ASSUME NEW j \in Intents
                 PROVE  /\ status[j] = "absent" => receipt'[j] = "none"
                        /\ status[j] = "succeeded" => receipt'[j] \in {"applied", "waived"}
                        /\ receipt'[j] = "none" => performed[j] = 0
                        /\ receipt'[j] = "applied" => performed[j] = 1 \/ j.effect \in Silent
                        /\ receipt'[j] = "waived" => performed[j] = 0
                        /\ performed[j] <= 1
      BY <1>2 DEF Recorded
    <3>1. CASE j = i
      BY <1>1, <1>3, <1>4, <2>1, <2>3, <3>1 DEF Recorded
    <3>2. CASE j # i
      BY <1>1, <2>1, <3>2 DEF Recorded
    <3>3. QED
      BY <3>1, <3>2
  <2>6. Boundary'
    <3> SUFFICES ASSUME NEW v \in Workers
                 PROVE  /\ pc'[v] \in Begun => receipt'[intent'[v]] = "processing"
                        /\ pc'[v] \in {"read", "perform", "skip"} => performed'[intent'[v]] = 0
                        /\ pc'[v] = "record" => performed'[intent'[v]] = 1
                        /\ pc'[v] = "complete" => Concluded(intent[v])'
      BY DEF Boundary
    <3>1. CASE v = w
      BY <1>2, <2>1, <2>3, <3>1
    <3>2. CASE v # w /\ pc[v] \in Begun \cup {"complete"}
      <4>1. pc'[v] = pc[v] /\ intent'[v] = intent[v] /\ intent[v] \in Intents \ {i}
        BY <1>1, <1>2, <2>2, <3>2 DEF Engaged, Alone, Begun
      <4>2. QED
        BY <1>1, <1>2, <2>1, <4>1 DEF Boundary
    <3>3. CASE v # w /\ pc[v] \notin Begun \cup {"complete"}
      BY <1>2, <3>3 DEF Alone, Begun
    <3>4. QED
      BY <3>1, <3>2, <3>3
  <2>7. OneBegun'
    BY <1>1, <1>2, <2>2 DEF OneBegun, Alone
  <2>8. QED
    BY <1>1, <2>4, <2>5, <2>6, <2>7 DEF EffectInv
<1>5. CASE receipt[i] # "none"
  <2>1. /\ UNCHANGED receipt
        /\ pc'[w] = "fail" \/ (pc'[w] = "complete" /\ Concluded(i))
    <3>1. /\ UNCHANGED receipt
          /\ (GoTo(w, "complete") /\ Concluded(i)) \/ GoFail(w, "reconcile")
      BY <1>5 DEF BeginReceipt
    <3>2. pc \in [Workers -> Points]
      BY <1>1 DEF TypeOK
    <3>3. QED
      BY <3>1, <3>2 DEF GoTo, GoFail
  <2>2. \A j \in Intents : status[j] = "succeeded" => Concluded(j)
    BY <1>1 DEF Recorded
  <2>3. QED
    BY <1>1, <1>2, <1>3, <2>1, <2>2, QuietStep DEF Begun
<1>6. QED
  BY <1>4, <1>5

\* The effect takes place, with an answer or without.
LEMMA PerformEffects ==
  ASSUME EffectInv, NEW w \in Workers, Perform(w)
  PROVE  EffectInv'
<1> USE DEF Concluded
<1> DEFINE i == intent[w]
<1>1. TypeOK /\ TypeOK' /\ Recorded /\ Boundary /\ OneBegun /\ Engaged
  BY SweepStepTyped DEF EffectInv, WorkerStep
<1>2. Alone(w) /\ pc[w] = "perform" /\ UNCHANGED <<receipt, status, intent>>
  BY <1>1, SweepMoves DEF WorkerStep, Perform, intentVars, GoTo, GoFail
<1>3. i \in Intents /\ receipt[i] = "processing" /\ performed[i] = 0
  BY <1>1, <1>2 DEF Engaged, Boundary, Begun
<1>4. /\ pc'[w] \in {"record", "fail"} /\ performed'[i] = 1
      /\ \A j \in Intents \ {i} : performed'[j] = performed[j]
  <2>1. performed' = [performed EXCEPT ![i] = performed[i] + 1]
    BY DEF Perform, TakeEffect
  <2>2. performed \in [Intents -> Nat] /\ pc' \in [Workers -> Points] /\ pc \in [Workers -> Points]
    BY <1>1 DEF TypeOK
  <2>3. performed'[i] = 1 /\ \A j \in Intents \ {i} : performed'[j] = performed[j]
    <3>1. performed \in [Intents -> Nat]
      BY <1>1 DEF TypeOK
    <3>2. QED
      BY <1>3, <2>1, <3>1
  <2>4. pc'[w] \in {"record", "fail"}
    BY <2>2 DEF Perform, GoTo, GoFail
  <2>5. QED
    BY <2>3, <2>4
<1>5. \A v \in Workers \ {w} : intent[v] = i => pc[v] \notin Begun \cup {"complete"}
  BY <1>1, <1>2, <1>3 DEF Boundary, OneBegun, Begun
<1>6. Engaged'
  BY <1>1, <1>2, <1>3 DEF Engaged, Alone
<1>7. Recorded'
  BY <1>1, <1>2, <1>3, <1>4 DEF Recorded
<1>8. Boundary'
  <2> SUFFICES ASSUME NEW v \in Workers
               PROVE  /\ pc'[v] \in Begun => receipt'[intent'[v]] = "processing"
                      /\ pc'[v] \in {"read", "perform", "skip"} => performed'[intent'[v]] = 0
                      /\ pc'[v] = "record" => performed'[intent'[v]] = 1
                      /\ pc'[v] = "complete" => Concluded(intent[v])'
    BY DEF Boundary
  <2>1. CASE v = w
    BY <1>2, <1>3, <1>4, <2>1 DEF Begun
  <2>2. CASE v # w /\ pc[v] \in Begun \cup {"complete"}
    <3>1. pc'[v] = pc[v] /\ intent'[v] = intent[v] /\ intent[v] \in Intents \ {i}
      BY <1>1, <1>2, <1>5, <2>2 DEF Engaged, Alone, Begun
    <3>2. QED
      BY <1>1, <1>2, <1>4, <3>1 DEF Boundary
  <2>3. CASE v # w /\ pc[v] \notin Begun \cup {"complete"}
    BY <1>2, <2>3 DEF Alone, Begun
  <2>4. QED
    BY <2>1, <2>2, <2>3
<1>9. OneBegun'
  BY <1>1, <1>2, <1>4, <1>5 DEF OneBegun, Alone, Begun
<1>10. QED
  BY <1>1, <1>6, <1>7, <1>8, <1>9 DEF EffectInv

\* The receipt is completed by the one sweep that performed the effect.
LEMMA RecordEffects ==
  ASSUME EffectInv, NEW w \in Workers, CompleteReceipt(w)
  PROVE  EffectInv'
<1> USE DEF Concluded
<1> DEFINE i == intent[w]
<1>1. TypeOK /\ TypeOK' /\ Recorded /\ Boundary /\ OneBegun /\ Engaged
  BY SweepStepTyped DEF EffectInv, WorkerStep
<1>2. Alone(w) /\ pc[w] \in {"record", "skip"} /\ UNCHANGED <<performed, status, intent>>
  BY <1>1, SweepMoves DEF WorkerStep, CompleteReceipt, intentVars, effectVars, GoTo
<1>3. /\ i \in Intents /\ status[i] # "absent"
      /\ performed[i] = IF pc[w] = "record" THEN 1 ELSE 0
  BY <1>1, <1>2 DEF Engaged, Boundary
<1>4. /\ pc'[w] = "complete" /\ receipt'[i] \in {"applied", "waived"}
      /\ receipt'[i] = "applied" => performed[i] = 1 \/ i.effect \in Silent
      /\ receipt'[i] = "waived" => performed[i] = 0
      /\ \A j \in Intents \ {i} : receipt'[j] = receipt[j]
  BY <1>1, <1>2, <1>3 DEF CompleteReceipt, Disposition, GoTo, TypeOK
<1>5. \A v \in Workers \ {w} : intent[v] = i => pc[v] \notin Begun
  BY <1>1, <1>2 DEF OneBegun, Begun
<1>6. Engaged'
  BY <1>1, <1>2, <1>3 DEF Engaged, Alone
<1>7. Recorded'
  BY <1>1, <1>2, <1>3, <1>4 DEF Recorded
<1>8. Boundary'
  <2> SUFFICES ASSUME NEW v \in Workers
               PROVE  /\ pc'[v] \in Begun => receipt'[intent'[v]] = "processing"
                      /\ pc'[v] \in {"read", "perform", "skip"} => performed'[intent'[v]] = 0
                      /\ pc'[v] = "record" => performed'[intent'[v]] = 1
                      /\ pc'[v] = "complete" => Concluded(intent[v])'
    BY DEF Boundary
  <2>1. CASE v = w
    BY <1>2, <1>4, <2>1 DEF Begun
  <2>2. CASE v # w /\ pc[v] \in Begun
    <3>1. pc'[v] = pc[v] /\ intent'[v] = intent[v] /\ intent[v] \in Intents \ {i}
      BY <1>1, <1>2, <1>5, <2>2 DEF Engaged, Alone, Begun
    <3>2. QED
      BY <1>1, <1>2, <1>4, <3>1 DEF Boundary, Begun
  <2>3. CASE v # w /\ pc[v] = "complete"
    BY <1>1, <1>2, <1>4, <2>3 DEF Boundary, Engaged, Alone, Begun
  <2>4. CASE v # w /\ pc[v] \notin Begun \cup {"complete"}
    BY <1>2, <2>4 DEF Alone, Begun
  <2>5. QED
    BY <2>1, <2>2, <2>3, <2>4
<1>9. OneBegun'
  BY <1>1, <1>2, <1>4 DEF OneBegun, Alone, Begun
<1>10. QED
  BY <1>1, <1>6, <1>7, <1>8, <1>9 DEF EffectInv

LEMMA InitEffects == Init => EffectInv
<1> SUFFICES ASSUME Init PROVE EffectInv
  OBVIOUS
<1>1. TypeOK
  BY InitTyped
<1>2. Engaged /\ Boundary /\ OneBegun
  BY DEF Init, Engaged, Boundary, OneBegun, Begun
<1>3. Recorded
  BY DEF Init, Recorded
<1>4. QED
  BY <1>1, <1>2, <1>3 DEF EffectInv

LEMMA NextEffects == EffectInv /\ [Next]_vars => EffectInv'
<1> SUFFICES ASSUME EffectInv, [Next]_vars PROVE EffectInv'
  OBVIOUS
<1>1. CASE UNCHANGED vars
  BY <1>1 DEF EffectInv, TypeOK, Engaged, Recorded, Concluded, Boundary, OneBegun, vars, dealVars,
       caseVars, intentVars, effectVars, workerVars
<1>2. CASE DealStep
  BY <1>2, DealStepEffects
<1>3. ASSUME NEW w \in Workers, Claim(w) \/ WorkerStep(w) \/ Fault(w) \/ Abandon(w)
      PROVE  EffectInv'
  BY <1>3, ClaimEffects, GateEffects, BeginEffects, PerformEffects, RecordEffects,
     SettlementEffects, Zenon DEF WorkerStep
<1>4. QED
  BY <1>1, <1>2, <1>3 DEF Next

LEMMA SpecEffects == Spec => []EffectInv
BY InitEffects, NextEffects, PTL DEF Spec

\* Over lost answers, expired leases, crashes, retries and any number of sweeps
\* the effect of an intent takes place at most once.
THEOREM EffectsAtMostOnce == Spec => []EffectAtMostOnce
<1>1. EffectInv => EffectAtMostOnce
  BY DEF EffectInv, Recorded, EffectAtMostOnce
<1>2. QED
  BY <1>1, SpecEffects, PTL

\* An intent that is reported as succeeded has a complete receipt, and the receipt
\* tells whether the effect took place, but for the two silent effects.
THEOREM SuccessesAreReal == Spec => []SuccessIsReal
<1>1. EffectInv => SuccessIsReal
  BY DEF EffectInv, Recorded, SuccessIsReal
<1>2. QED
  BY <1>1, SpecEffects, PTL

\* A settled intent never changes again, whatever a sweep without its lease does.
THEOREM SettledIntentsFinal == Spec => SettledIsFinal
<1>1. ASSUME EffectInv, [Next]_vars, NEW i \in Intents, Settled(i)
      PROVE  status'[i] = status[i] /\ tries'[i] = tries[i]
  <2>1. /\ status[i] \notin {"absent", "pending", "retryable", "processing"}
        /\ TypeOK
    BY <1>1 DEF Settled, EffectInv
  <2>2. CASE UNCHANGED intentVars
    BY <2>2 DEF intentVars
  <2>3. CASE DealStep
    <3>1. tries' = tries
      BY <2>3 DEF DealStep, AdvanceDealStage, ApplyUnderwritingOverride, Decide,
           ChangeReadiness, intentVars
    <3>2. QED
      BY <2>1, <2>3, <3>1, DealStepInserts
  <2>4. ASSUME NEW w \in Workers, Claim(w)
        PROVE  status'[i] = status[i] /\ tries'[i] = tries[i]
    BY <2>1, <2>4 DEF Claim, ClaimDue, ClaimExpired, Take, TypeOK
  <2>5. ASSUME NEW w \in Workers, Complete(w) \/ Fail(w)
        PROVE  status'[i] = status[i] /\ tries'[i] = tries[i]
    <3>1. CASE ~Holds(w)
      BY <2>5, <3>1 DEF Complete, Fail, intentVars
    <3>2. CASE Holds(w)
      <4>1. intent[w] # i
        BY <2>1, <3>2 DEF Holds
      <4>2. status'[i] = status[i]
        BY <2>1, <2>5, <4>1 DEF Complete, Fail, Settle, intentVars, TypeOK
      <4>3. tries'[i] = tries[i]
        BY <2>1, <2>5, <4>1 DEF Complete, Fail, intentVars, TypeOK
      <4>4. QED
        BY <4>2, <4>3
    <3>3. QED
      BY <3>1, <3>2
  <2>6. ASSUME NEW w \in Workers, \/ Gate(w) \/ BeginReceipt(w) \/ Dismiss(w) \/ ReadDeal(w)
                                  \/ Perform(w) \/ CompleteReceipt(w) \/ Fault(w) \/ Abandon(w)
        PROVE  UNCHANGED intentVars
    BY <2>6 DEF Gate, BeginReceipt, Dismiss, ReadDeal, Perform, CompleteReceipt, Fault,
         Abandon
  <2>7. CASE UNCHANGED vars
    BY <2>2, <2>7 DEF vars
  <2>8. QED
    BY <1>1, <2>2, <2>3, <2>4, <2>5, <2>6, <2>7 DEF Next, WorkerStep
<1>2. EffectInv /\ [Next]_vars =>
        [\A i \in Intents : Settled(i) =>
           status'[i] = status[i] /\ tries'[i] = tries[i]]_vars
  BY <1>1
<1>3. QED
  BY <1>2, SpecEffects, PTL DEF Spec, SettledIsFinal

-----------------------------------------------------------------------------
(* The projection of the stage *)

\* An onboarding deal, projected to the outside CRM, with one sweep at a time.
ProjectedOnboarding ==
  /\ Pipeline = "onboarding" /\ "ghl_projection" \in Effects
  /\ \A s \in Stages : \E k \in 1..10 : OnboardingOrder[k] = s
  /\ \A v, w \in Workers : v = w

\* The place of an onboarding stage.
Pos(s) == CHOOSE k \in 1..10 : OnboardingOrder[k] = s

\* A projection of the deal that was asked for; one of the present stage.
Projection(i) == i.effect = "ghl_projection" /\ status[i] # "absent"
Current(i)    == Projection(i) /\ i.to = stage

\* No projection is ahead of the deal.
Forward ==
  \A i \in Intents : Projection(i) => i.to \in Stages /\ Pos(i.to) <= Pos(stage)

\* The present stage has a projection, unless the deal has never moved.
Entered ==
  \/ remote = stage /\ \A i \in Intents : status[i] = "absent"
  \/ \E i \in Intents : Current(i)

\* Once the projection of the present stage took place the outside CRM shows
\* the stage, and an effect on its way after that has read it.
Shown ==
  \A i \in Intents : Current(i) =>
    /\ receipt[i] = "applied" => remote = stage
    /\ \A w \in Workers :
         /\ pc[w] = "record" /\ intent[w] = i => remote = stage
         /\ pc[w] = "perform" /\ receipt[i] # "none" => seen[w] = stage

MirrorInv == Forward /\ Entered /\ Shown

LEMMA OrderInjective ==
  /\ DOMAIN OnboardingOrder = 1..10
  /\ \A j, k \in 1..10 : OnboardingOrder[j] = OnboardingOrder[k] => j = k
  /\ \A k \in 1..10 : OnboardingOrder[k] \notin
        {"Closed Lost", "Nurture / Not Now", "Proposal Sent", "Review In Progress"}
BY DEF OnboardingOrder

LEMMA PosOf ==
  ASSUME ProjectedOnboarding, NEW s \in Stages
  PROVE  Pos(s) \in 1..10 /\ OnboardingOrder[Pos(s)] = s
BY DEF ProjectedOnboarding, Pos

\* An onboarding deal only moves forward.
LEMMA LegalForward ==
  ASSUME ProjectedOnboarding, NEW from \in Stages, NEW to \in Stages, Legal(from, to)
  PROVE  Pos(from) < Pos(to)
<1>1. /\ Pos(from) \in 1..10 /\ OnboardingOrder[Pos(from)] = from
      /\ Pos(to) \in 1..10 /\ OnboardingOrder[Pos(to)] = to
  BY PosOf
<1>2. from \notin {"Proposal Sent", "Review In Progress"}
      /\ to \notin {"Closed Lost", "Nurture / Not Now"}
  BY <1>1, OrderInjective
<1>3. PICK i \in 1..10, j \in 1..10 :
        OnboardingOrder[i] = from /\ OnboardingOrder[j] = to /\ i < j
  BY <1>2, OrderInjective DEF Legal, Order, ProjectedOnboarding
<1>4. i = Pos(from) /\ j = Pos(to)
  BY <1>1, <1>3, OrderInjective
<1>5. QED
  BY <1>3, <1>4

\* An underwriting override moves sales deals only.
LEMMA NoOverride ==
  ASSUME ProjectedOnboarding, NEW c \in Commands, NEW a \in Actions,
         ApplyUnderwritingOverride(c, a)
  PROVE  FALSE
<1>1. Target(a) \in Stages /\ Target(a) \in {"Proposal Sent", "Review In Progress"}
  BY DEF ApplyUnderwritingOverride, Target
<1>2. QED
  BY <1>1, PosOf, OrderInjective

\* Entering a stage asks for its projection, which nobody has begun.
LEMMA AdvanceMirror ==
  ASSUME ProjectedOnboarding, EffectInv, MirrorInv,
         NEW to \in Stages, NEW o \in BOOLEAN, AdvanceDealStage(to, o)
  PROVE  MirrorInv'
<1> DEFINE new == MoveIntents(to)
           mine == MoveIntent(stage, to, "ghl_projection")
<1>1. TypeOK /\ stage \in Stages /\ stage' = to /\ Insert(new)
      /\ UNCHANGED <<receipt, remote, pc, intent, seen>>
  BY DEF EffectInv, TypeOK, AdvanceDealStage, Move, effectVars, workerVars
<1>2. Pos(stage) < Pos(to) /\ Pos(stage) \in 1..10 /\ Pos(to) \in 1..10
  BY <1>1, LegalForward, PosOf DEF AdvanceDealStage, Move
<1>3. \A i \in Intents : Projection(i) => i.to \in Stages /\ Pos(i.to) <= Pos(stage)
  BY DEF MirrorInv, Forward
<1>4. \A i \in new : i.to = to
  BY DEF MoveIntents, MoveIntent
<1>5. PICK m \in Intents : m \in new /\ m.to = to /\ m.effect = "ghl_projection"
  <2>1. "ghl_projection" \in MaterialEffects(to)
    BY DEF MaterialEffects, ProjectedOnboarding
  <2>2. mine \in Intents
    <3>1. stage # to
      BY DEF AdvanceDealStage
    <3>2. "ghl_projection" \in Effects \ OverrideEffects
      BY DEF ProjectedOnboarding, OverrideEffects
    <3>3. QED
      BY <1>1, <3>1, <3>2 DEF MoveIntent, Intents
  <2>3. QED
    BY <2>1, <2>2 DEF MoveIntents, MoveIntent
<1>6. \A i \in Intents : /\ status'[i] # "absent" => status[i] # "absent" \/ i \in new
                         /\ i \in new => status'[i] # "absent"
  BY <1>1 DEF Insert, TypeOK
<1>7. Current(m)'
  BY <1>1, <1>5, <1>6 DEF Current, Projection
<1>8. Forward'
  <2> SUFFICES ASSUME NEW i \in Intents, Projection(i)'
               PROVE  i.to \in Stages /\ Pos(i.to) <= Pos(to)
    BY <1>1 DEF Forward, Pos
  <2>1. CASE i \in new
    BY <1>2, <1>4, <2>1
  <2>2. CASE Projection(i)
    <3>1. Pos(i.to) <= Pos(stage)
      BY <1>3, <2>2
    <3>2. i.to \in Stages /\ Pos(i.to) \in 1..10
      BY <1>3, <2>2, PosOf
    <3>3. QED
      BY <1>2, <3>1, <3>2
  <2>3. QED
    BY <1>6, <2>1, <2>2 DEF Projection
<1>9. Shown'
  <2> SUFFICES ASSUME NEW i \in Intents, Current(i)'
               PROVE  /\ receipt[i] = "none"
                      /\ \A w \in Workers : pc[w] # "idle" => intent[w] # i
    BY <1>1 DEF Shown, EffectInv, Boundary, Begun
  <2>1. i.to = to /\ i.effect = "ghl_projection"
    BY <1>1 DEF Current, Projection
  <2>2. ~Projection(i)
    BY <1>2, <1>3, <2>1
  <2>3. status[i] = "absent"
    BY <2>1, <2>2 DEF Projection
  <2>4. QED
    BY <2>3 DEF EffectInv, Recorded, Engaged
<1>10. QED
  BY <1>5, <1>7, <1>8, <1>9 DEF MirrorInv, Entered

\* Inserted intents stay inserted, and the stage does not move under a sweep.
LEMMA SweepKeeps ==
  ASSUME EffectInv, NEW w \in Workers,
         Claim(w) \/ WorkerStep(w) \/ Fault(w) \/ Abandon(w)
  PROVE  /\ stage' = stage
         /\ \A i \in Intents : status'[i] = "absent" <=> status[i] = "absent"
         /\ \E i \in Intents : status[i] # "absent"
<1>1. TypeOK /\ stage' = stage
  BY DEF EffectInv, Claim, ClaimDue, ClaimExpired, Take, WorkerStep, Gate, Dismiss, BeginReceipt,
         ReadDeal, Perform, CompleteReceipt, Complete, Fail, Fault, Abandon, dealVars
<1>2. ASSUME NEW i \in Intents, Take(w, i), status[i] # "absent"
      PROVE  /\ \A j \in Intents : status'[j] = "absent" <=> status[j] = "absent"
             /\ \E j \in Intents : status[j] # "absent"
  BY <1>1, <1>2 DEF Take, TypeOK
<1>3. CASE WorkerStep(w) \/ Fault(w) \/ Abandon(w)
  <2>1. intent[w] \in Intents /\ status[intent[w]] # "absent"
    BY <1>1, <1>3, SweepMoves DEF EffectInv, Engaged
  <2>2. CASE Complete(w) \/ Fail(w)
    <3>1. FailedState(w) # "absent"
      BY DEF FailedState
    <3>2. \A i \in Intents : \/ status'[i] = status[i]
                             \/ i = intent[w] /\ status'[i] # "absent"
      BY <1>1, <2>2, <3>1 DEF Complete, Fail, Settle, TypeOK, intentVars
    <3>3. QED
      BY <1>1, <2>1, <3>2
  <2>3. CASE UNCHANGED status
    BY <1>1, <2>1, <2>3
  <2>4. QED
    BY <1>3, <2>2, <2>3 DEF WorkerStep, Gate, BeginReceipt, Dismiss, ReadDeal, Perform,
       CompleteReceipt, Fault, Abandon, intentVars
<1>4. QED
  BY <1>1, <1>2, <1>3 DEF Claim, ClaimDue, ClaimExpired

\* With one sweep: what its step does to the projection of the present stage.
LEMMA SweepMirror ==
  ASSUME ProjectedOnboarding, EffectInv, MirrorInv, NEW w \in Workers,
         Claim(w) \/ WorkerStep(w) \/ Fault(w) \/ Abandon(w)
  PROVE  MirrorInv'
<1>1. TypeOK /\ \A v \in Workers : v = w
  BY DEF EffectInv, ProjectedOnboarding
<1>2. /\ stage' = stage
      /\ \A i \in Intents : /\ Projection(i)' <=> Projection(i)
                            /\ Current(i)' <=> Current(i)
      /\ \E i \in Intents : status[i] # "absent"
  BY SweepKeeps DEF Projection, Current
<1>3. PICK c \in Intents : Current(c)
  BY <1>2 DEF MirrorInv, Entered
<1>4. Forward' /\ Entered'
  BY <1>2, <1>3 DEF MirrorInv, Forward, Entered, Pos
<1>5. \A i \in Intents : Current(i) =>
        /\ receipt[i] = "applied" => remote = stage
        /\ pc[w] = "record" /\ intent[w] = i => remote = stage
        /\ pc[w] = "perform" /\ receipt[i] # "none" => seen[w] = stage
  BY DEF MirrorInv, Shown
<1>6. SUFFICES ASSUME NEW i \in Intents, Current(i)
               PROVE  /\ receipt'[i] = "applied" => remote' = stage
                      /\ pc'[w] = "record" /\ intent'[w] = i => remote' = stage
                      /\ pc'[w] = "perform" /\ receipt'[i] # "none" => seen'[w] = stage
  BY <1>1, <1>2, <1>4 DEF MirrorInv, Shown
<1>7. CASE /\ UNCHANGED <<receipt, remote>> /\ pc'[w] \notin {"record", "perform"}
  BY <1>5, <1>6, <1>7
<1>8. CASE Claim(w) \/ Gate(w) \/ Dismiss(w) \/ Fault(w) \/ Abandon(w) \/ Complete(w) \/ Fail(w)
  <2>1. pc'[w] \in {"gate", "receipt", "skip", "fail", "idle"}
    BY <1>1, <1>8 DEF TypeOK, Claim, ClaimDue, ClaimExpired, Take, Gate, Dismiss, Fault, Abandon,
         Complete, Fail, GoTo, GoFail, Release
  <2>2. UNCHANGED <<receipt, remote>>
    BY <1>8 DEF Claim, ClaimDue, ClaimExpired, Take, Gate, Dismiss, Fault, Abandon, Complete, Fail,
         effectVars
  <2>3. QED
    BY <1>7, <2>1, <2>2
<1>9. CASE ReadDeal(w)
  <2>1. UNCHANGED <<receipt, remote>> /\ pc'[w] = "perform" /\ seen'[w] = stage
    BY <1>1, <1>9 DEF TypeOK, ReadDeal, effectVars
  <2>2. QED
    BY <1>5, <1>6, <2>1
<1>10. CASE BeginReceipt(w)
  <2>1. remote' = remote /\ pc'[w] \in {"read", "complete", "fail"}
    BY <1>1, <1>10 DEF TypeOK, BeginReceipt, GoTo, GoFail, effectVars
  <2>2. receipt'[i] = "applied" => receipt[i] = "applied"
    BY <1>1, <1>10 DEF TypeOK, BeginReceipt
  <2>3. QED
    BY <1>5, <1>6, <2>1, <2>2
<1>11. CASE CompleteReceipt(w)
  <2>1. remote' = remote /\ pc'[w] = "complete" /\ pc[w] \in {"record", "skip"}
    BY <1>1, <1>11 DEF TypeOK, CompleteReceipt, GoTo, effectVars
  <2>2. receipt'[i] = "applied" =>
        receipt[i] = "applied" \/ (i = intent[w] /\ pc[w] = "record")
    <3>1. i.effect \notin Silent
      BY <1>6 DEF Current, Projection, Silent
    <3>2. QED
      BY <1>1, <1>11, <3>1 DEF TypeOK, CompleteReceipt, Disposition
  <2>3. QED
    BY <1>5, <1>6, <2>1, <2>2
<1>12. CASE Perform(w)
  <2>1. /\ UNCHANGED <<receipt, intent>> /\ pc[w] = "perform" /\ pc'[w] \in {"record", "fail"}
        /\ remote' = IF intent[w].effect = "ghl_projection" THEN seen[w] ELSE remote
    BY <1>1, <1>12 DEF TypeOK, Perform, TakeEffect, GoTo, GoFail
  <2>2. receipt[intent[w]] = "processing"
    BY <2>1 DEF EffectInv, Boundary, Begun
  <2>3. i.effect = "ghl_projection"
    BY <1>6 DEF Current, Projection
  <2>4. receipt[i] = "applied" => remote' = stage
    BY <1>5, <1>6, <2>1
  <2>5. intent[w] = i => remote' = stage
    BY <1>5, <1>6, <2>1, <2>2, <2>3
  <2>6. QED
    BY <2>1, <2>4, <2>5
<1>13. QED
  BY <1>8, <1>9, <1>10, <1>11, <1>12 DEF WorkerStep

LEMMA InitMirror == Init => MirrorInv
BY DEF Init, MirrorInv, Forward, Entered, Shown, Current, Projection

LEMMA NextMirror ==
  ASSUME ProjectedOnboarding, EffectInv, MirrorInv, [Next]_vars
  PROVE  MirrorInv'
<1>1. CASE UNCHANGED <<stage, status, receipt, remote, pc, intent, seen>>
  BY <1>1 DEF MirrorInv, Forward, Entered, Shown, Current, Projection, Pos
<1>2. CASE UNCHANGED vars \/ Decide \/ ChangeReadiness
  BY <1>1, <1>2 DEF Decide, ChangeReadiness, vars, dealVars, intentVars, effectVars, workerVars
<1>3. ASSUME NEW to \in Stages, NEW o \in BOOLEAN, AdvanceDealStage(to, o)
      PROVE  MirrorInv'
  BY <1>3, AdvanceMirror
<1>4. ASSUME NEW w \in Workers, Claim(w) \/ WorkerStep(w) \/ Fault(w) \/ Abandon(w)
      PROVE  MirrorInv'
  BY <1>4, SweepMirror
<1>5. QED
  BY <1>2, <1>3, <1>4, NoOverride DEF Next, DealStep

\* An onboarding deal, one sweep: whenever the outside CRM shows another stage
\* than the deal has, the projection of the present stage is pending, under way,
\* known as failed, or was waived because no CRM was configured.
\* Two sweeps may project out of order, and a sales deal that goes back and forth
\* meets its old intents, so neither hypothesis can be left out.
THEOREM MirrorTracked ==
  ASSUME ProjectedOnboarding
  PROVE  Spec => []MirrorIsTracked
<1>1. EffectInv /\ MirrorInv => MirrorIsTracked
  <2> SUFFICES ASSUME EffectInv, MirrorInv, remote # stage
               PROVE  \E i \in Intents :
                        /\ i.effect = "ghl_projection" /\ i.to = stage
                        /\ status[i] # "absent"
                        /\ status[i] # "succeeded" \/ receipt[i] = "waived"
    BY DEF MirrorIsTracked
  <2>1. PICK i \in Intents : Current(i)
    BY DEF MirrorInv, Entered
  <2>2. receipt[i] # "applied"
    BY <2>1 DEF MirrorInv, Shown
  <2>3. status[i] = "succeeded" => receipt[i] = "waived"
    BY <2>2 DEF EffectInv, Recorded, Concluded
  <2>4. QED
    BY <2>1, <2>3 DEF Current, Projection
<1>2. EffectInv /\ MirrorInv /\ [Next]_vars => MirrorInv'
  BY NextMirror
<1>3. QED
  BY <1>1, <1>2, InitMirror, SpecEffects, PTL DEF Spec
=============================================================================
