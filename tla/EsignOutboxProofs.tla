------------------------- MODULE EsignOutboxProofs -------------------------
(***************************************************************************)
(* Proofs about EsignOutbox, for any number of rows, processes and         *)
(* attempts: type correctness, exclusive claims, the retry budget, settled *)
(* rows that stay settled; and, for an application with one row, that one  *)
(* request sends one agreement until the merchant has signed it.           *)
(***************************************************************************)
EXTENDS EsignOutbox, FiniteSetTheorems, TLAPS

-----------------------------------------------------------------------------
(* Types *)

LocalTyped ==
  /\ pc \in [Workers -> Points] /\ row \in [Workers -> Rows \cup {None}]
  /\ token \in [Workers -> 0..MaxAttempts] /\ seen \in [Workers -> BOOLEAN]
  /\ failure \in [Workers -> {"none", "wait", "hold", "error"}]

AppTyped ==
  /\ sendState \in {"idle", "queued", "sent", "failed"}
  /\ docState \in {"pending", "sent", "signed"} /\ document \in BOOLEAN

RowsTyped ==
  /\ status \in [Rows -> RowStates] /\ attempts \in [Rows -> 0..MaxAttempts]
  /\ held \in [Rows -> BOOLEAN] /\ spent \in [Rows -> Nat]

CountsTyped == sends \in 0..MaxSends /\ unsettled \in Nat

LEMMA TypeParts == TypeOK <=> LocalTyped /\ AppTyped /\ RowsTyped /\ CountsTyped
BY DEF TypeOK, LocalTyped, AppTyped, RowsTyped, CountsTyped

\* The same after a step.
LEMMA TypePartsNext == TypeOK' <=> LocalTyped' /\ AppTyped' /\ RowsTyped' /\ CountsTyped'
BY DEF TypeOK, LocalTyped, AppTyped, RowsTyped, CountsTyped

\* Another point, a failure and the end of a tick keep the types of a process.
LEMMA MoveTyped ==
  ASSUME LocalTyped, NEW w \in Workers,
         \/ \E p \in Points : GoTo(w, p)
         \/ \E k \in {"wait", "hold", "error"} : GoFail(w, k)
         \/ Release(w)
  PROVE  LocalTyped'
<1> MaxAttempts \in Nat
  BY BoundsAssumption
<1>1. CASE \E p \in Points : GoTo(w, p)
  BY <1>1 DEF LocalTyped, GoTo, localVars
<1>2. CASE \E k \in {"wait", "hold", "error"} : GoFail(w, k)
  BY <1>2 DEF LocalTyped, GoFail, Points
<1>3. CASE Release(w)
  BY <1>3 DEF LocalTyped, Release, Points
<1>4. QED
  BY <1>1, <1>2, <1>3

LEMMA SendStateTyped ==
  ASSUME AppTyped, NEW s \in {"idle", "queued", "sent", "failed"}, ApplySendState(s)
  PROVE  AppTyped'
BY DEF AppTyped, ApplySendState

\* What the handler does to the application and to its own point.
LEMMA HandlerTyped ==
  ASSUME TypeOK, NEW w \in Workers,
         \/ AssertCurrentClaim(w) \/ Load(w) \/ Resent(w) \/ ReadMarkers(w)
         \/ MarkIdle(w) \/ AssertOutboundNotPaused(w) \/ RecordUnconfirmed(w)
         \/ MarkFailed(w) \/ RecordDocument(w) \/ MarkSent(w) \/ Fault(w) \/ Abandon(w)
  PROVE  TypeOK'
<1>1. UNCHANGED <<unsettled, sends, rowVars>>
  BY DEF AssertCurrentClaim, Load, Resent, ReadMarkers, MarkIdle,
         AssertOutboundNotPaused, RecordUnconfirmed, MarkFailed, RecordDocument,
         MarkSent, Fault, Abandon
<1>2. RowsTyped' /\ CountsTyped'
  BY <1>1, TypeParts DEF RowsTyped, CountsTyped, rowVars
<1>3. LocalTyped /\ AppTyped
  BY TypeParts
<1>4. /\ {"load", "deliver", "idle_state", "pause", "mark", "sent_state", "resent", "markers"} \subseteq Points
  BY DEF Points, Working
<1>5. LocalTyped'
  <2>1. CASE Load(w)
    BY <2>1, <1>3, <1>4 DEF Load, LocalTyped, AppTyped
  <2>2. CASE ~Load(w)
    BY <2>2, <1>3, <1>4, MoveTyped
       DEF AssertCurrentClaim, Resent, ReadMarkers, MarkIdle,
           AssertOutboundNotPaused, RecordUnconfirmed, MarkFailed, RecordDocument,
           MarkSent, Fault, Abandon
  <2>3. QED
    BY <2>1, <2>2
<1>6. AppTyped'
  <2>1. CASE Resent(w) \/ MarkIdle(w) \/ MarkFailed(w) \/ MarkSent(w)
    BY <2>1, <1>3, SendStateTyped DEF Resent, MarkIdle, MarkFailed, MarkSent
  <2>2. CASE RecordDocument(w)
    BY <2>2, <1>3 DEF RecordDocument, AppTyped, appVars
  <2>3. CASE UNCHANGED appVars
    BY <2>3, <1>3 DEF AppTyped, appVars
  <2>4. QED
    BY <2>1, <2>2, <2>3
       DEF AssertCurrentClaim, Load, ReadMarkers, AssertOutboundNotPaused,
           RecordUnconfirmed, Fault, Abandon
<1>7. QED
  BY <1>2, <1>5, <1>6, TypePartsNext

\* Marker, call and refusal; a refusal must find its own marker.
LEMMA DispatchTyped ==
  ASSUME TypeOK, NEW w \in Workers,
         \/ RecordFencedMarker(w) \/ SendDocumentForEsign(w)
         \/ RecordRefusal(w) /\ unsettled > 0
  PROVE  TypeOK'
<1>1. UNCHANGED <<appVars, rowVars>>
  BY DEF RecordFencedMarker, SendDocumentForEsign, RecordRefusal
<1>2. AppTyped' /\ RowsTyped'
  BY <1>1, TypeParts DEF AppTyped, RowsTyped, appVars, rowVars
<1>3. LocalTyped /\ sends \in 0..MaxSends /\ unsettled \in Nat /\ MaxSends \in Nat
  BY TypeParts, BoundsAssumption DEF CountsTyped
<1>4. CountsTyped'
  BY <1>3 DEF RecordFencedMarker, SendDocumentForEsign, RecordRefusal, Sent, CountsTyped
<1>5. {"send", "record", "unconfirmed", "refused", "put_off", "failed_state"} \subseteq Points
  BY DEF Points, Working
<1>6. LocalTyped'
  BY <1>3, <1>5, MoveTyped DEF RecordFencedMarker, SendDocumentForEsign, RecordRefusal
<1>7. QED
  BY <1>2, <1>4, <1>6, TypePartsNext

\* A settlement: back is what is given back of the attempts.
LEMMA SettleTyped ==
  ASSUME RowsTyped, NEW w \in Workers, NEW s \in RowStates, NEW b \in {0, 1},
         b = 1 => attempts[row[w]] > 0, row[w] \in Rows, Settle(w, s, b)
  PROVE  status' \in [Rows -> RowStates] /\ attempts' \in [Rows -> 0..MaxAttempts]
<1>1. MaxAttempts \in Nat /\ attempts[row[w]] \in 0..MaxAttempts
  BY BoundsAssumption DEF RowsTyped
<1>2. attempts[row[w]] - b \in 0..MaxAttempts
  BY <1>1
<1>3. QED
  BY <1>2 DEF RowsTyped, Settle

LEMMA SettlementTyped ==
  ASSUME TypeOK, NEW w \in Workers, row[w] \in Rows,
         MarkDelivered(w) \/ MarkRetryOrDeadLetter(w)
  PROVE  TypeOK'
<1>0. {"delivered", "dead_letter", "pending"} \subseteq RowStates
  BY DEF RowStates
<1>1. UNCHANGED <<appVars, unsettled, sends>> /\ Release(w)
  BY DEF MarkDelivered, MarkRetryOrDeadLetter
<1>2. LocalTyped' /\ AppTyped' /\ CountsTyped'
  BY <1>1, TypeParts, MoveTyped DEF AppTyped, CountsTyped, appVars
<1>3. RowsTyped /\ attempts[row[w]] \in Nat
  BY TypeParts DEF RowsTyped
<1>4. status' \in [Rows -> RowStates] /\ attempts' \in [Rows -> 0..MaxAttempts]
  <2>1. CASE MarkDelivered(w) \/ Hold(w)
    BY <2>1, <1>0, <1>3, SettleTyped DEF MarkDelivered, Hold
  <2>2. CASE PutOff(w)
    BY <2>2, <1>0, <1>3, SettleTyped DEF PutOff
  <2>3. CASE Retry(w)
    BY <2>3, <1>0, <1>3, SettleTyped DEF Retry
  <2>4. QED
    BY <2>1, <2>2, <2>3 DEF MarkRetryOrDeadLetter
<1>5. held' \in [Rows -> BOOLEAN] /\ spent' \in [Rows -> Nat]
  <2>1. CASE MarkDelivered(w) \/ PutOff(w)
    BY <2>1, <1>3 DEF MarkDelivered, PutOff, RowsTyped
  <2>2. CASE Hold(w)
    BY <2>2, <1>3 DEF Hold, RowsTyped
  <2>3. CASE Retry(w)
    BY <2>3, <1>3 DEF Retry, RowsTyped
  <2>4. QED
    BY <2>1, <2>2, <2>3 DEF MarkRetryOrDeadLetter
<1>6. QED
  BY <1>2, <1>4, <1>5, TypePartsNext DEF RowsTyped

\* Claims, requests, reclaims and the signature.
LEMMA QueueTyped ==
  ASSUME TypeOK,
         \/ Sign
         \/ \E r \in Rows : RequestEsignSend(r) \/ ReclaimStale(r)
         \/ \E w \in Workers, r \in Rows : ClaimOne(w, r)
  PROVE  TypeOK'
<1> USE DEF appVars, rowVars, workerVars, localVars
<1>0. {"pending", "processing"} \subseteq RowStates /\ "check" \in Points /\ MaxAttempts \in Nat
  BY BoundsAssumption DEF RowStates, Points, Working
<1>1. CASE Sign
  BY <1>1 DEF Sign, TypeOK
<1>2. ASSUME NEW r \in Rows, RequestEsignSend(r)
      PROVE  TypeOK'
  <2>1. status' \in [Rows -> RowStates]
    BY <1>0, <1>2 DEF RequestEsignSend, TypeOK
  <2>2. QED
    BY <1>2, <2>1 DEF RequestEsignSend, TypeOK
<1>3. ASSUME NEW r \in Rows, ReclaimStale(r)
      PROVE  TypeOK'
  <2>1. status' \in [Rows -> RowStates] /\ spent' \in [Rows -> Nat]
    BY <1>0, <1>3 DEF ReclaimStale, TypeOK
  <2>2. QED
    BY <1>3, <2>1 DEF ReclaimStale, TypeOK
<1>4. ASSUME NEW w \in Workers, NEW r \in Rows, ClaimOne(w, r)
      PROVE  TypeOK'
  <2>1. attempts[r] + 1 \in 0..MaxAttempts
    BY <1>0, <1>4 DEF ClaimOne, TypeOK
  <2>2. status' \in [Rows -> RowStates] /\ attempts' \in [Rows -> 0..MaxAttempts]
    BY <1>0, <1>4, <2>1 DEF ClaimOne, TypeOK
  <2>3. /\ pc' \in [Workers -> Points] /\ row' \in [Workers -> Rows \cup {None}]
        /\ token' \in [Workers -> 0..MaxAttempts]
    BY <1>0, <1>4, <2>1 DEF ClaimOne, TypeOK
  <2>4. QED
    BY <1>4, <2>2, <2>3 DEF ClaimOne, TypeOK
<1>5. QED
  BY <1>1, <1>2, <1>3, <1>4

LEMMA InitTyped == Init => TypeOK
<1> SUFFICES ASSUME Init PROVE TypeOK
  OBVIOUS
<1>1. 0 \in 0..MaxAttempts /\ 0 \in 0..MaxSends /\ "idle" \in Points /\ "absent" \in RowStates
  BY BoundsAssumption DEF Points, RowStates
<1>2. 0 \in Nat /\ FALSE \in BOOLEAN
  OBVIOUS
<1>3. LocalTyped
  BY <1>1, <1>2 DEF Init, LocalTyped
<1>4. AppTyped /\ RowsTyped /\ CountsTyped
  BY <1>1, <1>2, Zenon DEF Init, AppTyped, RowsTyped, CountsTyped
<1>5. QED
  BY <1>3, <1>4, TypeParts

-----------------------------------------------------------------------------
(* Claims and attempts *)

\* A process has a row from its claim to the end of its tick.
RowsHeld == \A w \in Workers : pc[w] = "idle" <=> row[w] = None

\* No process knows a number that the row has not reached.
TokensBounded ==
  \A w \in Workers : row[w] # None => 1 <= token[w] /\ token[w] <= attempts[row[w]]

\* A row that nobody has asked for has no history.
Fresh == \A r \in Rows : status[r] = "absent" => attempts[r] = 0 /\ spent[r] = 0

Claims == RowsHeld /\ TokensBounded /\ ClaimsAreExclusive /\ Fresh /\ WaitsAreFree

\* A tick goes on, and no row changes.
Onward(w) ==
  /\ pc[w] # "idle" /\ pc'[w] # "idle"
  /\ \A v \in Workers \ {w} : pc'[v] = pc[v]
  /\ UNCHANGED <<rowVars, row, token>>

\* A tick ends.
Ends(w) ==
  /\ pc'[w] = "idle" /\ row'[w] = None
  /\ \A v \in Workers \ {w} : pc'[v] = pc[v] /\ row'[v] = row[v] /\ token'[v] = token[v]

LEMMA EndsMoves == ASSUME TypeOK, NEW w \in Workers, Release(w) PROVE Ends(w)
BY DEF TypeOK, Release, Ends

LEMMA OnwardClaims == ASSUME TypeOK, Claims, NEW w \in Workers, Onward(w) PROVE Claims'
<1> USE DEF Onward, rowVars
<1>1. RowsHeld'
  BY DEF Claims, RowsHeld
<1>2. TokensBounded' /\ ClaimsAreExclusive'
  BY DEF Claims, TokensBounded, ClaimsAreExclusive
<1>3. Fresh' /\ WaitsAreFree'
  BY DEF Claims, Fresh, WaitsAreFree
<1>4. QED
  BY <1>1, <1>2, <1>3 DEF Claims

\* A process forgets its claim: nothing else is touched.
LEMMA EndsClaims ==
  ASSUME TypeOK, Claims, NEW w \in Workers, Ends(w), UNCHANGED rowVars
  PROVE  Claims'
<1> USE DEF Ends, rowVars
<1>1. RowsHeld' /\ TokensBounded' /\ ClaimsAreExclusive'
  BY DEF Claims, RowsHeld, TokensBounded, ClaimsAreExclusive
<1>2. Fresh' /\ WaitsAreFree'
  BY DEF Claims, Fresh, WaitsAreFree
<1>3. QED
  BY <1>1, <1>2 DEF Claims

\* A claim takes the next number, which nobody has.
LEMMA ClaimClaims ==
  ASSUME TypeOK, Claims, NEW w \in Workers, NEW r \in Rows, ClaimOne(w, r)
  PROVE  Claims'
<1>1. /\ r # None /\ status[r] = "pending" /\ attempts[r] \in Nat
      /\ attempts' = [attempts EXCEPT ![r] = @ + 1]
      /\ status' = [status EXCEPT ![r] = "processing"] /\ spent' = spent
      /\ attempts'[r] = attempts[r] + 1 /\ status'[r] = "processing"
      /\ \A q \in Rows \ {r} : attempts'[q] = attempts[q] /\ status'[q] = status[q]
  BY NoneAssumption DEF TypeOK, ClaimOne
<1>2. /\ row'[w] = r /\ token'[w] = attempts[r] + 1 /\ pc'[w] = "check"
      /\ \A v \in Workers \ {w} : pc'[v] = pc[v] /\ row'[v] = row[v] /\ token'[v] = token[v]
  BY DEF TypeOK, ClaimOne
<1>3. \A v \in Workers : row[v] \in Rows \cup {None} /\ token[v] \in Nat
  BY DEF TypeOK
<1>4. RowsHeld'
  BY <1>1, <1>2 DEF Claims, RowsHeld
<1>5. TokensBounded'
  BY <1>1, <1>2, <1>3 DEF Claims, TokensBounded, TypeOK
<1>6. ClaimsAreExclusive'
  BY <1>1, <1>2, <1>3 DEF Claims, TokensBounded, ClaimsAreExclusive
<1>7. Fresh' /\ WaitsAreFree'
  BY <1>1 DEF Claims, Fresh, WaitsAreFree, TypeOK
<1>8. QED
  BY <1>4, <1>5, <1>6, <1>7 DEF Claims

\* The owner of a row ends its claim; giving the attempt back leaves a number
\* that no other process has.
LEMMA SettleClaims ==
  ASSUME TypeOK, Claims, NEW w \in Workers, pc[w] # "idle",
         MarkDelivered(w) \/ MarkRetryOrDeadLetter(w)
  PROVE  Claims'
<1> DEFINE r == row[w]
<1>1. r \in Rows /\ r # None /\ Ends(w) /\ 1 <= token[w] /\ token[w] <= attempts[r]
      /\ attempts[r] \in Nat /\ token[w] \in Nat /\ spent[r] \in Nat
  BY EndsMoves, NoneAssumption
     DEF TypeOK, Claims, RowsHeld, TokensBounded, MarkDelivered, MarkRetryOrDeadLetter
<1>2. CASE ~Owns(w)
  <2>1. UNCHANGED rowVars
    BY <1>2 DEF MarkDelivered, MarkRetryOrDeadLetter, PutOff, Hold, Retry, Settle, rowVars
  <2>2. QED
    BY <1>1, <2>1, EndsClaims
<1>3. CASE Owns(w)
  <2>1. status[r] = "processing" /\ attempts[r] = token[w]
    BY <1>3 DEF Owns
  <2>2. /\ \A q \in Rows \ {r} : status'[q] = status[q] /\ attempts'[q] = attempts[q] /\ spent'[q] = spent[q]
        /\ \/ status'[r] \in {"delivered", "dead_letter"} /\ attempts'[r] = attempts[r]
           \/ status'[r] = "pending" /\ attempts'[r] = attempts[r] - 1 /\ spent'[r] = spent[r]
           \/ status'[r] = "pending" /\ attempts'[r] = attempts[r] /\ spent'[r] = spent[r] + 1
    <3>1. CASE MarkDelivered(w) \/ Hold(w)
      BY <3>1, <1>1, <1>3 DEF TypeOK, MarkDelivered, Hold, Settle
    <3>2. CASE PutOff(w)
      BY <3>2, <1>1, <1>3 DEF TypeOK, PutOff, Settle
    <3>3. CASE Retry(w)
      BY <3>3, <1>1, <1>3 DEF TypeOK, Retry, Settle
    <3>4. QED
      BY <3>1, <3>2, <3>3 DEF MarkRetryOrDeadLetter
  <2>3. RowsHeld'
    BY <1>1 DEF Claims, RowsHeld, Ends
  <2>4. \A v \in Workers \ {w} :
          row[v] = r => token[v] \in Nat /\ token[v] <= attempts[r] - 1
    BY <1>1, <2>1 DEF TypeOK, Claims, TokensBounded, ClaimsAreExclusive
  <2>5. TokensBounded'
    <3> SUFFICES ASSUME NEW v \in Workers, row'[v] # None
                 PROVE  1 <= token'[v] /\ token'[v] <= attempts'[row'[v]]
      BY DEF TokensBounded
    <3>1. v # w /\ row'[v] = row[v] /\ token'[v] = token[v] /\ row[v] \in Rows
      BY <1>1 DEF Ends, TypeOK
    <3>2. 1 <= token[v] /\ token[v] <= attempts[row[v]]
      BY <3>1, <1>1 DEF Claims, TokensBounded, Ends
    <3>3. CASE row[v] = r
      BY <3>1, <3>2, <3>3, <2>2, <2>4, <1>1
    <3>4. CASE row[v] # r
      BY <3>1, <3>2, <3>4, <2>2
    <3>5. QED
      BY <3>3, <3>4
  <2>6. ClaimsAreExclusive'
    BY <1>1 DEF Claims, ClaimsAreExclusive, Ends
  <2>7. Fresh' /\ WaitsAreFree'
    BY <1>1, <2>1, <2>2 DEF Claims, Fresh, WaitsAreFree
  <2>8. QED
    BY <2>3, <2>5, <2>6, <2>7 DEF Claims
<1>4. QED
  BY <1>2, <1>3

\* A lost attempt is spent; a request starts with none.
LEMMA QueueClaims ==
  ASSUME TypeOK, Claims,
         Sign \/ \E r \in Rows : RequestEsignSend(r) \/ ReclaimStale(r)
  PROVE  Claims'
<1>1. UNCHANGED <<workerVars, attempts>>
  BY DEF Sign, RequestEsignSend, ReclaimStale, rowVars
<1>2. RowsHeld' /\ TokensBounded' /\ ClaimsAreExclusive'
  BY <1>1 DEF Claims, RowsHeld, TokensBounded, ClaimsAreExclusive, workerVars, localVars
<1>3. Fresh' /\ WaitsAreFree'
  <2>1. CASE Sign
    BY <2>1 DEF Sign, Claims, Fresh, WaitsAreFree, rowVars
  <2>2. ASSUME NEW r \in Rows, RequestEsignSend(r) \/ ReclaimStale(r)
        PROVE  Fresh' /\ WaitsAreFree'
    BY <2>2 DEF TypeOK, RequestEsignSend, ReclaimStale, Claims, Fresh, WaitsAreFree
  <2>3. QED
    BY <2>1, <2>2
<1>4. QED
  BY <1>2, <1>3 DEF Claims

-----------------------------------------------------------------------------
(* Markers *)

\* Processes between their marker and the answer, or its settlement.
Dispatching == {w \in Workers : pc[w] \in {"send", "refused", "put_off"}}

\* Every such process, and every agreement that was sent, has a marker that is
\* open: a refusal settles one of its own.
Marked == Cardinality(Dispatching) + sends <= unsettled

LEMMA DispatchingFinite ==
  /\ IsFiniteSet(Dispatching) /\ Cardinality(Dispatching) \in Nat
  /\ IsFiniteSet(Dispatching') /\ Cardinality(Dispatching') \in Nat
<1>1. Dispatching \in SUBSET Workers /\ Dispatching' \in SUBSET Workers
  BY DEF Dispatching
<1>2. IsFiniteSet(Dispatching) /\ IsFiniteSet(Dispatching')
  BY <1>1, WorkersAssumption, FS_Subset
<1>3. QED
  BY <1>2, FS_CardinalityType

LEMMA NoMoreDispatching ==
  ASSUME TypeOK, Marked, Dispatching' \subseteq Dispatching,
         unsettled' = unsettled, sends' = sends
  PROVE  Marked'
<1>1. Cardinality(Dispatching') <= Cardinality(Dispatching)
  BY DispatchingFinite, FS_Subset
<1>2. QED
  BY <1>1, DispatchingFinite DEF Marked, TypeOK

\* The steps of a tick, by what they do to its claim.
HandlerStep(w) ==
  \/ AssertCurrentClaim(w) \/ Load(w) \/ Resent(w) \/ ReadMarkers(w)
  \/ MarkIdle(w) \/ AssertOutboundNotPaused(w) \/ RecordUnconfirmed(w)
  \/ MarkFailed(w) \/ RecordDocument(w) \/ MarkSent(w) \/ Fault(w)

LEMMA MovesOn ==
  ASSUME TypeOK, NEW w \in Workers,
         (\E p \in Points \ {"idle"} : GoTo(w, p)) \/ (\E k \in {"wait", "hold", "error"} : GoFail(w, k))
  PROVE  /\ pc'[w] # "idle" /\ row' = row /\ token' = token /\ seen' = seen
         /\ \A v \in Workers \ {w} : pc'[v] = pc[v]
BY DEF TypeOK, GoTo, GoFail, localVars

LEMMA HandlerMoves ==
  ASSUME TypeOK, NEW w \in Workers, HandlerStep(w)
  PROVE  /\ UNCHANGED <<rowVars, unsettled, sends>>
         /\ Onward(w) \/ Ends(w)
         /\ w \notin Dispatching'
         /\ \A v \in Workers \ {w} : pc'[v] = pc[v]
<1>1. UNCHANGED <<rowVars, unsettled, sends>> /\ pc[w] # "idle"
  BY DEF HandlerStep, AssertCurrentClaim, Load, Resent, ReadMarkers, MarkIdle,
         AssertOutboundNotPaused, RecordUnconfirmed, MarkFailed, RecordDocument,
         MarkSent, Fault, Working
<1>2. ASSUME NEW p \in Points \ {"idle", "send", "refused", "put_off"}, GoTo(w, p)
      PROVE  /\ Onward(w) /\ w \notin Dispatching'
             /\ \A v \in Workers \ {w} : pc'[v] = pc[v]
  <2>1. Onward(w)
    BY <1>1, <1>2, MovesOn DEF Onward, rowVars
  <2>2. pc'[w] = p
    BY <1>2 DEF TypeOK, GoTo
  <2>3. QED
    BY <2>1, <2>2, <1>2 DEF Onward, Dispatching
<1>3. ASSUME NEW k \in {"wait", "hold", "error"}, GoFail(w, k)
      PROVE  /\ Onward(w) /\ w \notin Dispatching'
             /\ \A v \in Workers \ {w} : pc'[v] = pc[v]
  <2>1. Onward(w)
    BY <1>1, <1>3, MovesOn DEF Onward, rowVars
  <2>2. pc'[w] = "fail"
    BY <1>3 DEF TypeOK, GoFail
  <2>3. QED
    BY <2>1, <2>2 DEF Onward, Dispatching
<1>4. CASE Load(w)
  BY <1>1, <1>4 DEF TypeOK, Load, Onward, Dispatching, rowVars
<1>5. CASE Release(w)
  BY <1>1, <1>5, EndsMoves DEF Ends, Dispatching
<1>6. {"load", "deliver", "idle_state", "pause", "mark", "sent_state"}
        \subseteq Points \ {"idle", "send", "refused", "put_off"}
  BY DEF Points, Working
<1>7. \/ Load(w) \/ Release(w) \/ (\E k \in {"wait", "hold", "error"} : GoFail(w, k))
      \/ \E p \in {"load", "deliver", "idle_state", "pause", "mark", "sent_state"} : GoTo(w, p)
  BY DEF HandlerStep, AssertCurrentClaim, Resent, ReadMarkers, MarkIdle,
         AssertOutboundNotPaused, RecordUnconfirmed, MarkFailed, RecordDocument,
         MarkSent, Fault
<1>8. QED
  BY <1>1, <1>2, <1>3, <1>4, <1>5, <1>6, <1>7

LEMMA DispatchMoves ==
  ASSUME TypeOK, NEW w \in Workers,
         RecordFencedMarker(w) \/ SendDocumentForEsign(w) \/ RecordRefusal(w)
  PROVE  /\ UNCHANGED <<appVars, rowVars>> /\ (Onward(w) \/ Ends(w))
         /\ \A v \in Workers \ {w} : pc'[v] = pc[v]
<1>1. UNCHANGED <<appVars, rowVars>> /\ pc[w] # "idle"
  BY DEF RecordFencedMarker, SendDocumentForEsign, RecordRefusal
<1>2. CASE Release(w)
  BY <1>1, <1>2, EndsMoves DEF Ends
<1>3. CASE \/ \E p \in {"send", "record", "unconfirmed", "refused", "put_off", "failed_state"} : GoTo(w, p)
           \/ GoFail(w, "wait")
  <2>1. {"send", "record", "unconfirmed", "refused", "put_off", "failed_state"} \subseteq Points \ {"idle"}
    BY DEF Points, Working
  <2>2. QED
    BY <1>1, <1>3, <2>1, MovesOn DEF Onward, rowVars
<1>4. QED
  BY <1>2, <1>3 DEF RecordFencedMarker, SendDocumentForEsign, RecordRefusal

\* A marker opens the dispatch of its process.
LEMMA MarkerMarked ==
  ASSUME TypeOK, Marked, NEW w \in Workers, RecordFencedMarker(w)
  PROVE  Marked'
<1>1. CASE Owns(w)
  <2>1. Dispatching' = Dispatching \cup {w} /\ w \notin Dispatching
    BY <1>1 DEF TypeOK, RecordFencedMarker, GoTo, Dispatching
  <2>2. Cardinality(Dispatching') = Cardinality(Dispatching) + 1
    BY <2>1, DispatchingFinite, FS_AddElement
  <2>3. unsettled' = unsettled + 1 /\ sends' = sends
    BY <1>1 DEF RecordFencedMarker
  <2>4. QED
    BY <2>2, <2>3, DispatchingFinite DEF Marked, TypeOK
<1>2. CASE ~Owns(w)
  <2>1. Dispatching' \subseteq Dispatching /\ unsettled' = unsettled /\ sends' = sends
    BY <1>2 DEF TypeOK, RecordFencedMarker, Release, Dispatching
  <2>2. QED
    BY <2>1, NoMoreDispatching
<1>3. QED
  BY <1>1, <1>2

\* The dispatch of w ends: there is one less.
LEMMA OneLessDispatching ==
  ASSUME NEW w \in Dispatching, Dispatching' = Dispatching \ {w}
  PROVE  Cardinality(Dispatching') = Cardinality(Dispatching) - 1
BY DispatchingFinite, FS_RemoveElement

\* An agreement that was sent takes over the marker of its dispatch.
LEMMA SendMarked ==
  ASSUME TypeOK, Marked, NEW w \in Workers, SendDocumentForEsign(w)
  PROVE  Marked'
<1>1. unsettled' = unsettled /\ w \in Dispatching
  BY DEF SendDocumentForEsign, Dispatching
<1>2. CASE GoTo(w, "record") \/ GoTo(w, "unconfirmed")
  <2>1. Dispatching' = Dispatching \ {w}
    BY <1>2 DEF TypeOK, GoTo, Dispatching
  <2>2. sends' \in Nat /\ sends' <= sends + 1 /\ sends \in Nat
    <3>1. sends \in Nat /\ (sends' = sends \/ Sent)
      BY BoundsAssumption DEF SendDocumentForEsign, TypeOK
    <3>2. QED
      BY <3>1 DEF Sent
  <2>3. Cardinality(Dispatching') = Cardinality(Dispatching) - 1
    BY <1>1, <2>1, OneLessDispatching
  <2>4. unsettled \in Nat
    BY DEF TypeOK
  <2>5. QED
    BY <1>1, <2>2, <2>3, <2>4, DispatchingFinite DEF Marked
<1>3. CASE (GoTo(w, "refused") \/ GoTo(w, "put_off")) /\ sends' = sends
  <2>1. Dispatching' \subseteq Dispatching
    BY <1>1, <1>3 DEF TypeOK, GoTo, Dispatching
  <2>2. QED
    BY <1>1, <1>3, <2>1, NoMoreDispatching
<1>4. QED
  BY <1>2, <1>3 DEF SendDocumentForEsign

\* A refusal settles its own marker, which must be open.
LEMMA RefusalMarked ==
  ASSUME TypeOK, Marked, NEW w \in Workers, RecordRefusal(w)
  PROVE  Marked' /\ unsettled > 0
<1>1. /\ w \in Dispatching /\ Dispatching' = Dispatching \ {w}
      /\ unsettled' = unsettled - 1 /\ sends' = sends
  BY DEF TypeOK, RecordRefusal, GoTo, GoFail, Dispatching
<1>2. Cardinality(Dispatching') = Cardinality(Dispatching) - 1
  BY <1>1, OneLessDispatching
<1>3. QED
  BY <1>1, <1>2, DispatchingFinite DEF Marked, TypeOK

-----------------------------------------------------------------------------
(* The invariant of the outbox *)

EInv == TypeOK /\ Claims /\ Marked

LEMMA InitEInv == Init => EInv
<1> SUFFICES ASSUME Init PROVE EInv
  OBVIOUS
<1>1. TypeOK
  BY InitTyped
<1>2. Claims
  BY DEF Init, Claims, RowsHeld, TokensBounded, ClaimsAreExclusive, Fresh, WaitsAreFree
<1>3. Marked
  <2>1. Dispatching = {}
    BY DEF Init, Dispatching
  <2>2. QED
    BY <2>1, FS_EmptySet DEF Init, Marked
<1>4. QED
  BY <1>1, <1>2, <1>3 DEF EInv

\* Every step of the tick of one process.
LEMMA TickEInv ==
  ASSUME EInv, NEW w \in Workers, WorkerStep(w) \/ Fault(w) \/ Abandon(w)
  PROVE  EInv'
<1> USE DEF EInv
<1>1. CASE HandlerStep(w)
  <2>1. TypeOK'
    BY <1>1, HandlerTyped DEF HandlerStep
  <2>2. Claims'
    BY <1>1, HandlerMoves, OnwardClaims, EndsClaims
  <2>3. Dispatching' \subseteq Dispatching
    BY <1>1, HandlerMoves DEF Dispatching
  <2>4. QED
    BY <1>1, <2>1, <2>2, <2>3, HandlerMoves, NoMoreDispatching
<1>2. CASE Abandon(w)
  <2>1. TypeOK'
    BY <1>2, HandlerTyped
  <2>2. Ends(w) /\ UNCHANGED <<rowVars, unsettled, sends>>
    BY <1>2, EndsMoves DEF Abandon
  <2>3. Dispatching' \subseteq Dispatching
    BY <2>2 DEF Dispatching, Ends
  <2>4. QED
    BY <2>1, <2>2, <2>3, EndsClaims, NoMoreDispatching
<1>3. CASE RecordFencedMarker(w) \/ SendDocumentForEsign(w) \/ RecordRefusal(w)
  <2>1. Marked' /\ (RecordRefusal(w) => unsettled > 0)
    BY <1>3, MarkerMarked, SendMarked, RefusalMarked
  <2>2. TypeOK'
    BY <1>3, <2>1, DispatchTyped
  <2>3. Claims'
    BY <1>3, DispatchMoves, OnwardClaims, EndsClaims
  <2>4. QED
    BY <2>1, <2>2, <2>3
<1>4. CASE MarkDelivered(w) \/ MarkRetryOrDeadLetter(w)
  <2>1. pc[w] # "idle" /\ row[w] \in Rows /\ Ends(w) /\ unsettled' = unsettled /\ sends' = sends
    BY <1>4, EndsMoves DEF MarkDelivered, MarkRetryOrDeadLetter, TypeOK, Claims, RowsHeld
  <2>2. Dispatching' \subseteq Dispatching
    BY <2>1 DEF Dispatching, Ends
  <2>3. QED
    BY <1>4, <2>1, <2>2, SettlementTyped, SettleClaims, NoMoreDispatching
<1>5. QED
  BY <1>1, <1>2, <1>3, <1>4 DEF WorkerStep, HandlerStep

LEMMA NextEInv == EInv /\ [Next]_vars => EInv'
<1> SUFFICES ASSUME EInv, [Next]_vars PROVE EInv'
  OBVIOUS
<1> USE DEF EInv
<1>1. CASE \/ Sign
           \/ \E r \in Rows : RequestEsignSend(r) \/ ReclaimStale(r)
  <2>1. UNCHANGED <<workerVars, unsettled, sends>>
    BY <1>1 DEF Sign, RequestEsignSend, ReclaimStale
  <2>2. Dispatching' \subseteq Dispatching
    BY <2>1 DEF Dispatching, workerVars
  <2>3. QED
    BY <1>1, <2>1, <2>2, QueueTyped, QueueClaims, NoMoreDispatching
<1>2. ASSUME NEW w \in Workers, NEW r \in Rows, ClaimOne(w, r)
      PROVE  EInv'
  <2>1. Dispatching' \subseteq Dispatching /\ unsettled' = unsettled /\ sends' = sends
    BY <1>2 DEF TypeOK, ClaimOne, Dispatching
  <2>2. QED
    BY <1>2, <2>1, QueueTyped, ClaimClaims, NoMoreDispatching
<1>3. ASSUME NEW w \in Workers, WorkerStep(w) \/ Fault(w) \/ Abandon(w)
      PROVE  EInv'
  BY <1>3, TickEInv
<1>4. CASE UNCHANGED vars
  BY <1>4 DEF TypeOK, Claims, RowsHeld, TokensBounded, ClaimsAreExclusive, Fresh,
              WaitsAreFree, Marked, Dispatching, vars, appVars, rowVars, workerVars, localVars
<1>5. QED
  BY <1>1, <1>2, <1>3, <1>4 DEF Next

LEMMA SpecEInv == Spec => []EInv
BY InitEInv, NextEInv, PTL DEF Spec

\* Every reachable state has the types of the code; a refusal in particular never
\* settles more markers than there are.
THEOREM EsignTypeCorrect == Spec => []TypeOK
BY SpecEInv, PTL DEF EInv

\* No two processes ever hold a row under the same attempt number, although a
\* wait gives numbers back: the fence names one process.
THEOREM ClaimsExclusive == Spec => []ClaimsAreExclusive
<1>1. EInv => ClaimsAreExclusive
  BY DEF EInv, Claims
<1>2. QED
  BY <1>1, SpecEInv, PTL

\* Waiting for a prerequisite costs nothing of the retry budget.
THEOREM WaitsFree == Spec => []WaitsAreFree
<1>1. EInv => WaitsAreFree
  BY DEF EInv, Claims
<1>2. QED
  BY <1>1, SpecEInv, PTL

\* A row that is delivered or dead stays so with its attempts, whatever the
\* processes that lost its claim still do.
THEOREM SettledRowsFinal == Spec => SettledIsFinal
<1>1. ASSUME EInv, [Next]_vars, NEW r \in Rows, Closed(r)
      PROVE  status'[r] = status[r] /\ attempts'[r] = attempts[r]
  <2>1. status[r] \notin {"absent", "pending", "processing"} /\ TypeOK
    BY <1>1 DEF Closed, EInv
  <2>2. CASE UNCHANGED rowVars
    BY <2>2 DEF rowVars
  <2>3. ASSUME NEW q \in Rows, RequestEsignSend(q) \/ ReclaimStale(q)
        PROVE  status'[r] = status[r] /\ attempts'[r] = attempts[r]
    BY <2>1, <2>3 DEF TypeOK, RequestEsignSend, ReclaimStale
  <2>4. ASSUME NEW w \in Workers, NEW q \in Rows, ClaimOne(w, q)
        PROVE  status'[r] = status[r] /\ attempts'[r] = attempts[r]
    BY <2>1, <2>4 DEF TypeOK, ClaimOne
  <2>5. ASSUME NEW w \in Workers, MarkDelivered(w) \/ MarkRetryOrDeadLetter(w)
        PROVE  status'[r] = status[r] /\ attempts'[r] = attempts[r]
    <3>1. CASE ~Owns(w)
      BY <2>5, <3>1 DEF MarkDelivered, MarkRetryOrDeadLetter, PutOff, Hold, Retry, Settle
    <3>2. CASE Owns(w)
      <4>1. row[w] # r
        BY <2>1, <3>2 DEF Owns
      <4>2. QED
        BY <2>1, <2>5, <4>1 DEF TypeOK, MarkDelivered, MarkRetryOrDeadLetter, PutOff, Hold, Retry, Settle
    <3>3. QED
      BY <3>1, <3>2
  <2>6. QED
    <3>1. CASE Sign \/ UNCHANGED vars
      BY <3>1, <2>2 DEF Sign, vars
    <3>2. ASSUME NEW w \in Workers, HandlerStep(w) \/ Abandon(w)
          PROVE  UNCHANGED rowVars
      BY <3>2, <2>1, HandlerMoves DEF Abandon
    <3>3. ASSUME NEW w \in Workers,
                 RecordFencedMarker(w) \/ SendDocumentForEsign(w) \/ RecordRefusal(w)
          PROVE  UNCHANGED rowVars
      BY <3>3, <2>1, DispatchMoves
    <3>4. QED
      BY <1>1, <2>2, <2>3, <2>4, <2>5, <3>1, <3>2, <3>3 DEF Next, WorkerStep, HandlerStep
<1>2. EInv /\ [Next]_vars =>
        [\A r \in Rows : Closed(r) =>
           status'[r] = status[r] /\ attempts'[r] = attempts[r]]_vars
  BY <1>1
<1>3. QED
  BY <1>2, SpecEInv, PTL DEF Spec, SettledIsFinal

-----------------------------------------------------------------------------
(* One agreement *)

\* The application has been asked to be sent once.
OneRow == \A q, r \in Rows : q = r

\* The points between the count of the markers and a marker.
Counted == {"idle_state", "pause", "mark"}

\* A document is recorded with its state.
DocKept == document => docState # "pending"

\* A process that saw a document and still goes on found it signed.
SeenIsSigned ==
  \A w \in Workers : pc[w] \in Counted \cup {"markers"} /\ seen[w] => docState = "signed"

\* What the owner has counted stays true until it writes its own marker.
Unmarked ==
  \A w \in Workers :
    pc[w] \in Counted /\ Owns(w) /\ docState # "signed" => unsettled = 0

OneMarker == docState # "signed" => unsettled <= 1

SignedInv == DocKept /\ SeenIsSigned /\ Unmarked /\ OneMarker

\* A signature is for good; a document is only recorded as sent.
LEMMA Documents ==
  ASSUME EInv, [Next]_vars
  PROVE  /\ docState = "signed" => docState' = "signed"
         /\ UNCHANGED <<docState, document>> \/ docState' # "pending"
<1>1. CASE Sign \/ UNCHANGED vars
  BY <1>1 DEF Sign, vars, appVars
<1>2. ASSUME NEW r \in Rows, \/ RequestEsignSend(r) \/ ReclaimStale(r)
                             \/ \E w \in Workers : ClaimOne(w, r)
      PROVE  UNCHANGED <<docState, document>>
  BY <1>2 DEF RequestEsignSend, ReclaimStale, ClaimOne, appVars
<1>3. ASSUME NEW w \in Workers, RecordDocument(w)
      PROVE  /\ docState = "signed" => docState' = "signed"
             /\ UNCHANGED <<docState, document>> \/ docState' # "pending"
  BY <1>3 DEF RecordDocument, appVars
<1>4. ASSUME NEW w \in Workers, WorkerStep(w) \/ Fault(w) \/ Abandon(w), ~RecordDocument(w)
      PROVE  UNCHANGED <<docState, document>>
  BY <1>4 DEF WorkerStep, Fault, Abandon, AssertCurrentClaim, Load, Resent, ReadMarkers,
       MarkIdle, AssertOutboundNotPaused, RecordFencedMarker, SendDocumentForEsign,
       RecordUnconfirmed, RecordRefusal, MarkFailed, MarkSent, MarkDelivered,
       MarkRetryOrDeadLetter, ApplySendState, appVars
<1>5. QED
  BY <1>1, <1>2, <1>3, <1>4 DEF Next

\* A step of the tick of w leaves the other processes alone.
LEMMA OthersStay ==
  ASSUME EInv, NEW w \in Workers, NEW v \in Workers \ {w},
         WorkerStep(w) \/ Fault(w) \/ Abandon(w) \/ \E r \in Rows : ClaimOne(w, r)
  PROVE  pc'[v] = pc[v] /\ row'[v] = row[v] /\ token'[v] = token[v] /\ seen'[v] = seen[v]
<1>1. TypeOK
  BY DEF EInv
<1>2. CASE \E p \in Points : GoTo(w, p)
  BY <1>1, <1>2 DEF TypeOK, GoTo, localVars
<1>3. CASE \E k \in {"wait", "hold", "error"} : GoFail(w, k)
  BY <1>1, <1>3 DEF TypeOK, GoFail
<1>4. CASE Release(w)
  BY <1>1, <1>4 DEF TypeOK, Release
<1>5. CASE Load(w)
  BY <1>1, <1>5 DEF TypeOK, Load
<1>6. CASE \E r \in Rows : ClaimOne(w, r)
  BY <1>1, <1>6 DEF TypeOK, ClaimOne
<1>7. Working \cup {"deliver"} \subseteq Points
  BY DEF Points
<1>8. QED
  <2>1. CASE WorkerStep(w) /\ ~Load(w)
    <3>1. \/ Release(w) \/ (\E k \in {"wait", "hold", "error"} : GoFail(w, k))
          \/ \E p \in Working \cup {"deliver"} : GoTo(w, p)
      BY <2>1 DEF WorkerStep, AssertCurrentClaim, Resent, ReadMarkers,
           MarkIdle, AssertOutboundNotPaused, RecordFencedMarker, SendDocumentForEsign,
           RecordUnconfirmed, RecordRefusal, MarkFailed, RecordDocument, MarkSent,
           MarkDelivered, MarkRetryOrDeadLetter, Working
    <3>2. QED
      BY <1>2, <1>3, <1>4, <1>7, <3>1
  <2>2. QED
    BY <1>3, <1>4, <1>5, <1>6, <2>1 DEF Fault, Abandon

\* How a process comes to the points where what it read must still be true.
LEMMA Approached ==
  ASSUME EInv, [Next]_vars, NEW v \in Workers, pc'[v] \in Counted \cup {"markers"}
  PROVE  \/ pc'[v] = "markers" /\ Load(v)
         \/ pc'[v] # "markers" /\ ReadMarkers(v)
         \/ /\ pc[v] \in Counted \cup {"markers"} /\ seen'[v] = seen[v]
            /\ pc'[v] # "markers" => pc[v] # "markers"
<1> DEFINE Same == pc'[v] = pc[v] /\ seen'[v] = seen[v]
<1>1. TypeOK
  BY DEF EInv
<1>2. CASE UNCHANGED workerVars
  BY <1>2 DEF workerVars, localVars
<1>3. ASSUME NEW w \in Workers \ {v},
             WorkerStep(w) \/ Fault(w) \/ Abandon(w) \/ \E r \in Rows : ClaimOne(w, r)
      PROVE  Same
  BY <1>3, OthersStay
<1>4. CASE \/ Release(v)
           \/ \E p \in {"load", "deliver", "send", "record", "unconfirmed", "refused",
                        "put_off", "failed_state", "sent_state"} : GoTo(v, p)
           \/ \E k \in {"wait", "hold", "error"} : GoFail(v, k)
           \/ \E r \in Rows : ClaimOne(v, r)
  <2>1. pc'[v] \notin Counted \cup {"markers"}
    BY <1>1, <1>4 DEF TypeOK, Release, GoTo, GoFail, ClaimOne, Counted
  <2>2. QED
    BY <2>1
<1>5. CASE Load(v)
  BY <1>1, <1>5 DEF TypeOK, Load, Counted
<1>6. CASE ReadMarkers(v)
  BY <1>1, <1>6 DEF TypeOK, ReadMarkers, GoTo, GoFail, Counted
<1>7. CASE AssertOutboundNotPaused(v) /\ GoTo(v, "mark")
  BY <1>1, <1>7 DEF TypeOK, AssertOutboundNotPaused, GoTo, Counted, localVars
<1>8. CASE WorkerStep(v) \/ Fault(v) \/ Abandon(v)
  BY <1>4, <1>5, <1>6, <1>7, <1>8
     DEF WorkerStep, Fault, Abandon, AssertCurrentClaim, Resent,
         MarkIdle, AssertOutboundNotPaused, RecordFencedMarker, SendDocumentForEsign,
         RecordUnconfirmed, RecordRefusal, MarkFailed, RecordDocument, MarkSent,
         MarkDelivered, MarkRetryOrDeadLetter
<1>9. CASE Sign \/ UNCHANGED vars \/ \E r \in Rows : RequestEsignSend(r) \/ ReclaimStale(r)
  BY <1>2, <1>9 DEF Sign, RequestEsignSend, ReclaimStale, vars
<1>10. QED
  BY <1>1, <1>3, <1>4, <1>8, <1>9 DEF Next

\* Nobody comes to own a row but by claiming it.
LEMMA OwnsKept ==
  ASSUME EInv, [Next]_vars, NEW v \in Workers, pc'[v] \in Counted, Owns(v)'
  PROVE  Owns(v) /\ row[v] \in Rows
<1>1. TypeOK /\ Claims
  BY DEF EInv
<1>2. pc[v] \in Counted \cup {"markers"}
  BY Approached DEF ReadMarkers, Counted
<1>3. row[v] \in Rows /\ row[v] # None
  BY <1>1, <1>2, NoneAssumption DEF TypeOK, Claims, RowsHeld, Counted
<1>4. Owns(v)
  <2>1. CASE UNCHANGED <<rowVars, row, token>>
    BY <2>1 DEF Owns, rowVars
  <2>2. ASSUME NEW r \in Rows, RequestEsignSend(r) \/ ReclaimStale(r)
        PROVE  Owns(v)
    BY <1>1, <1>3, <2>2 DEF TypeOK, RequestEsignSend, ReclaimStale, Owns, workerVars, localVars
  <2>3. ASSUME NEW w \in Workers, NEW r \in Rows, ClaimOne(w, r)
        PROVE  Owns(v)
    <3>1. v # w
      BY <1>1, <2>3 DEF TypeOK, ClaimOne, Counted
    <3>2. row'[v] = row[v] /\ token'[v] = token[v]
      BY <2>3, <3>1, OthersStay
    <3>3. row[v] # r
      BY <1>1, <1>3, <2>3, <3>2 DEF TypeOK, ClaimOne, Owns, Claims, TokensBounded
    <3>4. QED
      BY <1>1, <1>3, <2>3, <3>2, <3>3 DEF TypeOK, ClaimOne, Owns
  <2>4. ASSUME NEW w \in Workers, HandlerStep(w) \/ RecordFencedMarker(w)
                 \/ SendDocumentForEsign(w) \/ RecordRefusal(w) \/ Abandon(w)
        PROVE  Owns(v)
    <3>1. UNCHANGED rowVars /\ (Onward(w) \/ Ends(w))
      BY <1>1, <2>4, HandlerMoves, DispatchMoves, EndsMoves DEF Abandon
    <3>2. row'[v] = row[v] /\ token'[v] = token[v]
      BY <3>1 DEF Onward, Ends, Counted
    <3>3. QED
      BY <3>1, <3>2 DEF Owns, rowVars
  <2>5. ASSUME NEW w \in Workers, MarkDelivered(w) \/ MarkRetryOrDeadLetter(w)
        PROVE  Owns(v)
    <3>1. Ends(w)
      BY <1>1, <2>5, EndsMoves DEF MarkDelivered, MarkRetryOrDeadLetter
    <3>2. row'[v] = row[v] /\ token'[v] = token[v]
      BY <3>1 DEF Ends, Counted
    <3>3. CASE ~Owns(w)
      BY <2>5, <3>2, <3>3 DEF MarkDelivered, MarkRetryOrDeadLetter, PutOff, Hold, Retry, Settle, Owns
    <3>4. CASE Owns(w)
      <4>1. status'[row[v]] = "processing"
        BY <3>2 DEF Owns
      <4>2. row[v] # row[w]
        BY <1>1, <1>3, <2>5, <3>4, <4>1
           DEF TypeOK, MarkDelivered, MarkRetryOrDeadLetter, PutOff, Hold, Retry, Settle
      <4>3. status'[row[v]] = status[row[v]] /\ attempts'[row[v]] = attempts[row[v]]
        BY <1>1, <1>3, <2>5, <4>2
           DEF TypeOK, MarkDelivered, MarkRetryOrDeadLetter, PutOff, Hold, Retry, Settle
      <4>4. QED
        BY <3>2, <4>3 DEF Owns
    <3>5. QED
      BY <3>3, <3>4
  <2>6. CASE Sign \/ UNCHANGED vars
    BY <2>1, <2>6 DEF Sign, vars, workerVars, localVars
  <2>7. QED
    BY <2>2, <2>3, <2>4, <2>5, <2>6 DEF Next, WorkerStep, HandlerStep
<1>5. QED
  BY <1>3, <1>4

\* Markers are opened by an owner and settled by a refusal.
LEMMA MarkersMove ==
  ASSUME EInv, [Next]_vars
  PROVE  \/ unsettled' = unsettled
         \/ \E w \in Workers :
              /\ RecordFencedMarker(w) /\ pc[w] = "mark" /\ pc'[w] = "send"
              /\ Owns(w) /\ unsettled' = unsettled + 1
         \/ unsettled > 0 /\ unsettled' = unsettled - 1
<1>1. TypeOK /\ Marked
  BY DEF EInv
<1>2. ASSUME NEW w \in Workers, RecordFencedMarker(w)
      PROVE  \/ unsettled' = unsettled
             \/ /\ RecordFencedMarker(w) /\ pc[w] = "mark" /\ pc'[w] = "send"
                /\ Owns(w) /\ unsettled' = unsettled + 1
  BY <1>1, <1>2 DEF TypeOK, RecordFencedMarker, GoTo
<1>3. ASSUME NEW w \in Workers, RecordRefusal(w)
      PROVE  unsettled > 0 /\ unsettled' = unsettled - 1
  BY <1>1, <1>3, RefusalMarked DEF RecordRefusal
<1>4. ASSUME NEW w \in Workers, HandlerStep(w) \/ SendDocumentForEsign(w) \/ Abandon(w)
               \/ MarkDelivered(w) \/ MarkRetryOrDeadLetter(w) \/ \E r \in Rows : ClaimOne(w, r)
      PROVE  unsettled' = unsettled
  BY <1>1, <1>4, HandlerMoves
     DEF SendDocumentForEsign, Abandon, MarkDelivered, MarkRetryOrDeadLetter, ClaimOne
<1>5. CASE Sign \/ UNCHANGED vars \/ \E r \in Rows : RequestEsignSend(r) \/ ReclaimStale(r)
  BY <1>5 DEF Sign, RequestEsignSend, ReclaimStale, vars
<1>6. QED
  BY <1>2, <1>3, <1>4, <1>5 DEF Next, WorkerStep, HandlerStep

LEMMA InitSigned == Init => SignedInv
BY DEF Init, SignedInv, DocKept, SeenIsSigned, Unmarked, OneMarker, Counted

\* With one row two owners are one process: what the owner counted stays true.
LEMMA SignedStep ==
  ASSUME OneRow, EInv, SignedInv, [Next]_vars
  PROVE  SignedInv'
<1> USE DEF SignedInv
<1>1. TypeOK /\ ClaimsAreExclusive /\ unsettled \in Nat /\ (document \in BOOLEAN)
  BY DEF EInv, Claims, TypeOK
<1>2. DocKept'
  BY Documents DEF DocKept
<1>3. SeenIsSigned'
  <2> SUFFICES ASSUME NEW v \in Workers, pc'[v] \in Counted \cup {"markers"}, seen'[v]
               PROVE  docState' = "signed"
    BY DEF SeenIsSigned
  <2>1. CASE pc'[v] = "markers" /\ Load(v)
    <3>1. document /\ docState # "sent" /\ docState' = docState
      BY <1>1, <2>1 DEF TypeOK, Load, appVars
    <3>2. QED
      BY <1>1, <3>1 DEF DocKept, TypeOK
  <2>2. CASE ReadMarkers(v)
    BY <2>2 DEF SeenIsSigned, ReadMarkers, GoTo, GoFail, localVars, appVars, TypeOK, EInv, Counted
  <2>3. CASE pc[v] \in Counted \cup {"markers"} /\ seen'[v] = seen[v]
    BY <2>3, Documents DEF SeenIsSigned
  <2>4. QED
    BY <2>1, <2>2, <2>3, Approached
<1>4. Unmarked'
  <2> SUFFICES ASSUME NEW v \in Workers, pc'[v] \in Counted, Owns(v)', docState' # "signed"
               PROVE  unsettled' = 0
    BY DEF Unmarked
  <2>1. Owns(v) /\ row[v] \in Rows /\ docState # "signed" /\ pc'[v] # "markers"
    BY OwnsKept, Documents DEF Counted
  <2>2. CASE ReadMarkers(v)
    <3>1. ~seen[v]
      BY <2>1, <2>2 DEF SeenIsSigned, ReadMarkers
    <3>2. unsettled = 0 /\ unsettled' = unsettled
      BY <1>1, <2>2, <3>1 DEF TypeOK, ReadMarkers, GoFail, Counted
    <3>3. QED
      BY <3>2
  <2>3. CASE pc[v] \in Counted
    <3>1. unsettled = 0
      BY <2>1, <2>3 DEF Unmarked
    <3>2. ASSUME NEW w \in Workers, pc[w] = "mark", pc'[w] = "send", Owns(w)
          PROVE  FALSE
      <4>1. v # w
        BY <3>2 DEF Counted
      <4>2. row[w] \in Rows /\ row[w] # None
        BY <3>2, NoneAssumption DEF EInv, TypeOK, Claims, RowsHeld
      <4>3. row[w] = row[v] /\ token[w] = token[v]
        BY <2>1, <3>2, <4>2 DEF OneRow, Owns
      <4>4. QED
        BY <1>1, <4>1, <4>2, <4>3 DEF ClaimsAreExclusive
    <3>3. QED
      BY <3>1, <3>2, MarkersMove
  <2>4. QED
    BY <2>1, <2>2, <2>3, Approached
<1>5. OneMarker'
  <2> SUFFICES ASSUME docState' # "signed" PROVE unsettled' <= 1
    BY DEF OneMarker
  <2>1. docState # "signed" /\ unsettled <= 1
    BY Documents DEF OneMarker
  <2>2. ASSUME NEW w \in Workers, pc[w] = "mark", Owns(w)
        PROVE  unsettled = 0
    BY <2>1, <2>2 DEF Unmarked, Counted
  <2>3. QED
    BY <1>1, <2>1, <2>2, MarkersMove
<1>6. QED
  BY <1>2, <1>3, <1>4, <1>5

\* An application with one row: over retries, refusals, unknown outcomes, waits,
\* crashes and lost claims the provider sends one agreement until it is signed.
\* With two rows at once it may send two, since markers are counted without a lock.
THEOREM OneAgreementSent ==
  ASSUME OneRow
  PROVE  Spec => []OneAgreementUntilSigned
<1>1. EInv /\ SignedInv => OneAgreementUntilSigned
  <2> SUFFICES ASSUME EInv, SignedInv, docState # "signed" PROVE sends <= 1
    BY DEF OneAgreementUntilSigned
  <2>1. unsettled <= 1 /\ unsettled \in Nat /\ sends \in 0..MaxSends /\ MaxSends \in Nat
    BY BoundsAssumption DEF SignedInv, OneMarker, EInv, TypeOK
  <2>2. Cardinality(Dispatching) + sends <= unsettled
    BY DEF EInv, Marked
  <2>3. QED
    BY <2>1, <2>2, DispatchingFinite
<1>2. EInv /\ SignedInv /\ [Next]_vars => SignedInv'
  BY SignedStep
<1>3. QED
  BY <1>1, <1>2, InitSigned, SpecEInv, PTL DEF Spec
=============================================================================
