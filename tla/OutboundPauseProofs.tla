------------------------ MODULE OutboundPauseProofs ------------------------
(***************************************************************************)
(* Proofs about OutboundPause, for any number of processes, keys and       *)
(* epochs: type correctness, the barrier of an uninterrupted pause, and    *)
(* what edits of the reason and approvals of a release never do.           *)
(***************************************************************************)
EXTENDS OutboundPause, TLAPS

-----------------------------------------------------------------------------
(* Types *)

\* The end of a send keeps the types of the senders.
LEMMA EndSendTyped ==
  ASSUME TypeOK, NEW p \in Procs, EndSend(p)
  PROVE  row' \in [Procs -> Rows] /\ sender' \in [Procs -> SenderPoints]
         /\ grant' \in [Procs -> Nat] /\ leased' \in [Procs -> BOOLEAN]
BY DEF TypeOK, EndSend, Rows, SenderPoints

\* What a request forgets keeps the types of the requests.
LEMMA ForgetTyped ==
  ASSUME TypeOK, NEW p \in Procs, NEW point \in CallPoints, Forget(p, point)
  PROVE  call' \in [Procs -> CallPoints] /\ want' \in [Procs -> Targets]
         /\ seen' \in [Procs -> Nat] /\ carried' \in [Procs -> Keys \cup {None}]
BY DEF TypeOK, Forget, Targets

LEMMA EndCallTyped ==
  ASSUME TypeOK, NEW p \in Procs, EndCall(p)
  PROVE  call' \in [Procs -> CallPoints] /\ want' \in [Procs -> Targets]
         /\ seen' \in [Procs -> Nat] /\ carried' \in [Procs -> Keys \cup {None}]
BY ForgetTyped DEF EndCall, CallPoints

\* A read is a state and an epoch, and so is what is cached after it.
LEMMA ReadTyped ==
  ASSUME TypeOK, NEW p \in Procs,
         NEW r \in {cache[p], Current, SafeDefault} \ {None}, GetPauseState(p, r)
  PROVE  r \in Reads /\ cache' \in [Procs -> Reads \cup {None}]
<1>1. Current \in Reads /\ SafeDefault \in Reads
  BY DEF TypeOK, Current, SafeDefault, Reads, PauseStates
<1>2. r \in Reads
  BY <1>1 DEF TypeOK
<1>3. QED
  BY <1>2 DEF TypeOK, GetPauseState

\* Emptying a cache keeps its type.
LEMMA InvalidateTyped ==
  ASSUME TypeOK, NEW p \in Procs, Invalidate(p)
  PROVE  cache' \in [Procs -> Reads \cup {None}]
BY DEF TypeOK, Invalidate

\* The initial state is typed.
LEMMA InitTyped == Init => TypeOK
BY DEF Init, TypeOK, PauseStates, Rows, SenderPoints, CallPoints, Targets

\* A step of a send keeps the types.
LEMMA SendTyped ==
  ASSUME TypeOK, NEW p \in Procs, SendStep(p)
  PROVE  TypeOK'
<1> USE DEF controlVars, storeVars, sendVars, callVars
<1>1. CASE Authorize(p)
  <2>1. PICK r \in {cache[p], Current, SafeDefault} \ {None} :
          /\ GetPauseState(p, r)
          /\ \/ /\ r.state = "unpaused"
                /\ sender' = [sender EXCEPT ![p] = "register"]
                /\ grant' = [grant EXCEPT ![p] = r.epoch]
             \/ r.state # "unpaused" /\ UNCHANGED <<sender, grant>>
    BY <1>1 DEF Authorize
  <2>2. r.epoch \in Nat /\ cache' \in [Procs -> Reads \cup {None}]
    BY <2>1, ReadTyped DEF Reads
  <2>3. sender' \in [Procs -> SenderPoints] /\ grant' \in [Procs -> Nat]
    BY <2>1, <2>2 DEF TypeOK, SenderPoints
  <2>4. QED
    BY <1>1, <2>2, <2>3 DEF TypeOK, Authorize
<1>8. CASE AuthorizeLease(p)
  <2>1. PICK r \in {cache[p], Current, SafeDefault} \ {None} :
          /\ GetPauseState(p, r)
          /\ \/ /\ sender' = [sender EXCEPT ![p] = "register"]
                /\ grant' = [grant EXCEPT ![p] = r.epoch]
                /\ leased' = [leased EXCEPT ![p] = TRUE]
             \/ UNCHANGED <<sender, grant, leased>>
    BY <1>8 DEF AuthorizeLease
  <2>2. r.epoch \in Nat /\ cache' \in [Procs -> Reads \cup {None}]
    BY <2>1, ReadTyped DEF Reads
  <2>3. /\ sender' \in [Procs -> SenderPoints] /\ grant' \in [Procs -> Nat]
        /\ leased' \in [Procs -> BOOLEAN]
    BY <2>1, <2>2 DEF TypeOK, SenderPoints
  <2>4. QED
    BY <1>8, <2>2, <2>3 DEF TypeOK, AuthorizeLease
<1>2. CASE RegisterInflight(p)
  BY <1>2, EndSendTyped DEF TypeOK, RegisterInflight, Rows, SenderPoints
<1>3. CASE RecheckEpoch(p)
  BY <1>3, EndSendTyped, InvalidateTyped DEF TypeOK, RecheckEpoch, SenderGoes, SenderPoints, Sending
<1>4. CASE Attempt(p)
  BY <1>4, EndSendTyped DEF TypeOK, Attempt, SenderGoes, SenderPoints, Sending
<1>5. CASE ProviderCall(p)
  BY <1>5, EndSendTyped DEF TypeOK, ProviderCall, SenderGoes, SenderPoints
<1>6. CASE Lapse(p)
  BY <1>6 DEF TypeOK, Lapse, Rows
<1>7. QED
  BY <1>1, <1>2, <1>3, <1>4, <1>5, <1>6, <1>8 DEF SendStep

\* So does a request up to its first commit.
LEMMA MutateTyped ==
  ASSUME TypeOK, NEW p \in Procs, NEW target \in Targets, NEW k \in Keys \cup {None},
         Mutate(p, target, k)
  PROVE  TypeOK'
<1> USE DEF controlVars, storeVars, sendVars, callVars
<1>1. CASE Revise(p, target, k)
  BY <1>1, EndCallTyped, InvalidateTyped
     DEF TypeOK, Mutate, Revise, SetControl, PauseStates, Targets
<1>2. CASE Activate(p, target, k)
  BY <1>2, InvalidateTyped DEF TypeOK, Mutate, Activate, SetControl, PauseStates, CallPoints
<1>3. CASE Resume(p, target, k)
  <2>1. /\ state' \in PauseStates /\ epoch' \in Nat /\ key' \in Keys \cup {None}
        /\ hold' \subseteq {"global_outbound", "release_pending"}
    <3>1. \/ UNCHANGED <<state, epoch, key, hold>>
          \/ /\ state' = "unpaused" /\ epoch' = epoch + 1 /\ key' = k
             /\ hold' = {"release_pending"}
      BY <1>3 DEF Resume, SetControl
    <3>2. epoch + 1 \in Nat
      BY DEF TypeOK
    <3>3. QED
      BY <3>1, <3>2 DEF TypeOK, PauseStates
  <2>2. /\ call' \in [Procs -> CallPoints] /\ want' \in [Procs -> Targets]
        /\ seen' \in [Procs -> Nat] /\ carried' \in [Procs -> Keys \cup {None}]
        /\ UNCHANGED <<lastPause, row, sender, grant, leased>>
    BY <1>3, ForgetTyped DEF Resume, Mutate, CallPoints
  <2>3. cache' \in [Procs -> Reads \cup {None}]
    BY <1>3, InvalidateTyped DEF Resume
  <2>4. QED
    BY <2>1, <2>2, <2>3 DEF TypeOK
<1>4. QED
  BY <1>1, <1>2, <1>3 DEF Mutate

\* And every step of a request.
LEMMA CallTyped ==
  ASSUME TypeOK, NEW p \in Procs, CallStep(p)
  PROVE  TypeOK'
<1> USE DEF controlVars, storeVars, sendVars, callVars
<1>1. CASE SubmitRequest(p)
  BY <1>1, MutateTyped DEF SubmitRequest
<1>2. CASE ReadForEdit(p)
  <2>1. PICK r \in {cache[p], Current, SafeDefault} \ {None} :
          /\ GetPauseState(p, r)
          /\ want' = [want EXCEPT ![p] = Wanted(r)]
          /\ seen' = [seen EXCEPT ![p] = r.epoch]
    BY <1>2 DEF ReadForEdit
  <2>2. r.epoch \in Nat /\ cache' \in [Procs -> Reads \cup {None}]
    BY <2>1, ReadTyped DEF Reads
  <2>3. QED
    BY <1>2, <2>1, <2>2 DEF TypeOK, ReadForEdit, Wanted, Targets, CallPoints
<1>3. CASE ApplyEdit(p)
  BY <1>3, MutateTyped DEF ApplyEdit, TypeOK
<1>4. CASE Drain(p)
  BY <1>4, EndCallTyped DEF TypeOK, Drain, CallGoes, CallPoints
<1>5. CASE CommitPause(p)
  <2>1. /\ state' \in PauseStates /\ epoch' \in Nat /\ key' \in Keys \cup {None}
        /\ hold' \subseteq {"global_outbound", "release_pending"}
    <3>1. carried[p] \in Keys \cup {None} /\ epoch + 1 \in Nat
      BY DEF TypeOK
    <3>2. \/ UNCHANGED <<state, epoch, key, hold>>
          \/ /\ state' = "paused" /\ epoch' = epoch + 1 /\ key' = carried[p]
             /\ hold' = hold \cup {"global_outbound"}
      BY <1>5 DEF CommitPause, SetControl
    <3>3. QED
      BY <3>1, <3>2 DEF TypeOK, PauseStates
  <2>4. lastPause' \in [activating: Nat, paused: Nat]
    <3>1. lastPause' \in {lastPause, [activating |-> seen[p], paused |-> epoch + 1]}
      BY <1>5 DEF CommitPause
    <3>2. seen[p] \in Nat /\ epoch + 1 \in Nat
      BY DEF TypeOK
    <3>3. QED
      BY <3>1, <3>2 DEF TypeOK
  <2>2. /\ call' \in [Procs -> CallPoints] /\ want' \in [Procs -> Targets]
        /\ seen' \in [Procs -> Nat] /\ carried' \in [Procs -> Keys \cup {None}]
    BY <1>5, EndCallTyped, ForgetTyped DEF CommitPause, CallPoints
  <2>3. QED
    BY <1>5, <2>1, <2>2, <2>4, InvalidateTyped DEF TypeOK, CommitPause
<1>6. CASE SyncLegacy(p)
  BY <1>6, EndCallTyped DEF TypeOK, SyncLegacy
<1>7. QED
  BY <1>1, <1>2, <1>3, <1>4, <1>5, <1>6 DEF CallStep

\* Every step keeps the types.
LEMMA NextTyped == TypeOK /\ [Next]_vars => TypeOK'
<1> SUFFICES ASSUME TypeOK, [Next]_vars PROVE TypeOK'
  OBVIOUS
<1> USE DEF controlVars, storeVars, sendVars, callVars
<1>1. ASSUME NEW p \in Procs, Crash(p) PROVE TypeOK'
  BY <1>1, EndSendTyped, EndCallTyped, InvalidateTyped DEF TypeOK, Crash
<1>2. CASE ApproveRelease
  BY <1>2 DEF TypeOK, ApproveRelease
<1>3. CASE UNCHANGED vars
  BY <1>3 DEF TypeOK, vars
<1>4. QED
  BY <1>1, <1>2, <1>3, SendTyped, CallTyped DEF Next

\* The control row, the holds and the registrations only take the states that
\* the code writes, and only these are cached.
THEOREM PauseTypeCorrect == Spec => []TypeOK
BY InitTyped, NextTyped, PTL DEF Spec

-----------------------------------------------------------------------------
(* The inductive invariant *)

\* Whoever is past its registration has a row, lapsed or not.
Registered ==
  \A p \in Procs : sender[p] \in {"recheck", "attempt"} \cup Sending => row[p] # "none"

\* Nobody knows an epoch that is yet to come, and who knows the present one
\* knows the state.
EpochsKnown ==
  /\ epoch > 0 /\ lastPause.paused <= epoch
  /\ \A p \in Procs :
       /\ call[p] \in {"drain", "commit"} => seen[p] <= epoch
       /\ cache[p] # None => /\ cache[p].epoch <= epoch
                             /\ cache[p].epoch = epoch => cache[p].state = state
       /\ call[p] = "edit" => /\ seen[p] <= epoch
                              /\ seen[p] = epoch => want[p] = Wanted(Current)

AllLapsed == \A q \in Procs : sender[q] \in Sending => row[q] = "lapsed"

\* What the barrier says of the sends.
AllExcused ==
  \A q \in Procs : sender[q] \in Sending =>
    row[q] = "lapsed" \/ (leased[q] /\ grant[q] >= lastPause.paused)

LEMMA BarrierForm ==
  /\ NoSendUnderPause <=> (state = "paused" /\ Uninterrupted => AllExcused)
  /\ NoSendUnderPause' <=> (state' = "paused" /\ Uninterrupted' => AllExcused')
BY DEF NoSendUnderPause, AllExcused

\* From the drain of the pause that stands to its commit no send is under way.
Drained ==
  \A p \in Procs :
    call[p] = "commit" /\ seen[p] = epoch /\ state = "activating" => AllLapsed

\* A pause that holds jobs holds them in its own name.
HoldsKept == state = "paused" /\ hold # {} => "global_outbound" \in hold

BInv == TypeOK /\ Registered /\ EpochsKnown /\ Drained /\ NoSendUnderPause /\ HoldsKept

-----------------------------------------------------------------------------
(* What the steps do to the control row and to the sends *)

ControlKept == UNCHANGED <<state, epoch, lastPause>>

\* A change of the control row moves the epoch by one.
ControlMoves ==
  /\ epoch' = epoch + 1
  /\ \/ state' = state /\ UNCHANGED lastPause
     \/ state' \in {"activating", "unpaused"} /\ UNCHANGED lastPause
     \/ /\ state = "activating" /\ state' = "paused"
        /\ \E p \in Procs : call[p] = "commit" /\ lastPause' = [activating |-> seen[p], paused |-> epoch']

\* A send that is under way and counts was so before, or the row allows it, or it
\* holds a lease of the present epoch.
SendsKept ==
  \A q \in Procs : sender'[q] \in Sending =>
    \/ /\ sender[q] \in Sending /\ row'[q] \in {row[q], "lapsed"}
       /\ leased'[q] = leased[q] /\ grant'[q] = grant[q]
    \/ state = "unpaused"
    \/ state # "activating" /\ leased'[q] /\ grant'[q] = epoch

\* The sends are as they were.
SendsFrame == UNCHANGED sendVars

\* A step of a send leaves the control row alone, and begins a call only when the
\* row has just been read and allows it.
LEMMA SendKeeps ==
  ASSUME BInv, NEW p \in Procs, SendStep(p)
  PROVE  ControlKept /\ SendsKept /\ Registered' /\ UNCHANGED <<hold, callVars>>
<1> USE DEF controlVars, storeVars, sendVars, callVars, BInv, TypeOK, ControlKept, Sending
<1>1. ControlKept /\ UNCHANGED <<hold, callVars>>
  BY DEF SendStep, Authorize, AuthorizeLease, RegisterInflight, RecheckEpoch, Attempt,
         ProviderCall, Lapse
<1>2. CASE Authorize(p) \/ AuthorizeLease(p)
  <2>1. PICK e \in Nat :
          /\ row' = row /\ sender[p] = "idle"
          /\ sender' \in {sender, [sender EXCEPT ![p] = "register"]}
          /\ grant' \in {grant, [grant EXCEPT ![p] = e]}
          /\ leased' \in {leased, [leased EXCEPT ![p] = TRUE]}
    <3>1. \A r \in {cache[p], Current, SafeDefault} \ {None} :
            GetPauseState(p, r) => r.epoch \in Nat
      BY ReadTyped DEF Reads
    <3>2. QED
      BY <1>2, <3>1 DEF Authorize, AuthorizeLease
  <2>2. \A q \in Procs : sender'[q] \in Sending => q # p
    BY <2>1
  <2>3. \A q \in Procs \ {p} : /\ sender'[q] = sender[q] /\ row'[q] = row[q]
                               /\ grant'[q] = grant[q] /\ leased'[q] = leased[q]
    BY <2>1
  <2>4. SendsKept
    BY <2>2, <2>3 DEF SendsKept
  <2>5. sender'[p] \in {"idle", "register"}
    BY <2>1
  <2>6. Registered'
    BY <2>3, <2>5 DEF Registered
  <2>7. QED
    BY <1>1, <2>4, <2>6
<1>3. CASE RegisterInflight(p)
  BY <1>3 DEF RegisterInflight, EndSend, SendsKept, Registered
<1>4. CASE RecheckEpoch(p)
  BY <1>4 DEF RecheckEpoch, StillGranted, LeaseGood, SenderGoes, EndSend, SendsKept, Registered
<1>5. CASE Attempt(p)
  BY <1>5 DEF Attempt, StillGranted, SenderGoes, EndSend, SendsKept, Registered
<1>6. CASE ProviderCall(p)
  BY <1>6 DEF ProviderCall, SenderGoes, EndSend, SendsKept, Registered
<1>7. CASE Lapse(p)
  BY <1>7 DEF Lapse, SendsKept, Registered
<1>8. QED
  BY <1>1, <1>2, <1>3, <1>4, <1>5, <1>6, <1>7 DEF SendStep

\* A step of a request leaves the sends alone, and the control row too or moves
\* it by one.
LEMMA CallKeeps ==
  ASSUME BInv, NEW p \in Procs, CallStep(p)
  PROVE  (ControlKept \/ ControlMoves) /\ SendsFrame
<1> USE DEF controlVars, storeVars, sendVars, ControlKept, ControlMoves, SendsFrame
<1>1. ASSUME NEW target \in Targets, NEW k \in Keys \cup {None}, Mutate(p, target, k)
      PROVE  (ControlKept \/ ControlMoves) /\ SendsFrame
  BY <1>1 DEF Mutate, Revise, Activate, Resume, SetControl
<1>2. CASE SubmitRequest(p)
  BY <1>1, <1>2 DEF SubmitRequest
<1>3. CASE ApplyEdit(p)
  BY <1>1, <1>3 DEF ApplyEdit, BInv, TypeOK
<1>4. CASE CommitPause(p)
  BY <1>4 DEF CommitPause, SetControl
<1>5. CASE ReadForEdit(p) \/ Drain(p) \/ SyncLegacy(p)
  BY <1>5 DEF ReadForEdit, Drain, SyncLegacy
<1>6. QED
  BY <1>2, <1>3, <1>4, <1>5 DEF CallStep

-----------------------------------------------------------------------------
(* The invariant is kept *)

\* The reads that a process may take for current are known in the sense above.
LEMMA ReadKnown ==
  ASSUME BInv, NEW p \in Procs,
         NEW r \in {cache[p], Current, SafeDefault} \ {None}, GetPauseState(p, r)
  PROVE  /\ r.epoch <= epoch
         /\ r.epoch = epoch => r.state = state
         /\ \A q \in Procs : cache'[q] \in {cache[q], r}
<1>1. Current.epoch = epoch /\ Current.state = state
  BY DEF Current
<1>2. SafeDefault.epoch = 0 /\ epoch > 0 /\ epoch \in Nat
  BY DEF SafeDefault, BInv, TypeOK, EpochsKnown
<1>3. \A q \in Procs : cache'[q] \in {cache[q], r}
  BY DEF GetPauseState, BInv, TypeOK
<1>4. r.epoch <= epoch /\ (r.epoch = epoch => r.state = state)
  BY <1>1, <1>2 DEF BInv, EpochsKnown
<1>5. QED
  BY <1>3, <1>4

\* An emptied cache knows nothing.
LEMMA InvalidateKnown ==
  ASSUME TypeOK, NEW p \in Procs, Invalidate(p)
  PROVE  cache'[p] = None /\ \A q \in Procs \ {p} : cache'[q] = cache[q]
BY DEF TypeOK, Invalidate

\* A step of a send.
LEMMA SendKnows ==
  ASSUME BInv, NEW p \in Procs, SendStep(p)
  PROVE  EpochsKnown'
<1>1. UNCHANGED <<state, epoch, lastPause, call, want, seen>>
  BY SendKeeps DEF ControlKept, callVars
<1>2. \A q \in Procs : cache'[q] # None =>
        cache'[q].epoch <= epoch /\ (cache'[q].epoch = epoch => cache'[q].state = state)
  <2>1. CASE Authorize(p)
    BY <2>1, ReadKnown DEF Authorize, BInv, EpochsKnown
  <2>5. CASE AuthorizeLease(p)
    BY <2>5, ReadKnown DEF AuthorizeLease, BInv, EpochsKnown
  <2>2. CASE RecheckEpoch(p)
    BY <2>2, InvalidateKnown DEF RecheckEpoch, BInv, EpochsKnown
  <2>3. CASE RegisterInflight(p) \/ Attempt(p) \/ ProviderCall(p) \/ Lapse(p)
    BY <2>3 DEF RegisterInflight, Attempt, ProviderCall, Lapse, BInv, EpochsKnown
  <2>4. QED
    BY <2>1, <2>2, <2>3, <2>5 DEF SendStep
<1>3. Wanted(Current)' = Wanted(Current)
  BY <1>1 DEF Wanted, Current
<1>4. QED
  BY <1>1, <1>2, <1>3 DEF BInv, EpochsKnown

\* What is left of the invariant when control row and requests stand still.
LEMMA SendBarrier ==
  ASSUME BInv, NEW p \in Procs, SendStep(p)
  PROVE  Drained' /\ NoSendUnderPause' /\ HoldsKept'
<1>1. UNCHANGED <<state, epoch, lastPause, call, seen, hold>> /\ SendsKept
  BY SendKeeps DEF ControlKept, callVars
<1>2. state = "activating" /\ AllLapsed => AllLapsed'
  BY <1>1 DEF SendsKept, AllLapsed
<1>3. state = "paused" /\ AllExcused => AllExcused'
  <2> SUFFICES ASSUME state = "paused", AllExcused, NEW q \in Procs, sender'[q] \in Sending
               PROVE  row'[q] = "lapsed" \/ (leased'[q] /\ grant'[q] >= lastPause.paused)
    BY <1>1 DEF AllExcused
  <2>1. CASE sender[q] \in Sending /\ row'[q] \in {row[q], "lapsed"}
             /\ leased'[q] = leased[q] /\ grant'[q] = grant[q]
    BY <2>1 DEF AllExcused
  <2>2. CASE leased'[q] /\ grant'[q] = epoch
    <3>1. lastPause.paused \in Nat /\ epoch \in Nat /\ lastPause.paused <= epoch
      BY DEF BInv, TypeOK, EpochsKnown
    <3>2. grant'[q] >= lastPause.paused
      BY <2>2, <3>1
    <3>3. QED
      BY <2>2, <3>2
  <2>3. QED
    BY <1>1, <2>1, <2>2 DEF SendsKept
<1>5. Uninterrupted' = Uninterrupted
  BY <1>1 DEF Uninterrupted
<1>6. NoSendUnderPause'
  BY <1>1, <1>3, <1>5, BarrierForm DEF BInv
<1>7. Drained'
  BY <1>1, <1>2 DEF BInv, Drained
<1>8. HoldsKept'
  BY <1>1 DEF BInv, HoldsKept
<1>9. QED
  BY <1>6, <1>7, <1>8

\* A request that ends, or forgets, knows nothing.
LEMMA ForgetKnown ==
  ASSUME TypeOK, NEW p \in Procs, NEW point, Forget(p, point)
  PROVE  /\ call'[p] = point
         /\ \A q \in Procs \ {p} : call'[q] = call[q] /\ seen'[q] = seen[q] /\ want'[q] = want[q]
BY DEF TypeOK, Forget

LEMMA EndCallKnown ==
  ASSUME TypeOK, NEW p \in Procs, EndCall(p)
  PROVE  /\ call'[p] = "idle"
         /\ \A q \in Procs \ {p} : call'[q] = call[q] /\ seen'[q] = seen[q] /\ want'[q] = want[q]
BY ForgetKnown DEF EndCall

\* What a request knows of the epoch when only the epoch and its own record move.
LEMMA OthersKnow ==
  ASSUME BInv, NEW p \in Procs, epoch' \in {epoch, epoch + 1},
         epoch' = epoch => state' = state,
         lastPause'.paused \in {lastPause.paused, epoch'},
         \A q \in Procs \ {p} : call'[q] = call[q] /\ seen'[q] = seen[q] /\ want'[q] = want[q],
         \A q \in Procs \ {p} : cache'[q] = cache[q],
         call'[p] \in {"drain", "commit"} => seen'[p] <= epoch',
         cache'[p] \in {cache[p], None} \/ (epoch' = epoch /\ cache'[p].epoch <= epoch
            /\ (cache'[p].epoch = epoch => cache'[p].state = state)),
         call'[p] = "edit" => /\ epoch' = epoch /\ seen'[p] <= epoch
                              /\ seen'[p] = epoch => want'[p] = Wanted(Current)
  PROVE  EpochsKnown'
<1>1. /\ epoch \in Nat /\ epoch > 0 /\ lastPause.paused \in Nat /\ lastPause.paused <= epoch
      /\ \A q \in Procs : seen[q] \in Nat
      /\ \A q \in Procs : cache[q] # None => cache[q].epoch \in Nat
  BY DEF BInv, TypeOK, Reads, EpochsKnown
<1>2. epoch' = epoch => Wanted(Current)' = Wanted(Current)
  BY DEF Wanted, Current
<1>3. \A q \in Procs : call'[q] \in {"drain", "commit"} => seen'[q] <= epoch'
  BY <1>1 DEF BInv, EpochsKnown
<1>4. \A q \in Procs : cache'[q] # None =>
        cache'[q].epoch <= epoch' /\ (cache'[q].epoch = epoch' => cache'[q].state = state')
  BY <1>1 DEF BInv, EpochsKnown
<1>5. \A q \in Procs : call'[q] = "edit" =>
        seen'[q] <= epoch' /\ (seen'[q] = epoch' => want'[q] = Wanted(Current)')
  <2> SUFFICES ASSUME NEW q \in Procs, call'[q] = "edit"
               PROVE  seen'[q] <= epoch' /\ (seen'[q] = epoch' => want'[q] = Wanted(Current)')
    OBVIOUS
  <2>1. CASE q = p
    BY <2>1, <1>2
  <2>2. CASE q # p
    <3>1. seen'[q] = seen[q] /\ want'[q] = want[q] /\ seen[q] <= epoch /\ seen[q] \in Nat
          /\ (seen[q] = epoch => want[q] = Wanted(Current))
      BY <2>2, <1>1 DEF BInv, EpochsKnown
    <3>2. CASE epoch' = epoch
      BY <3>1, <3>2, <1>2
    <3>3. CASE epoch' = epoch + 1
      BY <3>1, <3>3, <1>1
    <3>4. QED
      BY <3>2, <3>3
  <2>3. QED
    BY <2>1, <2>2
<1>7. epoch' > 0 /\ lastPause'.paused <= epoch'
  BY <1>1
<1>6. QED
  BY <1>3, <1>4, <1>5, <1>7 DEF EpochsKnown

\* A request, up to its first commit.
LEMMA MutateKnows ==
  ASSUME BInv, NEW p \in Procs, NEW target \in Targets, NEW k \in Keys \cup {None},
         Mutate(p, target, k)
  PROVE  /\ EpochsKnown' /\ HoldsKept'
         /\ \A q \in Procs : call'[q] = "commit" => call[q] = "commit" /\ seen'[q] = seen[q]
<1> USE DEF controlVars, storeVars
<1>0. TypeOK /\ epoch \in Nat
  BY DEF BInv, TypeOK
<1>1. CASE Revise(p, target, k)
  <2>1. EndCall(p) /\ (UNCHANGED cache \/ Invalidate(p)) /\ UNCHANGED <<state, hold, lastPause>>
        /\ (epoch' = epoch \/ epoch' = epoch + 1)
    BY <1>1 DEF Revise, SetControl
  <2>2. EpochsKnown'
    BY <2>1, <1>0, EndCallKnown, InvalidateKnown, OthersKnow
  <2>3. QED
    BY <2>1, <2>2, <1>0, EndCallKnown DEF BInv, HoldsKept
<1>2. CASE Activate(p, target, k)
  <2>1. /\ epoch' = epoch + 1 /\ state' = "activating" /\ Invalidate(p) /\ UNCHANGED lastPause
        /\ call' = [call EXCEPT ![p] = "drain"] /\ seen' = [seen EXCEPT ![p] = epoch + 1]
        /\ want' = [want EXCEPT ![p] = target]
    BY <1>2 DEF Activate, SetControl
  <2>2. /\ call'[p] = "drain" /\ seen'[p] = epoch'
        /\ \A q \in Procs \ {p} : call'[q] = call[q] /\ seen'[q] = seen[q] /\ want'[q] = want[q]
    BY <2>1, <1>0 DEF TypeOK
  <2>3. EpochsKnown'
    BY <2>1, <2>2, <1>0, InvalidateKnown, OthersKnow
  <2>4. QED
    BY <2>1, <2>2, <2>3 DEF HoldsKept
<1>3. CASE Resume(p, target, k)
  <2>1. /\ Invalidate(p) /\ UNCHANGED lastPause
        /\ \/ epoch' = epoch + 1 /\ state' = "unpaused"
           \/ UNCHANGED <<epoch, state, hold>>
        /\ Forget(p, "sync")
    BY <1>3 DEF Resume, SetControl
  <2>2. /\ call'[p] = "sync"
        /\ \A q \in Procs \ {p} : call'[q] = call[q] /\ seen'[q] = seen[q] /\ want'[q] = want[q]
    BY <2>1, <1>0, ForgetKnown 
  <2>3. EpochsKnown'
    BY <2>1, <2>2, <1>0, InvalidateKnown, OthersKnow
  <2>4. QED
    BY <2>1, <2>2, <2>3 DEF BInv, HoldsKept
<1>4. QED
  BY <1>1, <1>2, <1>3 DEF Mutate

\* The steps of a request keep what is known, and a request reaches its commit by
\* a drain that found nothing.
LEMMA CallKnows ==
  ASSUME BInv, NEW p \in Procs, CallStep(p)
  PROVE  /\ EpochsKnown' /\ HoldsKept'
         /\ \A q \in Procs : call'[q] = "commit" =>
              \/ call[q] = "commit" /\ seen'[q] = seen[q]
              \/ ControlKept /\ AllLapsed
<1> USE DEF controlVars, storeVars, sendVars
<1>0. TypeOK /\ epoch \in Nat
  BY DEF BInv, TypeOK
<1>1. CASE SubmitRequest(p)
  BY <1>1, MutateKnows DEF SubmitRequest
<1>2. CASE ApplyEdit(p)
  BY <1>2, <1>0, MutateKnows DEF ApplyEdit, TypeOK
<1>3. CASE ReadForEdit(p)
  <2>1. PICK r \in {cache[p], Current, SafeDefault} \ {None} :
          /\ GetPauseState(p, r)
          /\ want' = [want EXCEPT ![p] = Wanted(r)]
          /\ seen' = [seen EXCEPT ![p] = r.epoch]
    BY <1>3 DEF ReadForEdit
  <2>2. UNCHANGED <<state, epoch, hold, lastPause>> /\ call' = [call EXCEPT ![p] = "edit"]
    BY <1>3 DEF ReadForEdit
  <2>3. /\ call'[p] = "edit" /\ seen'[p] = r.epoch /\ want'[p] = Wanted(r)
        /\ \A q \in Procs \ {p} : call'[q] = call[q] /\ seen'[q] = seen[q] /\ want'[q] = want[q]
    BY <2>1, <2>2, <1>0 DEF TypeOK
  <2>4. /\ r.epoch <= epoch /\ (r.epoch = epoch => r.state = state)
        /\ cache'[p] \in {cache[p], r}
    BY <2>1, ReadKnown
  <2>5. \A q \in Procs \ {p} : cache'[q] = cache[q]
    BY <2>1, <1>0 DEF GetPauseState, TypeOK
  <2>6. r.epoch = epoch => Wanted(r) = Wanted(Current)
    BY <2>4 DEF Wanted, Current
  <2>7. EpochsKnown'
    BY <2>2, <2>3, <2>4, <2>5, <2>6, OthersKnow
  <2>8. QED
    BY <2>2, <2>3, <2>7 DEF BInv, HoldsKept
<1>4. CASE Drain(p)
  <2>1. UNCHANGED <<state, epoch, hold, cache, lastPause, row, sender>>
    BY <1>4 DEF Drain
  <2>2. CASE EndCall(p)
    BY <2>1, <2>2, <1>0, EndCallKnown, OthersKnow DEF BInv, HoldsKept
  <2>3. CASE (\A q \in Procs : row[q] # "live") /\ CallGoes(p, "commit")
    <3>1. /\ call'[p] = "commit" /\ seen'[p] = seen[p] /\ call[p] = "drain"
          /\ \A q \in Procs \ {p} : call'[q] = call[q] /\ seen'[q] = seen[q] /\ want'[q] = want[q]
      BY <1>4, <2>3, <1>0 DEF CallGoes, TypeOK, Drain
    <3>2. seen'[p] <= epoch'
      BY <2>1, <3>1 DEF BInv, EpochsKnown
    <3>3. EpochsKnown'
      BY <2>1, <3>1, <3>2, OthersKnow
    <3>4. AllLapsed
      BY <2>3 DEF BInv, Registered, TypeOK, Rows, AllLapsed
    <3>5. QED
      BY <2>1, <3>1, <3>3, <3>4 DEF BInv, HoldsKept, ControlKept
  <2>4. QED
    BY <1>4, <2>2, <2>3 DEF Drain
<1>5. CASE CommitPause(p)
  <2>1. Invalidate(p)
    BY <1>5 DEF CommitPause
  <2>2. CASE EndCall(p) /\ UNCHANGED <<state, epoch, hold, lastPause>>
    BY <2>1, <2>2, <1>0, EndCallKnown, InvalidateKnown, OthersKnow DEF BInv, HoldsKept
  <2>3. CASE /\ Forget(p, "sync")
             /\ \/ UNCHANGED <<state, epoch, hold, lastPause>>
                \/ /\ epoch' = epoch + 1 /\ hold' = hold \cup {"global_outbound"}
                   /\ lastPause'.paused = epoch'
    <3>1. /\ call'[p] = "sync"
          /\ \A q \in Procs \ {p} : call'[q] = call[q] /\ seen'[q] = seen[q] /\ want'[q] = want[q]
      BY <2>3, <1>0, ForgetKnown
    <3>2. EpochsKnown'
      BY <2>1, <2>3, <3>1, <1>0, <1>5, InvalidateKnown, OthersKnow DEF CommitPause, SetControl
    <3>3. QED
      BY <2>3, <3>1, <3>2, <1>5 DEF BInv, HoldsKept, CommitPause
  <2>4. QED
    BY <1>5, <2>2, <2>3 DEF CommitPause, SetControl
<1>6. CASE SyncLegacy(p)
  <2>1. EndCall(p) /\ UNCHANGED <<state, epoch, hold, lastPause, cache>>
    BY <1>6 DEF SyncLegacy
  <2>2. QED
    BY <2>1, <1>0, EndCallKnown, OthersKnow DEF BInv, HoldsKept
<1>7. QED
  BY <1>1, <1>2, <1>3, <1>4, <1>5, <1>6 DEF CallStep

\* The barrier stands over every step of a request: a pause that commits in the
\* epoch after its activation commits behind its own drain.
LEMMA CallBarrier ==
  ASSUME BInv, NEW p \in Procs, CallStep(p)
  PROVE  Registered' /\ Drained' /\ NoSendUnderPause'
<1>1. (ControlKept \/ ControlMoves) /\ UNCHANGED <<row, sender, grant, leased>>
  BY CallKeeps DEF SendsFrame, sendVars
<1>2. AllLapsed' <=> AllLapsed
  BY <1>1 DEF AllLapsed
<1>3. Registered'
  BY <1>1 DEF BInv, Registered
<1>4. /\ epoch \in Nat /\ \A q \in Procs : seen[q] \in Nat
      /\ \A q \in Procs : call[q] = "commit" => seen[q] <= epoch
  BY DEF BInv, TypeOK, EpochsKnown
<1>5. Drained'
  <2> SUFFICES ASSUME NEW q \in Procs, call'[q] = "commit", seen'[q] = epoch', state' = "activating"
               PROVE  AllLapsed'
    BY DEF Drained
  <2>1. CASE ControlKept /\ AllLapsed
    BY <2>1, <1>2
  <2>2. CASE call[q] = "commit" /\ seen'[q] = seen[q]
    <3>1. epoch' # epoch + 1
      BY <2>2, <1>4
    <3>2. ControlKept
      BY <3>1, <1>1 DEF ControlMoves
    <3>3. QED
      BY <2>2, <3>2, <1>2 DEF ControlKept, BInv, Drained
  <2>3. QED
    BY <2>1, <2>2, CallKnows
<1>6. AllLapsed => AllExcused'
  BY <1>1 DEF AllLapsed, AllExcused
<1>7. UNCHANGED lastPause /\ AllExcused => AllExcused'
  BY <1>1 DEF AllExcused
<1>8. NoSendUnderPause'
  <2> SUFFICES ASSUME state' = "paused", Uninterrupted' PROVE AllExcused'
    BY BarrierForm
  <2>1. CASE state = "paused" /\ UNCHANGED lastPause
    BY <2>1, <1>7, BarrierForm DEF BInv, Uninterrupted
  <2>2. CASE \E q \in Procs : /\ state = "activating" /\ call[q] = "commit" /\ epoch' = epoch + 1
                              /\ lastPause' = [activating |-> seen[q], paused |-> epoch']
    <3>1. PICK q \in Procs : /\ state = "activating" /\ call[q] = "commit" /\ epoch' = epoch + 1
                             /\ lastPause' = [activating |-> seen[q], paused |-> epoch']
      BY <2>2
    <3>2. seen[q] = epoch
      BY <3>1, <1>4 DEF Uninterrupted
    <3>3. QED
      BY <3>1, <3>2, <1>6 DEF BInv, Drained
  <2>3. QED
    BY <2>1, <2>2, <1>1 DEF ControlKept, ControlMoves
<1>9. QED
  BY <1>3, <1>5, <1>8

\* A process that dies leaves nothing behind but its row.
LEMMA CrashKeeps ==
  ASSUME BInv, NEW p \in Procs, Crash(p)
  PROVE  BInv'
<1>1. /\ TypeOK /\ EndSend(p) /\ EndCall(p) /\ Invalidate(p)
      /\ UNCHANGED <<state, epoch, lastPause, hold>>
  BY DEF BInv, Crash, controlVars, storeVars
<1>2. TypeOK'
  BY <1>1, NextTyped DEF Next
<1>3. EpochsKnown'
  BY <1>1, EndCallKnown, InvalidateKnown, OthersKnow
<1>4. \A q \in Procs : \/ sender'[q] = "idle"
                        \/ /\ sender'[q] = sender[q] /\ row'[q] = row[q]
                           /\ grant'[q] = grant[q] /\ leased'[q] = leased[q]
  BY <1>1 DEF EndSend, TypeOK
<1>5. Registered' /\ (AllLapsed => AllLapsed')
  BY <1>4 DEF BInv, Registered, AllLapsed, Sending
<1>6. Drained'
  BY <1>1, <1>5, EndCallKnown DEF BInv, Drained
<1>7. NoSendUnderPause' /\ HoldsKept'
  BY <1>1, <1>4 DEF BInv, NoSendUnderPause, Uninterrupted, Sending, HoldsKept
<1>8. QED
  BY <1>2, <1>3, <1>5, <1>6, <1>7 DEF BInv

\* The invariant holds at the start and is kept by every step.
LEMMA InitBarrier == Init => BInv
<1> SUFFICES ASSUME Init PROVE BInv
  OBVIOUS
<1>1. TypeOK
  BY InitTyped
<1>2. QED
  BY <1>1 DEF Init, BInv, Registered, EpochsKnown, Drained, NoSendUnderPause, Uninterrupted,
              HoldsKept, Sending

LEMMA NextBarrier == BInv /\ [Next]_vars => BInv'
<1> SUFFICES ASSUME BInv, [Next]_vars PROVE BInv'
  OBVIOUS
<1>1. TypeOK'
  BY NextTyped DEF BInv
<1>2. ASSUME NEW p \in Procs, SendStep(p) PROVE BInv'
  BY <1>1, <1>2, SendKeeps, SendKnows, SendBarrier DEF BInv
<1>3. ASSUME NEW p \in Procs, CallStep(p) PROVE BInv'
  BY <1>1, <1>3, CallKnows, CallBarrier DEF BInv
<1>4. CASE ApproveRelease
  <2>1. UNCHANGED <<controlVars, lastPause, cache, sendVars, callVars>>
        /\ hold' = hold \ {"release_pending"}
    BY <1>4 DEF ApproveRelease
  <2>2. HoldsKept'
    BY <2>1 DEF BInv, HoldsKept, controlVars
  <2>3. Registered' /\ EpochsKnown' /\ Drained' /\ NoSendUnderPause'
    BY <2>1 DEF BInv, Registered, EpochsKnown, Drained, AllLapsed, NoSendUnderPause,
                Uninterrupted, Wanted, Current, controlVars, sendVars, callVars
  <2>4. QED
    BY <1>1, <2>2, <2>3 DEF BInv
<1>5. CASE UNCHANGED vars
  BY <1>1, <1>5 DEF BInv, Registered, EpochsKnown, Drained, AllLapsed, NoSendUnderPause,
               Uninterrupted, HoldsKept, Wanted, Current, vars, controlVars, storeVars, sendVars, callVars
<1>6. QED
  BY <1>2, <1>3, <1>4, <1>5, CrashKeeps DEF Next

-----------------------------------------------------------------------------
(* The properties *)

\* While a pause stands that nothing interrupted, no provider call is under way
\* whose registration still counts, in any process, unless its lease was granted
\* in that very pause.
THEOREM BarrierHolds == Spec => []NoSendUnderPause
<1>1. BInv => NoSendUnderPause
  BY DEF BInv
<1>2. QED
  BY InitBarrier, NextBarrier, <1>1, PTL DEF Spec

\* A request that edits the reason alone keeps the state that it has read.
LEMMA EditSteps ==
  ASSUME BInv, [Next]_vars, NEW p \in Procs, call[p] = "edit", call'[p] # "edit", seen[p] = epoch
  PROVE  state' = state
<1> USE DEF controlVars, storeVars, sendVars, callVars
<1>1. TypeOK /\ want[p] = Wanted(Current)
  BY DEF BInv, EpochsKnown
<1>2. CASE ApplyEdit(p)
  <2>1. PICK k \in Keys \cup {None} : Mutate(p, want[p], k)
    BY <1>2 DEF ApplyEdit
  <2>2. want[p] = (IF state = "unpaused" THEN "unpaused" ELSE "paused")
    BY <1>1 DEF Wanted, Current
  <2>3. QED
    BY <2>1, <2>2, <1>1 DEF Mutate, Revise, Activate, Resume, SetControl, TypeOK, PauseStates
<1>3. ASSUME NEW q \in Procs, CallStep(q), q # p PROVE FALSE
  BY <1>3, <1>1 DEF CallStep, SubmitRequest, ReadForEdit, ApplyEdit, Mutate, Revise, Activate, Resume,
       Drain, CommitPause, SyncLegacy, EndCall, Forget, CallGoes, TypeOK
<1>4. CASE CallStep(p)
  BY <1>4, <1>2 DEF CallStep, SubmitRequest, ReadForEdit, Drain, CommitPause, SyncLegacy
<1>5. ASSUME NEW q \in Procs, SendStep(q) PROVE state' = state
  BY <1>5, SendKeeps DEF ControlKept
<1>6. ASSUME NEW q \in Procs, Crash(q) PROVE state' = state
  BY <1>6 DEF Crash
<1>7. CASE ApproveRelease \/ UNCHANGED vars
  BY <1>7 DEF ApproveRelease, vars
<1>8. QED
  BY <1>3, <1>4, <1>5, <1>6, <1>7 DEF Next

\* A change of the reason alone never pauses or resumes, unless the control row
\* had moved since the state was read.
THEOREM EditHolds == Spec => EditKeepsState
<1>1. BInv /\ [Next]_vars =>
        [\A p \in Procs : call[p] = "edit" /\ call'[p] # "edit" /\ seen[p] = epoch =>
           state' = state]_vars
  BY EditSteps
<1>2. QED
  BY InitBarrier, NextBarrier, <1>1, PTL DEF Spec, EditKeepsState

\* Only the approval of a release ends the last hold.
LEMMA ReleaseSteps ==
  ASSUME BInv, [Next]_vars, hold # {}, hold' = {}
  PROVE  state # "paused" /\ UNCHANGED state
<1> USE DEF controlVars, storeVars, sendVars, callVars
<1>1. CASE ApproveRelease
  BY <1>1 DEF ApproveRelease, BInv, HoldsKept
<1>2. ASSUME NEW p \in Procs, SendStep(p) PROVE FALSE
  BY <1>2, SendKeeps
<1>3. ASSUME NEW p \in Procs, CallStep(p) PROVE FALSE
  BY <1>3 DEF CallStep, SubmitRequest, ReadForEdit, ApplyEdit, Mutate, Revise, Activate, Resume,
       Drain, CommitPause, SyncLegacy
<1>4. ASSUME NEW p \in Procs, Crash(p) PROVE FALSE
  BY <1>4 DEF Crash
<1>5. CASE UNCHANGED vars
  BY <1>5 DEF vars
<1>6. QED
  BY <1>1, <1>2, <1>3, <1>4, <1>5 DEF Next

\* The jobs stay held as long as a pause stands, and no resumption frees them.
THEOREM ReleaseHolds == Spec => ReleaseNeedsResumption
<1>1. BInv /\ [Next]_vars =>
        [hold # {} /\ hold' = {} => state # "paused" /\ UNCHANGED state]_vars
  BY ReleaseSteps
<1>2. QED
  BY InitBarrier, NextBarrier, <1>1, PTL DEF Spec, ReleaseNeedsResumption
=============================================================================
