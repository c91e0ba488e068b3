--------------------------- MODULE OutboundPause ---------------------------
(***************************************************************************)
(* The global pause of everything that is sent to outside providers.       *)
(*                                                                         *)
(* One control row holds the state and an epoch that every change moves.   *)
(* A sender is authorised from a cached read, registers itself in the      *)
(* database, reads the row again and only then calls the provider.  A      *)
(* pause first makes the state "activating", which refuses new senders,    *)
(* waits until the registered ones are gone and then commits "paused".     *)
(* Server processes share the database; a registration counts for sixty    *)
(* seconds, whether its sender has finished or not.                        *)
(*                                                                         *)
(* Two kinds of mail are let through a standing pause on purpose, message  *)
(* by message: an operator's seed test and the receipt of an inbound       *)
(* request.  Each asks for a lease, which is granted in any state but      *)
(* "activating" and is good for the epoch it was granted in.               *)
(*                                                                         *)
(* Every process runs at most one send and one operator request here, at   *)
(* the same time.  One action is one transaction, one read or one provider *)
(* call.  A cached state may be as old as it likes.                        *)
(***************************************************************************)
EXTENDS Naturals

CONSTANTS
  Procs,     \* server processes
  Keys,      \* idempotency keys that requests carry
  None,      \* no key / nothing cached
  MaxEpoch   \* bound: no request is taken from this epoch on

ASSUME NoneAssumption == None \notin Keys
ASSUME MaxEpochAssumption == MaxEpoch \in Nat \ {0}

VARIABLES
  state, epoch, key, \* outbound_pause_control
  lastPause,  \* outbound_pause_audit: [activating, paused] epochs of the last pause
  hold,       \* active holds of the gated jobs, by reason
  cache,      \* [Procs -> the cached read of the control row]
  row,        \* [Procs -> the sender's row in outbound_inflight_sends]
  sender, grant,  \* [Procs -> where the send is; the epoch it was granted]
  leased,     \* [Procs -> the send asked for a lease]
  call, want, seen, carried
              \* [Procs -> where the request is; the state it asks for; the
              \* epoch it read or activated; its idempotency key]

controlVars == <<state, epoch, key>>
storeVars   == <<lastPause, hold>>
sendVars    == <<row, sender, grant, leased>>
callVars    == <<call, want, seen, carried>>
vars == <<controlVars, storeVars, cache, sendVars, callVars>>

PauseStates == {"paused", "activating", "unpaused"}
Targets     == {"paused", "unpaused"}
Reads       == [state: PauseStates, epoch: Nat]
Rows        == {"none", "live", "lapsed"}
\* "send" and "post" reach from the last check to the provider's answer.  A
\* sender at "post" makes one call; one at "attempt" checks again first.
Sending     == {"send", "post"}
SenderPoints == {"idle", "register", "recheck", "attempt"} \cup Sending
CallPoints  == {"idle", "edit", "drain", "commit", "sync"}

\* The control row, the holds and the registrations only take the states that the
\* code writes, and nothing but these is ever cached: never the text of a row that
\* was seeded by hand.
TypeOK ==
  /\ state \in PauseStates /\ epoch \in Nat /\ key \in Keys \cup {None}
  /\ lastPause \in [activating: Nat, paused: Nat]
  /\ hold \subseteq {"global_outbound", "release_pending"}
  /\ cache \in [Procs -> Reads \cup {None}]
  /\ row \in [Procs -> Rows]
  /\ sender \in [Procs -> SenderPoints] /\ grant \in [Procs -> Nat]
  /\ leased \in [Procs -> BOOLEAN]
  /\ call \in [Procs -> CallPoints] /\ want \in [Procs -> Targets]
  /\ seen \in [Procs -> Nat] /\ carried \in [Procs -> Keys \cup {None}]

\* initializePauseControl seeds the row from the older flag, before any worker
\* starts; no hold is written.
Init ==
  /\ state \in {"paused", "unpaused"}
  /\ epoch = 1 /\ key = None
  /\ lastPause = [activating |-> 0, paused |-> 0]
  /\ hold = {}
  /\ cache = [p \in Procs |-> None]
  /\ row = [p \in Procs |-> "none"]
  /\ sender = [p \in Procs |-> "idle"] /\ grant = [p \in Procs |-> 0]
  /\ leased = [p \in Procs |-> FALSE]
  /\ call = [p \in Procs |-> "idle"] /\ want = [p \in Procs |-> "paused"]
  /\ seen = [p \in Procs |-> 0] /\ carried = [p \in Procs |-> None]

-----------------------------------------------------------------------------
(* Reading the control row *)

Current     == [state |-> state, epoch |-> epoch]
\* Slip: what is stored is passed on unexamined.
StoredAsRead == [state |-> "unknown", epoch |-> 0]

\* What a failed read, a missing row and an unknown state are taken for.
SafeDefault == [state |-> "paused", epoch |-> 0]

\* getPauseState: the cached state, or a read that is then cached.
GetPauseState(p, r) ==
  \/ r = cache[p] /\ UNCHANGED cache
  \/ r \in {Current, SafeDefault} /\ cache' = [cache EXCEPT ![p] = r]

Invalidate(p) == cache' = [cache EXCEPT ![p] = None]

-----------------------------------------------------------------------------
(* A send *)

SenderGoes(p, point) ==
  /\ sender' = [sender EXCEPT ![p] = point]
  /\ UNCHANGED <<row, grant, leased>>

\* deregisterInflight, or the end of the process.  A row whose delete fails
\* only makes a drain fail, which a drain may do at any time.
EndSend(p) ==
  /\ sender' = [sender EXCEPT ![p] = "idle"]
  /\ row' = [row EXCEPT ![p] = "none"]
  /\ grant' = [grant EXCEPT ![p] = 0]
  /\ leased' = [leased EXCEPT ![p] = FALSE]

\* authorize: fail closed, from the cache.
Authorize(p) ==
  /\ sender[p] = "idle"
  /\ \E r \in {cache[p], Current, SafeDefault} \ {None} :
       /\ GetPauseState(p, r)
       /\ \/ /\ r.state = "unpaused"
             /\ sender' = [sender EXCEPT ![p] = "register"]
             /\ grant' = [grant EXCEPT ![p] = r.epoch]
          \/ r.state # "unpaused" /\ UNCHANGED <<sender, grant>>
  /\ UNCHANGED <<controlVars, storeVars, row, leased, callVars>>

\* authorizeSeedSend, authorizeInboundAckSend: from the cache as well, but only
\* from what the database said.  The message's own claim or capability is
\* verified too, and may be refused.
AuthorizeLease(p) ==
  /\ sender[p] = "idle"
  /\ \E r \in {cache[p], Current, SafeDefault} \ {None} :
       /\ GetPauseState(p, r)
       /\ \/ /\ r # SafeDefault /\ r.state # "activating"
             /\ sender' = [sender EXCEPT ![p] = "register"]
             /\ grant' = [grant EXCEPT ![p] = r.epoch]
             /\ leased' = [leased EXCEPT ![p] = TRUE]
          \/ UNCHANGED <<sender, grant, leased>>
  /\ UNCHANGED <<controlVars, storeVars, row, callVars>>

\* registerInflight: a failed insert ends the send.
RegisterInflight(p) ==
  /\ sender[p] = "register"
  /\ \/ /\ row' = [row EXCEPT ![p] = "live"]
        /\ sender' = [sender EXCEPT ![p] = "recheck"]
        /\ UNCHANGED <<grant, leased>>
     \/ EndSend(p)
  /\ UNCHANGED <<controlVars, storeVars, cache, callVars>>

StillGranted(p) == state = "unpaused" /\ epoch = grant[p]

LeaseGood(p) == state # "activating" /\ epoch = grant[p]

\* recheckEpoch and, for a lease, recheckSeedLeaseEpoch: a fresh read, which
\* empties the cache; an error refuses.  Leased mail makes one call.
RecheckEpoch(p) ==
  /\ sender[p] = "recheck"
  /\ \/ /\ ~leased[p] /\ StillGranted(p)
        /\ \E next \in {"attempt", "post"} : SenderGoes(p, next)
     \/ leased[p] /\ LeaseGood(p) /\ SenderGoes(p, "post")
     \/ EndSend(p)
  /\ Invalidate(p)
  /\ UNCHANGED <<controlVars, storeVars, callVars>>

\* recheckEpochFromDB before every attempt of the CRM client.
Attempt(p) ==
  /\ sender[p] = "attempt"
  /\ \/ StillGranted(p) /\ SenderGoes(p, "send")
     \/ EndSend(p)
  /\ UNCHANGED <<controlVars, storeVars, cache, callVars>>

\* The provider call ends the send; the CRM client waits and tries again when
\* it was told to slow down.
ProviderCall(p) ==
  /\ sender[p] \in Sending
  /\ \/ EndSend(p)
     \/ sender[p] = "send" /\ SenderGoes(p, "attempt")
  /\ UNCHANGED <<controlVars, storeVars, cache, callVars>>

\* Sixty seconds have passed since the registration.
Lapse(p) ==
  /\ row[p] = "live"
  /\ row' = [row EXCEPT ![p] = "lapsed"]
  /\ UNCHANGED <<controlVars, storeVars, cache, sender, grant, leased, callVars>>

-----------------------------------------------------------------------------
(* A request to pause or to resume *)

\* The call goes on, or ends, without need of what it remembered.
Forget(p, point) ==
  /\ call' = [call EXCEPT ![p] = point]
  /\ want' = [want EXCEPT ![p] = "paused"]
  /\ seen' = [seen EXCEPT ![p] = 0]
  /\ carried' = [carried EXCEPT ![p] = None]

EndCall(p) == Forget(p, "idle")

CallGoes(p, point) ==
  /\ call' = [call EXCEPT ![p] = point]
  /\ UNCHANGED <<want, seen, carried>>

SetControl(newState, newKey) ==
  /\ state' = newState
  /\ epoch' = epoch + 1
  /\ key' = newKey

\* The state is the one asked for: the same request again changes nothing,
\* another one is a revision of the reason.
Revise(p, target, k) ==
  /\ state = target
  /\ \/ k # None /\ k = key /\ UNCHANGED <<controlVars, cache>>
     \/ /\ k = None \/ k # key
        /\ SetControl(target, k) /\ Invalidate(p)
  /\ EndCall(p)
  /\ UNCHANGED storeVars

\* First transaction of a pause.
Activate(p, target, k) ==
  /\ target = "paused" /\ state # target
  /\ SetControl("activating", None)
  /\ Invalidate(p)
  /\ call' = [call EXCEPT ![p] = "drain"]
  /\ want' = [want EXCEPT ![p] = target]
  /\ seen' = [seen EXCEPT ![p] = epoch + 1]
  /\ carried' = [carried EXCEPT ![p] = k]
  /\ UNCHANGED <<lastPause, hold>>

\* A resumption is one transaction.  When a statement about the holds fails the
\* error is swallowed, so the commit rolls everything back and the request goes
\* on as if it had been made.
Resume(p, target, k) ==
  /\ target = "unpaused" /\ state # target
  /\ \/ SetControl("unpaused", k) /\ hold' = {"release_pending"}
     \/ UNCHANGED <<controlVars, hold>>
  /\ Invalidate(p)
  /\ Forget(p, "sync")
  /\ UNCHANGED lastPause

\* applyPauseMutation up to its first commit, under the advisory lock.
Mutate(p, target, k) ==
  /\ epoch < MaxEpoch
  /\ Revise(p, target, k) \/ Activate(p, target, k) \/ Resume(p, target, k)
  /\ UNCHANGED sendVars

\* The settings route with a wanted state.
SubmitRequest(p) ==
  /\ call[p] = "idle"
  /\ \E target \in Targets, k \in Keys \cup {None} : Mutate(p, target, k)

\* Slip: a pause in the making counts as no pause.
WantedByPaused(r) == IF r.state = "paused" THEN "paused" ELSE "unpaused"

Wanted(r) == IF r.state = "unpaused" THEN "unpaused" ELSE "paused"

\* The settings route with a new reason only: it reads the state and then asks
\* for the state it has read.
ReadForEdit(p) ==
  /\ call[p] = "idle"
  /\ epoch < MaxEpoch
  /\ \E r \in {cache[p], Current, SafeDefault} \ {None} :
       /\ GetPauseState(p, r)
       /\ want' = [want EXCEPT ![p] = Wanted(r)]
       /\ seen' = [seen EXCEPT ![p] = r.epoch]
  /\ call' = [call EXCEPT ![p] = "edit"]
  /\ UNCHANGED <<controlVars, storeVars, sendVars, carried>>

ApplyEdit(p) ==
  /\ call[p] = "edit"
  /\ \E k \in Keys \cup {None} : Mutate(p, want[p], k)

\* Slip: only the sends of its own process are waited for.
DrainLocally(p) ==
  /\ call[p] = "drain"
  /\ \/ sender[p] \in {"idle", "register"} /\ CallGoes(p, "commit")
     \/ EndCall(p)
  /\ UNCHANGED <<controlVars, storeVars, cache, sendVars>>

\* drainInflight: no row counts and this process has no send of its own; or it
\* takes too long, or the count fails, and the request fails: the state stays.
Drain(p) ==
  /\ call[p] = "drain"
  /\ \/ /\ sender[p] \in {"idle", "register"}
        /\ \A q \in Procs : row[q] # "live"
        /\ CallGoes(p, "commit")
     \/ EndCall(p)
  /\ UNCHANGED <<controlVars, storeVars, cache, sendVars>>

\* Slip: the holds are written in a transaction of their own, which may fail.
CommitWithoutHolds(p) ==
  /\ call[p] = "commit"
  /\ \/ /\ state # "activating"
        /\ EndCall(p)
        /\ UNCHANGED <<controlVars, storeVars>>
     \/ /\ state = "activating"
        /\ SetControl("paused", carried[p])
        /\ lastPause' = [activating |-> seen[p], paused |-> epoch + 1]
        /\ UNCHANGED hold
        /\ Forget(p, "sync")
  /\ Invalidate(p)
  /\ UNCHANGED sendVars

\* Second transaction of a pause.  It asks whether the state is "activating",
\* not whether this request made it so.  As in Resume, an error about the holds
\* undoes the transaction without stopping the request.
CommitPause(p) ==
  /\ call[p] = "commit"
  /\ \/ /\ state # "activating"
        /\ EndCall(p)
        /\ UNCHANGED <<controlVars, storeVars>>
     \/ /\ state = "activating"
        /\ \/ /\ SetControl("paused", carried[p])
              /\ lastPause' = [activating |-> seen[p], paused |-> epoch + 1]
              /\ hold' = hold \cup {"global_outbound"}
           \/ UNCHANGED <<controlVars, lastPause, hold>>
        /\ Forget(p, "sync")
  /\ Invalidate(p)
  /\ UNCHANGED sendVars

\* syncToLegacySystemSetting, after the commit: it writes the older flag, which
\* only other code reads and which is left out here, and its errors are ignored.
SyncLegacy(p) ==
  /\ call[p] = "sync"
  /\ EndCall(p)
  /\ UNCHANGED <<controlVars, storeVars, cache, sendVars>>

\* An admin approves the staged release.
ApproveRelease ==
  /\ "release_pending" \in hold
  /\ hold' = hold \ {"release_pending"}
  /\ UNCHANGED <<controlVars, lastPause, cache, sendVars, callVars>>

\* A process dies and restarts: its row stays until it lapses, as above.
Crash(p) ==
  /\ sender[p] # "idle" \/ call[p] # "idle" \/ cache[p] # None
  /\ EndSend(p) /\ EndCall(p) /\ Invalidate(p)
  /\ UNCHANGED <<controlVars, storeVars>>

-----------------------------------------------------------------------------
(* Specification *)

SendStep(p) ==
  \/ Authorize(p) \/ AuthorizeLease(p) \/ RegisterInflight(p) \/ RecheckEpoch(p)
  \/ Attempt(p) \/ ProviderCall(p) \/ Lapse(p)

CallStep(p) ==
  \/ SubmitRequest(p) \/ ReadForEdit(p) \/ ApplyEdit(p)
  \/ Drain(p) \/ CommitPause(p) \/ SyncLegacy(p)

Next ==
  \/ \E p \in Procs : SendStep(p) \/ CallStep(p) \/ Crash(p)
  \/ ApproveRelease

Spec == Init /\ [][Next]_vars

-----------------------------------------------------------------------------
(* Properties *)

\* The audit trail of the pause shows nothing between its two transactions.
Uninterrupted == lastPause.paused = lastPause.activating + 1

\* The barrier: while a pause stands that nothing interrupted, no provider call
\* is under way and none can begin, in any process, retries included, but for the
\* mail whose lease was granted in that very pause: a lease of before is worth
\* nothing, and its mail was waited for like any other.  What the barrier does
\* not cover is a send that outlives its registration of sixty seconds.
NoSendUnderPause ==
  state = "paused" /\ Uninterrupted =>
    \A p \in Procs : sender[p] \in Sending =>
      row[p] = "lapsed" \/ (leased[p] /\ grant[p] >= lastPause.paused)

\* A change of the reason alone never pauses or resumes: unless the control row
\* had moved since the state was read (or could not be read).
EditKeepsState ==
  [][\A p \in Procs :
       call[p] = "edit" /\ call'[p] # "edit" /\ seen[p] = epoch =>
         state' = state]_vars

\* A release that is approved at the wrong moment frees nothing: the jobs stay
\* held as long as a pause stands, and no resumption frees them by itself.
ReleaseNeedsResumption ==
  [][hold # {} /\ hold' = {} => state # "paused" /\ UNCHANGED state]_vars
=============================================================================
