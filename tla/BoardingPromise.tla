--------------------------- MODULE BoardingPromise ---------------------------
(***************************************************************************)
(* What submission promises about one deal, whatever processes, locks,     *)
(* retries and answers do underneath.  DealBoarding implements it.         *)
(*                                                                         *)
(* A command is accepted while the deal is free and ends in one of four    *)
(* ways; how it ended never changes.  The processor takes a command once,  *)
(* never one that is reported as failed or was never accepted, and always  *)
(* one that is reported as delivered.  A command that is held or refused   *)
(* may still be taken: its request was on the way.                         *)
(***************************************************************************)
EXTENDS Naturals

CONSTANT Commands

VARIABLES
  outcome, \* [Commands -> how the command stands]
  taken,   \* [Commands -> how often the processor took it]
  deal     \* how the deal stands

promiseVars == <<outcome, taken, deal>>

Outcomes == {"none", "open", "delivered", "failed", "refused", "held"}
Deals    == {"free", "carried", "held", "submitted"}

PromiseTypeOK ==
  /\ outcome \in [Commands -> Outcomes]
  /\ taken \in [Commands -> {0, 1}]
  /\ deal \in Deals

PromiseInit ==
  /\ outcome = [c \in Commands |-> "none"]
  /\ taken = [c \in Commands |-> 0]
  /\ deal = "free"

\* No other command is open, held for a person or delivered.
Accept(c) ==
  /\ deal = "free" /\ outcome[c] = "none"
  /\ \A d \in Commands : outcome[d] \in {"none", "failed", "refused"}
  /\ outcome' = [outcome EXCEPT ![c] = "open"]
  /\ deal' = "carried"
  /\ UNCHANGED taken

Take(c) ==
  /\ taken[c] = 0 /\ outcome[c] \in {"open", "refused", "held"}
  /\ taken' = [taken EXCEPT ![c] = 1]
  /\ UNCHANGED <<outcome, deal>>

\* A refusal frees the deal, or leaves it to be freed by hand.
Ends(c, how) ==
  /\ outcome[c] = "open"
  /\ how = "delivered" => taken[c] = 1
  /\ how = "failed" => taken[c] = 0
  /\ outcome' = [outcome EXCEPT ![c] = how]
  /\ CASE how = "delivered" -> deal' = "submitted"
       [] how = "failed"    -> deal' = "free"
       [] how = "refused"   -> deal' \in {"free", "carried"}
       [] how = "held"      -> deal' = "held"
  /\ UNCHANGED taken

PromiseNext ==
  \E c \in Commands :
    \/ Accept(c) \/ Take(c)
    \/ \E how \in {"delivered", "failed", "refused", "held"} : Ends(c, how)

PromiseSpec == PromiseInit /\ [][PromiseNext]_promiseVars

-----------------------------------------------------------------------------
(* What the promise amounts to *)

\* Two requests never both carry the deal.
OneOpenCommand ==
  \A c, d \in Commands : outcome[c] = "open" /\ outcome[d] = "open" => c = d

\* While a command is held for reconciliation the deal says so, no command of
\* it was delivered and none is open.
AmbiguityConserved ==
  \A c \in Commands : outcome[c] = "held" =>
    deal = "held" /\ \A d \in Commands : outcome[d] \notin {"delivered", "open"}

\* What is delivered was taken, and what failed was not.
OutcomeIsTrue ==
  \A c \in Commands : /\ outcome[c] = "delivered" => taken[c] = 1
                      /\ outcome[c] \in {"none", "failed"} => taken[c] = 0

\* How a command ended is final.
OutcomeIsFinal ==
  [][\A c \in Commands : outcome[c] \notin {"none", "open"} =>
       outcome'[c] = outcome[c]]_promiseVars
=============================================================================
