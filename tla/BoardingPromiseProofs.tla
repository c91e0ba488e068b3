------------------------ MODULE BoardingPromiseProofs ------------------------
(***************************************************************************)
(* Consequences of BoardingPromise, for any set of commands.  They hold of *)
(* every implementation of it, hence of DealBoarding (PromiseIsKept).      *)
(***************************************************************************)
EXTENDS BoardingPromise, TLAPS

\* An open command carries the deal; a held or delivered one marks it.
DealFollows ==
  \A c \in Commands : /\ outcome[c] = "open"      => deal = "carried"
                      /\ outcome[c] = "held"      => deal = "held"
                      /\ outcome[c] = "delivered" => deal = "submitted"

PInv == PromiseTypeOK /\ OneOpenCommand /\ DealFollows /\ OutcomeIsTrue

\* The promise starts with nothing accepted and nothing taken.
LEMMA PromiseInitInv == PromiseInit => PInv
BY DEF PromiseInit, PInv, PromiseTypeOK, Outcomes, Deals, OneOpenCommand,
       DealFollows, OutcomeIsTrue

\* Accepting, taking and ending commands keep the deal in step with them.
LEMMA PromiseStepInv == PInv /\ [PromiseNext]_promiseVars => PInv'
<1> SUFFICES ASSUME PInv, [PromiseNext]_promiseVars PROVE PInv'
  OBVIOUS
<1> USE DEF PInv, PromiseTypeOK, OneOpenCommand, DealFollows, OutcomeIsTrue
<1>1. ASSUME NEW c \in Commands, Accept(c) PROVE PInv'
  BY <1>1 DEF Accept, Outcomes, Deals
<1>2. ASSUME NEW c \in Commands, Take(c) PROVE PInv'
  BY <1>2 DEF Take
<1>3. ASSUME NEW c \in Commands,
             NEW how \in {"delivered", "failed", "refused", "held"}, Ends(c, how)
      PROVE  PInv'
  <2>1. /\ outcome[c] = "open" /\ taken' = taken
        /\ outcome' = [outcome EXCEPT ![c] = how]
        /\ how = "delivered" => taken[c] = 1
        /\ how = "failed" => taken[c] = 0
    BY <1>3 DEF Ends
  <2>2. /\ how = "delivered" => deal' = "submitted"
        /\ how = "failed" => deal' = "free"
        /\ how = "refused" => deal' \in {"free", "carried"}
        /\ how = "held" => deal' = "held"
    BY <1>3 DEF Ends
  <2>3. \A d \in Commands \ {c} :
          outcome'[d] = outcome[d] /\ outcome[d] \notin {"open", "held", "delivered"}
    BY <2>1
  <2>4. PromiseTypeOK'
    BY <2>1, <2>2 DEF Outcomes, Deals
  <2>5. OneOpenCommand' /\ DealFollows' /\ OutcomeIsTrue'
    BY <2>1, <2>2, <2>3
  <2>6. QED
    BY <2>4, <2>5
<1>4. CASE UNCHANGED promiseVars
  BY <1>4 DEF promiseVars
<1>5. QED
  BY <1>1, <1>2, <1>3, <1>4 DEF PromiseNext

\* One command at a time carries the deal, a held one stops it, and how a
\* command ended is true of the processor and final.
THEOREM PromiseHolds ==
  PromiseSpec => /\ []OneOpenCommand /\ []AmbiguityConserved /\ []OutcomeIsTrue
                 /\ OutcomeIsFinal
<1>1. PInv => AmbiguityConserved
  BY DEF PInv, DealFollows, AmbiguityConserved
<1>2. PInv /\ [PromiseNext]_promiseVars =>
        [\A c \in Commands : outcome[c] \notin {"none", "open"} =>
           outcome'[c] = outcome[c]]_promiseVars
  BY DEF PInv, PromiseTypeOK, PromiseNext, Accept, Take, Ends
<1>3. PInv => OneOpenCommand /\ OutcomeIsTrue
  BY DEF PInv
<1>4. QED
  BY <1>1, <1>2, <1>3, PromiseInitInv, PromiseStepInv, PTL
     DEF PromiseSpec, OutcomeIsFinal
=============================================================================
