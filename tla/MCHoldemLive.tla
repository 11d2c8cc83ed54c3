---------------------------- MODULE MCHoldemLive ----------------------------
(***************************************************************************)
(* The engine with the fairness its owner provides.  The engine only        *)
(* reacts, so hands go on if whoever is to act is eventually heard.  Turns   *)
(* are counted (modulo 2) by a variable of its own, which makes "a turn is   *)
(* taken" a formula whose ENABLED is a plain condition on the table: when    *)
(* the turn is live, folding is always a legal answer.                       *)
(***************************************************************************)
EXTENDS MCHoldem

VARIABLE turns

LiveInit == Init /\ turns = 0

LiveNext ==
  \/ TakeTurn /\ turns' = 1 - turns
  \/ TableCall /\ UNCHANGED turns

Answer == InHand /\ TurnIsLive /\ turns' = 1 - turns

FairSpec == LiveInit /\ [][LiveNext]_<<game, turns>> /\ WF_turns(Answer)

=============================================================================
