---------------------------- MODULE TableLedger ----------------------------
(***************************************************************************)
(* What a cash table promises about money, whatever the game played on it.  *)
(* Every player owns a stake: the chips in front of it, and during a hand    *)
(* also those it has bet so far.  While a player plays a hand its stake is   *)
(* frozen; a hand that ends moves stakes among those who played it, and the  *)
(* table never pays out more than they had.                                  *)
(***************************************************************************)
EXTENDS Integers, FiniteSets, Functions

CONSTANT Players

VARIABLES
  stake,      \* chips of each player, 0 for one that is not seated
  playing     \* the players of the hand in progress

ledger == <<stake, playing>>

Total(S, stakes) == SumFunctionOnSet(stakes, S)

Init == stake = [p \in Players |-> 0] /\ playing = {}

Deposit(p) ==
  /\ p \notin playing
  /\ stake'[p] > stake[p]
  /\ stake' = [stake EXCEPT ![p] = stake'[p]]
  /\ UNCHANGED playing

Withdraw(S) ==
  /\ S \cap playing = {}
  /\ stake' = [p \in Players |-> IF p \in S THEN 0 ELSE stake[p]]
  /\ UNCHANGED playing

Deal ==
  /\ playing = {}
  /\ playing' \in SUBSET Players
  /\ Cardinality(playing') >= 2
  /\ UNCHANGED stake

Settle ==
  /\ playing # {}
  /\ playing' = {}
  /\ stake' \in [Players -> Nat]
  /\ \A p \in Players \ playing : stake'[p] = stake[p]
  /\ Total(playing, stake') <= Total(playing, stake)

Next ==
  \/ Deal
  \/ Settle
  \/ \E p \in Players : Deposit(p)
  \/ \E S \in SUBSET Players : Withdraw(S)

Spec == Init /\ [][Next]_ledger

=============================================================================
