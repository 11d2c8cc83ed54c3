------------------------------ MODULE MCHoldem ------------------------------
(***************************************************************************)
(* Small tables for TLC, and what is sent of them.                          *)
(***************************************************************************)
EXTENDS TableWire

SymPlayers == Permutations(Players)

NormalBlinds == {<<1, 2>>}

\* lastAction and lastHandResult are written for the clients and read by no
\* handler: two tables that differ only there have the same behaviours.  The
\* properties about them are action properties, which TLC checks on every step,
\* also on one that leads to a table it has seen.  hasPendingHandResult stays:
\* where it is FALSE a step that sets it is known to make a new result.
OnTheTable == [game EXCEPT !.lastAction = NoAction, !.lastHandResult = NoResult]

=============================================================================
