------------------------------ MODULE Vectors ------------------------------
(***************************************************************************)
(* What the engine does with a std::vector and TLA+'s sequences have no     *)
(* operator for.  The loops are recursive functions over the positions, so  *)
(* that what they compute can be proved by induction on the length.         *)
(***************************************************************************)
EXTENDS Integers, Sequences

\* The vector a loop leaves behind.  It equals s; TLC builds a concatenation at
\* once and a function only when it is applied.
Vector(s) == s \o <<>>

\* The sum of the elements, in the order of the vector.
SumSeq(s) ==
  LET upTo[n \in 0..Len(s)] == IF n = 0 THEN 0 ELSE upTo[n - 1] + s[n]
  IN  upTo[Len(s)]

\* erase(remove_if(...)): what is left of s without the positions in gone.
Erase(s, gone) ==
  LET upTo[n \in 0..Len(s)] ==
        IF n = 0 THEN <<>>
        ELSE IF n \in gone THEN upTo[n - 1] ELSE Append(upTo[n - 1], s[n])
  IN  upTo[Len(s)]

=============================================================================
