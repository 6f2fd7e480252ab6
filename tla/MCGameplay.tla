----------------------------- MODULE MCGameplay -----------------------------
\* Gameplay with two players and two tickets that back different outcomes.
EXTENDS Gameplay

CONSTANTS p1, p2, t1, t2, o1, o2

MCOwner == t1 :> p1 @@ t2 :> p2
MCLegs == t1 :> [m \in Markets |-> o1] @@ t2 :> ("WINNER" :> o2 @@ "MARGIN" :> o1)
=============================================================================
