--------------------------------- MODULE Sums ---------------------------------
(* The sum of natural numbers over a finite set, as the number of units    *)
(* that its elements have: x has <<x, 1>>, ..., <<x, f[x]>>.  Stated so,   *)
(* facts about sums follow from facts about finite sets.                   *)
EXTENDS Integers, FiniteSets

Units(f, S)   == UNION {{x} \X (1..f[x]) : x \in S}
SumOver(f, S) == Cardinality(Units(f, S))
=============================================================================
