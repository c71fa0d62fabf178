-------------------------------- MODULE Sums --------------------------------
(***************************************************************************)
(* Sums over finite sets, as the number of units: what has size[x] units   *)
(* contributes the pairs <<x, 1>> to <<x, size[x]>>.  As cardinalities     *)
(* they are within the reach of the library's theorems.                    *)
(***************************************************************************)
EXTENDS Integers, FiniteSets

Units(size, xs) == UNION {{x} \X (1 .. size[x]) : x \in xs}

Sum(size, xs) == Cardinality(Units(size, xs))

=============================================================================
