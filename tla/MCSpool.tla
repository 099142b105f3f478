------------------------------ MODULE MCSpool ------------------------------
(* Spool for TLC: two threads in the first process, which are               *)
(* interchangeable, and one in the second.                                  *)
EXTENDS Spool, TLC

CONSTANTS t1, t2, t3, p1, p2

TwoAndOne == (t1 :> p1) @@ (t2 :> p1) @@ (t3 :> p2)
GrowingSizes == [i \in Ids |-> i]
Symmetry == Permutations({t1, t2})
=============================================================================
