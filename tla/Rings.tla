-------------------------------- MODULE Rings --------------------------------
(***************************************************************************)
(* Arithmetic on descriptor rings.  inject_data.py keeps 4-bit indices and  *)
(* advances them by (i + 1) % 16; the MAC advances its own pointer and      *)
(* returns to the first descriptor after the one whose WR bit is set.       *)
(* Everything is written with comparisons and sums (no %), so that the      *)
(* statements about rings of any size stay within linear arithmetic.        *)
(***************************************************************************)
EXTENDS Integers

CONSTANT NBD      \* descriptors in each ring (16 in inject_data.py)

ASSUME NBDAssumption == NBD \in Nat /\ NBD >= 2

Ring == 0 .. (NBD - 1)

\* (i + 1) % NBD for an index of the ring.
Succ(i) == IF i = NBD - 1 THEN 0 ELSE i + 1

\* How many steps of Succ lead from a to b: (b - a) % NBD.
Dist(a, b) == IF a <= b THEN b - a ELSE b - a + NBD

\* i is one of a, Succ(a), ... up to but not including b (empty when a = b).
InRing(i, a, b) == Dist(a, i) < Dist(a, b)

\* The index n steps after a, for n < NBD.
Plus(a, n) == IF a + n < NBD THEN a + n ELSE a + n - NBD
=============================================================================
