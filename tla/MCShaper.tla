------------------------------- MODULE MCShaper -------------------------------
(***************************************************************************)
(* Model checking of module Shaper: a few packets of different sizes.      *)
(***************************************************************************)
EXTENDS Shaper

CONSTANTS p1, p2, p3

(***************************************************************************)
(* Sizes 1, 2 and 3. With U32 = 4 the octet counters wrap.                 *)
(***************************************************************************)
MCSize == [p \in Packets |-> IF p = p1 THEN 1 ELSE IF p = p2 THEN 2 ELSE 3]

MCModWeights == {-1, 0, 1}

=============================================================================
