------------------------------ MODULE PrioArray ------------------------------
(***************************************************************************)
(* The priority array of damper.c: u->prioarray holds one priority per     *)
(* packet buffer, the value DBL_MIN marks the buffer as empty, and both    *)
(* threads find the slot they want by a linear scan of the whole array.    *)
(*                                                                         *)
(* Priorities are doubles in the code. Only their order matters here, and  *)
(* the fact that 0.0 < DBL_MIN < DBL_EPSILON, so they are integers: 0 is   *)
(* 0.0, 1 is DBL_MIN, 2 is DBL_EPSILON.                                    *)
(*                                                                         *)
(* This module says which slot a scan stops at; module PrioScan runs the   *)
(* loops as they are written and checks that they stop at that slot.       *)
(***************************************************************************)
EXTENDS Integers

CONSTANT QLen        \* u->qlen, the 'packets' line of damper.conf

ASSUME QLenAssumption == QLen \in Nat

Slots == 0 .. QLen - 1

DblMin     == 1
DblEpsilon == 2

Occupied(prio) == {i \in Slots : prio[i] # DblMin}

(***************************************************************************)
(* The sender's scan, "max < prioarray[i]" from max = DBL_MIN upwards,     *)
(* stops at the first of the highest priorities above DBL_MIN.             *)
(***************************************************************************)
IsTopAboveEpsilon(prio, i) ==  \* mutated form: max starts at DBL_EPSILON
  /\ prio[i] > DblEpsilon
  /\ \A j \in Slots : prio[j] <= prio[i] /\ (j < i => prio[j] < prio[i])

IsTopFirstFound(prio, i) ==    \* mutated form: any buffer that holds data
  /\ prio[i] > DblMin
  /\ \A j \in Slots : j < i => prio[j] <= DblMin

IsTop(prio, i) ==
  /\ prio[i] > DblMin
  /\ \A j \in Slots : prio[j] <= prio[i] /\ (j < i => prio[j] < prio[i])

NothingToSend(prio) == \A i \in Slots : ~IsTop(prio, i)

(***************************************************************************)
(* The scan of add_to_queue, "min > prioarray[i]" from min = DBL_MAX       *)
(* downwards, stops at the first of the lowest priorities. An empty slot,  *)
(* if there is one, is lower than every packet.                            *)
(***************************************************************************)
IsBottom(prio, i) ==
  \A j \in Slots : prio[i] <= prio[j] /\ (j < i => prio[i] < prio[j])

(***************************************************************************)
(* The test "min < prio" of add_to_queue.                                  *)
(***************************************************************************)
DisplacesAnyway(prio, i, w) == TRUE     \* mutated form: the test is missing

Displaces(prio, i, w) == prio[i] < w

=============================================================================
