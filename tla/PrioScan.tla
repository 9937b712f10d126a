------------------------------- MODULE PrioScan -------------------------------
(***************************************************************************)
(* The two scans of damper.c as loops, and the array they work on driven   *)
(* through every sequence of add_to_queue and send calls within a bound.   *)
(* The packets themselves are left out: the array of priorities decides.   *)
(***************************************************************************)
EXTENDS PrioArray, FiniteSets

CONSTANTS Weights,    \* priorities offered to add_to_queue
          DblMax,      \* DBL_MAX
          MaxOffers    \* bound on the packets counted since the last send

ASSUME WeightsAssumption ==
  /\ Weights \subseteq Int
  /\ DblMax \in Int /\ DblMin < DblMax
  /\ \A w \in Weights : DblMin < w /\ w < DblMax

VARIABLES prioarray,   \* u->prioarray
          idx,         \* the sender's idx, which survives from scan to scan
          offered      \* ghost: offered[w] counts the packets of weight w or
                       \* more that the array held after the last send or
                       \* that were offered since

vars == <<prioarray, idx, offered>>

(***************************************************************************)
(* sender_thread's loop over the array; n is the number of rounds done.    *)
(***************************************************************************)
SenderScanToLast(prio, from) ==   \* mutated form: "<=" in place of "<"
  LET loop[n \in 0 .. QLen] ==
        IF n = 0 THEN [max |-> DblMin, idx |-> from]
        ELSE IF loop[n-1].max <= prio[n-1]
             THEN [max |-> prio[n-1], idx |-> n-1]
             ELSE loop[n-1]
  IN  loop[QLen]

SenderScan(prio, from) ==
  LET loop[n \in 0 .. QLen] ==
        IF n = 0 THEN [max |-> DblMin, idx |-> from]
        ELSE IF loop[n-1].max < prio[n-1]
             THEN [max |-> prio[n-1], idx |-> n-1]
             ELSE loop[n-1]
  IN  loop[QLen]

(***************************************************************************)
(* add_to_queue's loop over the array.                                     *)
(***************************************************************************)
AddScan(prio) ==
  LET loop[n \in 0 .. QLen] ==
        IF n = 0 THEN [min |-> DblMax, idx |-> 0]
        ELSE IF loop[n-1].min > prio[n-1]
             THEN [min |-> prio[n-1], idx |-> n-1]
             ELSE loop[n-1]
  IN  loop[QLen]

HowMany(prio, w) == Cardinality({i \in Slots : prio[i] >= w})

-----------------------------------------------------------------------------
Init ==
  /\ prioarray = [i \in Slots |-> DblMin]
  /\ idx = 0
  /\ offered = [w \in Weights |-> 0]

(***************************************************************************)
(* add_to_queue(..., prio = w).                                            *)
(***************************************************************************)
AddAlways(w) ==                  \* mutated form: "min < prio" is missing
  LET scan == AddScan(prioarray)
  IN  /\ prioarray' = [prioarray EXCEPT ![scan.idx] = w]
      /\ offered' = [v \in Weights |-> offered[v] + IF v <= w THEN 1 ELSE 0]
      /\ UNCHANGED idx

Add(w) ==
  LET scan == AddScan(prioarray)
  IN  /\ prioarray' = IF scan.min < w
                      THEN [prioarray EXCEPT ![scan.idx] = w]
                      ELSE prioarray
      /\ offered' = [v \in Weights |-> offered[v] + IF v <= w THEN 1 ELSE 0]
      /\ UNCHANGED idx

(***************************************************************************)
(* One round of sender_thread that finds a packet.                         *)
(***************************************************************************)
Send ==
  LET scan == SenderScan(prioarray, idx)
  IN  /\ scan.max # DblMin
      /\ prioarray' = [prioarray EXCEPT ![scan.idx] = DblMin]
      /\ idx' = scan.idx
      /\ offered' = [v \in Weights |-> HowMany(prioarray', v)]

Next ==
  \/ \E w \in Weights : (\A v \in Weights : offered[v] < MaxOffers) /\ Add(w)
  \/ Send

Spec == Init /\ [][Next]_vars

-----------------------------------------------------------------------------
(***************************************************************************)
(* The loops stop where PrioArray says: the sender's loop finds a packet   *)
(* exactly when one is there and then the first of the heaviest, whatever  *)
(* idx was left by the round before; add_to_queue's loop finds the first   *)
(* of the lightest.                                                        *)
(***************************************************************************)
ScansStopWhereSpecified ==
  LET snd == SenderScan(prioarray, idx)
      add == AddScan(prioarray)
  IN  /\ (snd.max = DblMin) <=> NothingToSend(prioarray)
      /\ snd.max # DblMin => IsTop(prioarray, snd.idx)
                             /\ snd.max = prioarray[snd.idx]
      /\ QLen > 0 => /\ IsBottom(prioarray, add.idx)
                     /\ add.min = prioarray[add.idx]

(***************************************************************************)
(* A burst between two sends leaves the heaviest packets: for every        *)
(* threshold the array holds as many packets of at least that weight as    *)
(* were there or offered, up to its length.                                *)
(***************************************************************************)
KeepsTheHeaviest ==
  \A w \in Weights :
     HowMany(prioarray, w) = IF offered[w] < QLen THEN offered[w] ELSE QLen

=============================================================================
