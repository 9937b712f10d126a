------------------------- MODULE InhibitBigFlows -------------------------
(***************************************************************************)
(* The weight module inhibit_big_flows.c: a table of nflows flows, a flow  *)
(* being a pair of addresses, with the octets counted for each and their   *)
(* total. A packet's weight is the total over the octets of its flow. A    *)
(* flow that is not in the table takes the place that currflow points at.  *)
(*                                                                         *)
(* The capture thread alone calls it; with "debug" on, a second thread     *)
(* reads the table under the module's own lock, which is held while the    *)
(* table changes. Module Weights runs it among the other weight modules.   *)
(***************************************************************************)
EXTENDS Integers, Functions

CONSTANTS nflows,        \* the 'nrecent' parameter, at least 1
          Pairs,         \* address pairs of the packets
          ZeroPair       \* 0.0.0.0 => 0.0.0.0, what memset leaves

VARIABLES recent_flows,  \* the table: pair and octets
          currflow,
          flow_octets,
          weight         \* the last result, as a fraction; DBL_EPSILON is <<0, 1>>

Flows == 0 .. nflows - 1

Epsilon == <<0, 1>>

InTable(pair) == \E i \in Flows : recent_flows[i].pair = pair

(***************************************************************************)
(* The loop stops at the first flow of this pair.                          *)
(***************************************************************************)
IsFlow(pair, i) ==
  /\ recent_flows[i].pair = pair
  /\ \A j \in Flows : j < i => recent_flows[j].pair # pair

CountFlow(pair, len) ==
  /\ \E i \in Flows : /\ IsFlow(pair, i)
                      /\ recent_flows' = [recent_flows EXCEPT ![i].octets = @ + len]
  /\ flow_octets' = flow_octets + len
  /\ UNCHANGED currflow

ReplaceFlowKeepingTotal(pair, len) ==   \* mutated form: total not reduced
  /\ recent_flows' = [recent_flows EXCEPT
                        ![currflow] = [pair |-> pair, octets |-> len]]
  /\ flow_octets' = flow_octets + len
  /\ currflow' = (currflow + 1) % nflows

ReplaceFlowPastEnd(pair, len) ==        \* mutated form: ">" in place of ">="
  /\ recent_flows' = [recent_flows EXCEPT
                        ![currflow] = [pair |-> pair, octets |-> len]]
  /\ flow_octets' = (flow_octets - recent_flows[currflow].octets) + len
  /\ currflow' = IF currflow + 1 > nflows THEN 0 ELSE currflow + 1

ReplaceFlow(pair, len) ==
  /\ recent_flows' = [recent_flows EXCEPT
                        ![currflow] = [pair |-> pair, octets |-> len]]
  /\ flow_octets' = (flow_octets - recent_flows[currflow].octets) + len
  /\ currflow' = IF currflow + 1 >= nflows THEN 0 ELSE currflow + 1

(***************************************************************************)
(* The weight of a packet of a flow with these octets.                     *)
(***************************************************************************)
Weight(octets, total) == IF octets > 0 THEN <<total, octets>> ELSE Epsilon

WeighAppending(pair, len) ==   \* mutated form: the table is not searched
  /\ ReplaceFlow(pair, len)
  /\ weight' = Weight(len, flow_octets')

Weigh(pair, len) ==
  /\ \/ InTable(pair) /\ CountFlow(pair, len)
     \/ ~InTable(pair) /\ ReplaceFlow(pair, len)
  /\ \E i \in Flows : /\ IsFlow(pair, i)'
                      /\ weight' = Weight(recent_flows'[i].octets, flow_octets')

Init ==
  /\ recent_flows = [i \in Flows |-> [pair |-> ZeroPair, octets |-> 0]]
  /\ currflow = 0
  /\ flow_octets = 0
  /\ weight = Epsilon

-----------------------------------------------------------------------------
(***************************************************************************)
(* Type correctness; currflow stays within the table, the total does not   *)
(* wrap below zero.                                                        *)
(***************************************************************************)
TypeOK ==
  /\ recent_flows \in [Flows -> [pair : Pairs \cup {ZeroPair}, octets : Nat]]
  /\ currflow \in Flows
  /\ flow_octets \in Nat
  /\ weight \in Nat \X (Nat \ {0})

(***************************************************************************)
(* flow_octets, kept up to date by additions and subtractions in two       *)
(* branches, is the sum of the table, whatever flows have come and gone.   *)
(***************************************************************************)
TotalIsSum ==
  flow_octets = SumFunction([i \in Flows |-> recent_flows[i].octets])

(***************************************************************************)
(* A flow has one entry, so that its octets are not split between two and  *)
(* its weight is not raised. (Entries never used look alike.)              *)
(***************************************************************************)
OneEntryPerFlow ==
  \A i, j \in Flows :
    recent_flows[i].pair = recent_flows[j].pair /\ i # j =>
      recent_flows[i].pair = ZeroPair

=============================================================================
