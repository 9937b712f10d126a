------------------------------- MODULE Weights -------------------------------
(***************************************************************************)
(* The weight modules together, as on_packet of damper.c asks them: every  *)
(* enabled one, in the order of modules.conf.c, until one returns a        *)
(* negative weight, which drops the packet. Module Shaper takes any weight *)
(* of a module as possible; here they are those of the modules, and the    *)
(* state that each keeps from packet to packet decides them.               *)
(*                                                                         *)
(* The modules: inhibit_big_flows and entropy have modules of their own;   *)
(* random divides by rand() + 1, an int; bymark returns the number that is *)
(* configured for the packet's mark, or DBL_EPSILON. Only the capture      *)
(* thread weighs, so that a packet is weighed in one step.                 *)
(***************************************************************************)
EXTENDS Integers, FiniteSets

CONSTANTS Packets,        \* packets, by what the modules look at
          nflows,         \* 'nrecent' of both tables
          Pairs, Ports,   \* addresses and ports of the packets
          ZeroPair, ZeroPort,
          Symbols,        \* values of an octet
          U32,            \* 2^32
          HeaderLen,      \* octets before the payload, as entropy takes them
          Marks,          \* the packets' netfilter marks
          UnwantedMarks,  \* marks with a negative weight in damper.conf
          MaxPackets      \* bound on the packets weighed

(***************************************************************************)
(* A packet has its headers and a payload with these symbols, or ends      *)
(* "short" octets before a payload would begin.                            *)
(***************************************************************************)
ASSUME WeightsAssumption ==
  /\ nflows \in Nat \ {0}         \* otherwise postconf disables the module
  /\ U32 \in Nat \ {0}
  /\ IsFiniteSet(Symbols)
  /\ HeaderLen \in Nat
  /\ UnwantedMarks \subseteq Marks
  /\ MaxPackets \in Nat
  /\ Packets \subseteq [pair : Pairs, port : Ports, mark : Marks,
                        short : 0 .. HeaderLen, symbols : [Symbols -> Nat]]
  /\ \A p \in Packets : p.short = 0 \/ \A s \in Symbols : p.symbols[s] = 0

VARIABLES enabled,            \* modules[i].enabled
          sport,              \* entropy: is a port of damper.conf used for all?
          inhibit_flows, inhibit_currflow, flow_octets, inhibit_weight,
          entropy_flows, entropy_currflow, entropy_sign, entropy_real,
          outcome,            \* what on_packet does with the last packet
          last,               \* ghost: that packet's flow and mark, and if
                              \* random's division overflowed
          packets             \* packets weighed so far

inhibitVars == <<inhibit_flows, inhibit_currflow, flow_octets, inhibit_weight>>
entropyVars == <<entropy_flows, entropy_currflow, entropy_sign, entropy_real>>
vars == <<enabled, sport, inhibitVars, entropyVars, outcome, last, packets>>

NoPacket == [key |-> <<>>, mark |-> <<>>, overflow |-> FALSE]

-----------------------------------------------------------------------------
Keys == [pair : Pairs, port : Ports \cup {ZeroPort}]

Inhibit == INSTANCE InhibitBigFlows WITH
             recent_flows <- inhibit_flows, currflow <- inhibit_currflow,
             weight <- inhibit_weight

Entropy == INSTANCE Entropy WITH
             recent_flows <- entropy_flows, currflow <- entropy_currflow,
             sign <- entropy_sign, real <- entropy_real,
             ZeroKey <- [pair |-> ZeroPair, port |-> ZeroPort]

PacketLen(p) == (HeaderLen - p.short) + Entropy!Octets(p.symbols)

PayloadLenAfterOptions(p) ==      \* mutated form: TCP options are subtracted
  Entropy!Octets(p.symbols) - (p.short + 1)

PayloadLen(p) == Entropy!Octets(p.symbols) - p.short

(***************************************************************************)
(* A port given in damper.conf overrides those of the packets.             *)
(***************************************************************************)
Key(p) == [pair |-> p.pair, port |-> IF sport THEN ZeroPort ELSE p.port]

Unwanted(mark) == "bymark" \in enabled /\ mark \in UnwantedMarks

(***************************************************************************)
(* Does rand() + 1 overflow? It may, if rand() is RAND_MAX; the weight is  *)
(* then negative if the sum wraps, and an ordinary one otherwise.          *)
(***************************************************************************)
RandomOverflows == IF "random" \in enabled THEN BOOLEAN ELSE {FALSE}

-----------------------------------------------------------------------------
(***************************************************************************)
(* The loop over the modules, which a negative weight ends. The sum that a *)
(* packet is queued with is not modelled here.                             *)
(***************************************************************************)
AskInhibit(p) ==
  IF "inhibit_big_flows" \in enabled
  THEN Inhibit!Weigh(p.pair, PacketLen(p))
  ELSE UNCHANGED inhibitVars

AskEntropy(p) ==
  IF "entropy" \in enabled
  THEN Entropy!Weigh(Key(p), PayloadLen(p), p.symbols)
  ELSE UNCHANGED entropyVars

Rejected(p, overflow) == overflow \/ Unwanted(p.mark)   \* before entropy

WeighPacket(p) ==
  \E overflow \in RandomOverflows :
    /\ UNCHANGED <<enabled, sport>>
    /\ AskInhibit(p)
    /\ \/ /\ Rejected(p, overflow)
          /\ outcome' = "drop"
          /\ UNCHANGED entropyVars
       \/ /\ ~Rejected(p, overflow)
          /\ AskEntropy(p)
          /\ outcome' = IF "entropy" \in enabled /\ entropy_sign' < 0
                        THEN "drop" ELSE "queue"
    /\ last' = [key |-> Key(p), mark |-> p.mark, overflow |-> overflow]
    /\ packets' = packets + 1

Init ==
  /\ enabled \in SUBSET {"inhibit_big_flows", "random", "bymark", "entropy"}
  /\ sport \in BOOLEAN
  /\ Inhibit!Init /\ Entropy!Init
  /\ outcome = "queue" /\ last = NoPacket
  /\ packets = 0

Next == packets < MaxPackets /\ \E p \in Packets : WeighPacket(p)

Spec == Init /\ [][Next]_vars

-----------------------------------------------------------------------------
(***************************************************************************)
(* The types of both tables.                                               *)
(***************************************************************************)
TypeOK ==
  /\ Inhibit!TypeOK
  /\ Entropy!TypeOK
  /\ outcome \in {"queue", "drop"}
  /\ packets \in 0 .. MaxPackets

(***************************************************************************)
(* flow_octets of inhibit_big_flows, kept up to date in two branches, is   *)
(* the sum of its table.                                                   *)
(***************************************************************************)
TotalIsSum == Inhibit!TotalIsSum

(***************************************************************************)
(* A pair of addresses has one entry in inhibit_big_flows.                 *)
(***************************************************************************)
OneEntryPerFlow == Inhibit!OneEntryPerFlow

(***************************************************************************)
(* The two counts of a flow's octets in entropy agree.                     *)
(***************************************************************************)
SymbolsMatchLength == Entropy!SymbolsMatchLength

(***************************************************************************)
(* A packet is dropped before it is queued only if its mark is configured  *)
(* so, if random's sum has overflowed, or if its flow has wrapped around a *)
(* 32-bit counter or contained a packet too short for its headers: module  *)
(* entropy has otherwise nothing to object to.                             *)
(***************************************************************************)
Wrapped(key) == \E i \in Entropy!Flows :
                  /\ Entropy!IsFlow(key, i)
                  /\ entropy_real[i].short \/ entropy_real[i].octets >= U32

DropsAreExplained ==
  outcome = "drop" => Unwanted(last.mark) \/ last.overflow \/ Wrapped(last.key)

(***************************************************************************)
(* README.md: "Shannon entropy calculated for each flow and used as        *)
(* weight. ... The more random is traffic ..., the less weight is set to   *)
(* packet". Shannon's entropy is not negative, and a lighter packet is     *)
(* still a packet to be queued: entropy drops nothing.                     *)
(***************************************************************************)
EntropyDropsNothing == outcome = "drop" => Unwanted(last.mark) \/ last.overflow

=============================================================================
