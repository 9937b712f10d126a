---------------------------- MODULE WeightsProofs ----------------------------
(***************************************************************************)
(* The weight modules, for every size of their tables, every width of the  *)
(* counters, every traffic and any set of enabled modules.                 *)
(***************************************************************************)
EXTENDS Weights, NumberLemmas

-----------------------------------------------------------------------------
(***************************************************************************)
(* The sums and products of the two modules are those of module            *)
(* NumberLemmas.                                                           *)
(***************************************************************************)
LEMMA SumOfTable ==
  ASSUME NEW f
  PROVE  Inhibit!SumFunction(f) = SumFunctionOnSet(f, DOMAIN f)
BY DEF Inhibit!SumFunction, Inhibit!SumFunctionOnSet,
       Inhibit!FoldFunctionOnSet, Inhibit!MapThenFoldSet,
       SumFunctionOnSet, FoldFunctionOnSet, MapThenFoldSet

(***************************************************************************)
(* The octets of a payload are the sum of its symbols' counts.             *)
(***************************************************************************)
LEMMA SumOfSymbols ==
  ASSUME NEW f
  PROVE  Entropy!Octets(f) = SumFunctionOnSet(f, DOMAIN f)
BY DEF Entropy!Octets, Entropy!SumFunction, Entropy!SumFunctionOnSet,
       Entropy!FoldFunctionOnSet, Entropy!MapThenFoldSet,
       SumFunctionOnSet, FoldFunctionOnSet, MapThenFoldSet

(***************************************************************************)
(* A product over the counted octets, as entropy_calc's sign takes it.     *)
(***************************************************************************)
LEMMA ProductOfFactors ==
  ASSUME NEW octets, NEW factor
  PROVE  Entropy!ProductOver(octets, factor) =
           Product([o \in octets |-> factor[o[1]]], octets)
<1> DEFINE f == [o \in octets |-> factor[o[1]]]
<1>1. Entropy!ProductOver(octets, factor) =
        Entropy!FoldFunctionOnSet(Entropy!Times, 1, f, DOMAIN f)
  BY DEF Entropy!ProductOver, Entropy!FoldFunction
<1>2. DOMAIN f = octets
  OBVIOUS
<1> QED
  BY <1>1, <1>2
     DEF Entropy!FoldFunctionOnSet, Entropy!MapThenFoldSet, Entropy!Times,
         Product, FoldFunctionOnSet, MapThenFoldSet, Times

-----------------------------------------------------------------------------
(***************************************************************************)
(* inhibit_big_flows. That flow_octets does not go below zero rests on its *)
(* being the sum of the table, and that on the two branches' arithmetic.   *)
(***************************************************************************)
InhibitInv == Inhibit!TypeOK /\ TotalIsSum /\ OneEntryPerFlow

TableOctets == [i \in Inhibit!Flows |-> inhibit_flows[i].octets]

(***************************************************************************)
(* TotalIsSum in the terms of module NumberLemmas, before a step and after *)
(* it.                                                                     *)
(***************************************************************************)
LEMMA TotalIsSumOfOctets ==
  TotalIsSum <=> flow_octets = SumFunctionOnSet(TableOctets, Inhibit!Flows)
BY SumOfTable DEF TotalIsSum, Inhibit!TotalIsSum, TableOctets

(***************************************************************************)
(* The same after a step.                                                  *)
(***************************************************************************)
LEMMA TotalIsSumOfOctetsNext ==
  TotalIsSum' <=> flow_octets' = SumFunctionOnSet(TableOctets', Inhibit!Flows)
BY SumOfTable DEF TotalIsSum, Inhibit!TotalIsSum, TableOctets

(***************************************************************************)
(* The table of flows is finite and never empty.                           *)
(***************************************************************************)
LEMMA FlowsAreFinite ==
  IsFiniteSet(Inhibit!Flows) /\ 0 \in Inhibit!Flows
BY WeightsAssumption, FS_Interval DEF Inhibit!Flows

(***************************************************************************)
(* One entry's octets change from n to m, and flow_octets by as much.      *)
(***************************************************************************)
LEMMA TotalFollows ==
  ASSUME InhibitInv, NEW i \in Inhibit!Flows, NEW entry,
         inhibit_flows' = [inhibit_flows EXCEPT ![i] = entry],
         entry \in [pair : Pairs \cup {ZeroPair}, octets : Nat],
         flow_octets' = (flow_octets - inhibit_flows[i].octets) + entry.octets
  PROVE  TotalIsSum' /\ flow_octets' \in Nat
<1>1. \A j \in Inhibit!Flows : inhibit_flows[j].octets \in Nat
  BY DEF InhibitInv, Inhibit!TypeOK
<1>2. /\ inhibit_flows'[i] = entry
      /\ \A j \in Inhibit!Flows \ {i} : inhibit_flows'[j] = inhibit_flows[j]
  BY DEF InhibitInv, Inhibit!TypeOK
<1> DEFINE f == TableOctets
           g == TableOctets'
<1>3. /\ \A j \in Inhibit!Flows : f[j] \in Nat /\ g[j] \in Nat
      /\ \A j \in Inhibit!Flows \ {i} : g[j] = f[j]
      /\ f[i] = inhibit_flows[i].octets
      /\ g[i] = entry.octets
  BY <1>1, <1>2 DEF TableOctets
<1>4. flow_octets = SumFunctionOnSet(f, Inhibit!Flows)
  BY TotalIsSumOfOctets DEF InhibitInv
<1> HIDE DEF f, g
<1>5. SumFunctionOnSet(g, Inhibit!Flows) =
        (SumFunctionOnSet(f, Inhibit!Flows) - f[i]) + g[i]
  BY <1>3, FlowsAreFinite, SumChange
<1>6. SumFunctionOnSet(g, Inhibit!Flows) \in Nat
  BY <1>3, FlowsAreFinite, SumIsNat
<1> QED
  BY <1>3, <1>4, <1>5, <1>6, TotalIsSumOfOctetsNext DEF g

(***************************************************************************)
(* The weight that is returned: a natural number over one that is not 0.   *)
(***************************************************************************)
LEMMA InhibitResult ==
  ASSUME NEW pair, NEW len, Inhibit!Weigh(pair, len), flow_octets' \in Nat,
         inhibit_flows' \in [Inhibit!Flows -> [pair : Pairs \cup {ZeroPair},
                                               octets : Nat]]
  PROVE  inhibit_weight' \in Nat \X (Nat \ {0})
BY DEF Inhibit!Weigh, Inhibit!Weight, Inhibit!Epsilon

(***************************************************************************)
(* inhibit_big_flows_weight, for a packet of a known flow and of a new     *)
(* one.                                                                    *)
(***************************************************************************)
LEMMA InhibitWeighs ==
  ASSUME InhibitInv, NEW pair \in Pairs, NEW len \in Nat,
         Inhibit!Weigh(pair, len)
  PROVE  InhibitInv'
<1>1. /\ inhibit_flows \in [Inhibit!Flows -> [pair : Pairs \cup {ZeroPair},
                                              octets : Nat]]
      /\ inhibit_currflow \in Inhibit!Flows /\ flow_octets \in Nat
  BY DEF InhibitInv, Inhibit!TypeOK
<1>2. CASE Inhibit!InTable(pair) /\ Inhibit!CountFlow(pair, len)
  <2>1. PICK i \in Inhibit!Flows :
          inhibit_flows' = [inhibit_flows EXCEPT ![i].octets = @ + len]
    BY <1>2 DEF Inhibit!CountFlow
  <2> DEFINE entry == [inhibit_flows[i] EXCEPT !.octets = @ + len]
  <2>2. /\ entry \in [pair : Pairs \cup {ZeroPair}, octets : Nat]
        /\ entry.octets = inhibit_flows[i].octets + len
        /\ entry.pair = inhibit_flows[i].pair
        /\ inhibit_flows' = [inhibit_flows EXCEPT ![i] = entry]
    BY <1>1, <2>1
  <2>3. flow_octets' = (flow_octets - inhibit_flows[i].octets) + entry.octets
    BY <1>1, <1>2, <2>2 DEF Inhibit!CountFlow
  <2> HIDE DEF entry
  <2>4. TotalIsSum' /\ flow_octets' \in Nat
    BY <2>2, <2>3, TotalFollows
  <2>5. OneEntryPerFlow'
    <3>1. \A j \in Inhibit!Flows : inhibit_flows'[j].pair = inhibit_flows[j].pair
      BY <1>1, <2>2
    <3> QED
      BY <3>1 DEF InhibitInv, OneEntryPerFlow, Inhibit!OneEntryPerFlow
  <2>6. inhibit_flows' \in [Inhibit!Flows -> [pair : Pairs \cup {ZeroPair},
                                              octets : Nat]]
    BY <1>1, <2>2
  <2>7. inhibit_currflow' \in Inhibit!Flows
    BY <1>1, <1>2 DEF Inhibit!CountFlow
  <2> QED
    BY <2>4, <2>5, <2>6, <2>7, InhibitResult DEF InhibitInv, Inhibit!TypeOK
<1>3. CASE ~Inhibit!InTable(pair) /\ Inhibit!ReplaceFlow(pair, len)
  <2> DEFINE entry == [pair |-> pair, octets |-> len]
             i == inhibit_currflow
  <2>1. /\ entry \in [pair : Pairs \cup {ZeroPair}, octets : Nat]
        /\ entry.octets = len /\ entry.pair = pair
        /\ inhibit_flows' = [inhibit_flows EXCEPT ![i] = entry]
        /\ flow_octets' = (flow_octets - inhibit_flows[i].octets) + entry.octets
    BY <1>3 DEF Inhibit!ReplaceFlow
  <2> HIDE DEF entry
  <2>2. TotalIsSum' /\ flow_octets' \in Nat
    BY <1>1, <2>1, TotalFollows
  <2>3. OneEntryPerFlow'
    <3>1. \A j \in Inhibit!Flows : inhibit_flows[j].pair # pair
      BY <1>3 DEF Inhibit!InTable
    <3>2. /\ inhibit_flows'[i] = entry
          /\ \A j \in Inhibit!Flows \ {i} : inhibit_flows'[j] = inhibit_flows[j]
      BY <1>1, <2>1
    <3> QED
      BY <2>1, <3>1, <3>2 DEF InhibitInv, OneEntryPerFlow, Inhibit!OneEntryPerFlow
  <2>4. inhibit_flows' \in [Inhibit!Flows -> [pair : Pairs \cup {ZeroPair},
                                              octets : Nat]]
    BY <1>1, <2>1
  <2>5. inhibit_currflow' \in Inhibit!Flows
    BY <1>1, <1>3, WeightsAssumption DEF Inhibit!ReplaceFlow, Inhibit!Flows
  <2> QED
    BY <2>2, <2>3, <2>4, <2>5, InhibitResult DEF InhibitInv, Inhibit!TypeOK
<1> QED
  BY <1>2, <1>3 DEF Inhibit!Weigh

-----------------------------------------------------------------------------
(***************************************************************************)
(* entropy. While the counts of a flow have not wrapped, stream_len is the *)
(* sum of map, and the entropy calculated from them is not negative.       *)
(***************************************************************************)
Count32 == 0 .. U32 - 1

EntropyFlow == [key : Keys \cup {[pair |-> ZeroPair, port |-> ZeroPort]},
                stream_len : Count32,
                map : [Symbols -> Count32]]

RealOK == entropy_real \in [Entropy!Flows -> [octets : Nat, short : BOOLEAN]]

EntropyInv == Entropy!TypeOK /\ RealOK /\ SymbolsMatchLength

(***************************************************************************)
(* A payload has at least as many octets as it has of any one value.       *)
(***************************************************************************)
LEMMA OctetsOf ==
  ASSUME NEW map \in [Symbols -> Nat]
  PROVE  /\ Entropy!Octets(map) = SumFunctionOnSet(map, Symbols)
         /\ Entropy!Octets(map) \in Nat
         /\ \A s \in Symbols : map[s] <= Entropy!Octets(map)
<1>1. Entropy!Octets(map) = SumFunctionOnSet(map, Symbols)
  BY SumOfSymbols
<1>2. \A s \in Symbols : map[s] \in Nat
  OBVIOUS
<1> QED
  BY <1>1, <1>2, WeightsAssumption, SumIsNat, SumPart

(***************************************************************************)
(* Every factor stream_len is at least the factor map[s] beside it.        *)
(***************************************************************************)
LEMMA EntropyNotNegative ==
  ASSUME NEW flow \in EntropyFlow,
         flow.stream_len = Entropy!Octets(flow.map)
  PROVE  Entropy!Sign(flow) \in {0, 1}
<1> DEFINE octets == Entropy!Seen(flow.map)
           lens == [s \in Symbols |-> flow.stream_len]
           f == [o \in octets |-> flow.map[o[1]]]
           g == [o \in octets |-> lens[o[1]]]
<1>1. flow.map \in [Symbols -> Nat] /\ flow.stream_len \in Nat
  BY DEF EntropyFlow, Count32
<1>2. IsFiniteSet(octets)
  <2>1. IsFiniteSet(Symbols \X (1 .. U32 - 1))
    <3>1. IsFiniteSet(1 .. U32 - 1) /\ IsFiniteSet(Symbols)
      BY WeightsAssumption, FS_Interval
    <3> QED
      BY <3>1, FS_Product
  <2> QED
    BY <2>1, FS_Subset DEF Entropy!Seen
<1>3. \A o \in octets : f[o] \in Nat /\ g[o] \in Nat /\ f[o] <= g[o]
  <2>1. \A o \in octets : o[1] \in Symbols
    BY DEF Entropy!Seen
  <2>2. \A s \in Symbols : flow.map[s] <= flow.stream_len
    BY <1>1, OctetsOf
  <2> QED
    BY <1>1, <2>1, <2>2
<1>4. /\ Entropy!ProductOver(octets, flow.map) = Product(f, octets)
      /\ Entropy!ProductOver(octets, lens) = Product(g, octets)
  BY ProductOfFactors
<1> HIDE DEF f, g
<1>5. /\ Product(f, octets) \in Nat
      /\ Product(g, octets) \in Nat
      /\ Product(f, octets) <= Product(g, octets)
  BY <1>2, <1>3, ProductsOrdered
<1> QED
  BY <1>4, <1>5 DEF Entropy!Sign

(***************************************************************************)
(* Counting a payload's symbols counts its octets, if no count wraps.      *)
(***************************************************************************)
LEMMA SymbolsAdd ==
  ASSUME NEW map \in [Symbols -> Count32], NEW symbols \in [Symbols -> Nat]
  PROVE  /\ Entropy!AddSymbols(map, symbols) \in [Symbols -> Count32]
         /\ Entropy!Octets(map) + Entropy!Octets(symbols) < U32 =>
              Entropy!Octets(Entropy!AddSymbols(map, symbols)) =
                Entropy!Octets(map) + Entropy!Octets(symbols)
<1> DEFINE sum == Entropy!AddSymbols(map, symbols)
<1>1. U32 \in Nat \ {0} /\ map \in [Symbols -> Nat]
  BY WeightsAssumption DEF Count32
<1>2. ASSUME NEW s \in Symbols
      PROVE  (map[s] + symbols[s]) % U32 \in Count32
  BY <1>1 DEF Count32
<1>3. sum \in [Symbols -> Count32]
  BY <1>2 DEF Entropy!AddSymbols
<1>4. ASSUME Entropy!Octets(map) + Entropy!Octets(symbols) < U32
      PROVE  Entropy!Octets(sum) = Entropy!Octets(map) + Entropy!Octets(symbols)
  <2>1. ASSUME NEW s \in Symbols
        PROVE  sum[s] = map[s] + symbols[s]
    <3>1. map[s] \in Nat /\ symbols[s] \in Nat
      BY <1>1
    <3>2. map[s] + symbols[s] < U32
      BY <1>1, <1>4, <3>1, OctetsOf
    <3> QED
      BY <1>1, <3>1, <3>2 DEF Entropy!AddSymbols
  <2>2. sum \in [Symbols -> Nat]
    BY <1>3, WeightsAssumption DEF Count32
  <2>3. \A s \in Symbols : map[s] \in Int /\ symbols[s] \in Int
    BY <1>1
  <2> HIDE DEF sum
  <2>4. SumFunctionOnSet(sum, Symbols) =
          SumFunctionOnSet(map, Symbols) + SumFunctionOnSet(symbols, Symbols)
    BY <2>1, <2>3, WeightsAssumption, SumPlus
  <2> QED
    BY <1>1, <2>2, <2>4, OctetsOf
<1> QED
  BY <1>3, <1>4

(***************************************************************************)
(* An entry after a packet: the old counts, or none, and the packet's.     *)
(***************************************************************************)
EntryMatches(flow, count) ==
  ~count.short /\ count.octets < U32 =>
    /\ flow.stream_len = count.octets
    /\ Entropy!Octets(flow.map) = count.octets

(***************************************************************************)
(* An entry that agreed with its flow before the packet agrees after it.   *)
(***************************************************************************)
LEMMA EntryCounts ==
  ASSUME NEW len \in Count32, NEW map \in [Symbols -> Count32],
         NEW octets \in Nat, NEW short \in BOOLEAN,
         ~short /\ octets < U32 => len = octets /\ Entropy!Octets(map) = octets,
         NEW symbols \in [Symbols -> Nat], NEW paylen \in Int,
         paylen < 0 \/ paylen = Entropy!Octets(symbols),
         NEW flow, flow.stream_len = (len + paylen) % U32,
         flow.map = Entropy!AddSymbols(map, symbols),
         NEW count, count.octets = octets + Entropy!Octets(symbols),
         count.short = (short \/ paylen < 0)
  PROVE  EntryMatches(flow, count)
<1> SUFFICES ASSUME ~(short \/ paylen < 0),
                    octets + Entropy!Octets(symbols) < U32
             PROVE  /\ flow.stream_len = octets + Entropy!Octets(symbols)
                    /\ Entropy!Octets(flow.map) = octets + Entropy!Octets(symbols)
  BY DEF EntryMatches
<1>1. Entropy!Octets(symbols) \in Nat
  BY OctetsOf
<1>2. len = octets /\ Entropy!Octets(map) = octets
  <2>1. octets < U32
    BY <1>1, WeightsAssumption
  <2> QED
    BY <2>1, Zenon
<1>3. flow.stream_len = (octets + Entropy!Octets(symbols)) % U32
  BY <1>2
<1>4. (octets + Entropy!Octets(symbols)) % U32 =
        octets + Entropy!Octets(symbols)
  BY <1>1, WeightsAssumption
<1> QED
  BY <1>2, <1>3, <1>4, SymbolsAdd

(***************************************************************************)
(* entropy_weight keeps the table; a negative result needs a wrapped flow. *)
(***************************************************************************)
LEMMA EntropyWeighs ==
  ASSUME EntropyInv, NEW key \in Keys, NEW paylen \in Int,
         NEW symbols \in [Symbols -> Nat],
         paylen < 0 \/ paylen = Entropy!Octets(symbols),
         Entropy!Weigh(key, paylen, symbols)
  PROVE  EntropyInv' /\ (entropy_sign' < 0 => Wrapped(key)')
<1> DEFINE Count == [octets : Nat, short : BOOLEAN]
           Matches(i) == EntryMatches(entropy_flows[i], entropy_real[i])
<1>1. /\ entropy_flows \in [Entropy!Flows -> EntropyFlow]
      /\ entropy_currflow \in Entropy!Flows
      /\ entropy_real \in [Entropy!Flows -> Count]
      /\ \A i \in Entropy!Flows : Matches(i)
  BY DEF EntropyInv, RealOK, Entropy!TypeOK, EntropyFlow, Count32,
         SymbolsMatchLength, Entropy!SymbolsMatchLength, EntryMatches
<1>2. Entropy!Octets(symbols) \in Nat
  BY OctetsOf
<1>3. /\ entropy_flows' \in [Entropy!Flows -> EntropyFlow]
      /\ entropy_currflow' \in Entropy!Flows
      /\ entropy_real' \in [Entropy!Flows -> Count]
      /\ \A i \in Entropy!Flows : Matches(i)'
  <2>1. ASSUME NEW i \in Entropy!Flows,
               NEW flow \in EntropyFlow, NEW count \in Count,
               entropy_flows' = [entropy_flows EXCEPT ![i] = flow],
               entropy_real' = [entropy_real EXCEPT ![i] = count],
               EntryMatches(flow, count)
        PROVE  /\ entropy_flows' \in [Entropy!Flows -> EntropyFlow]
               /\ entropy_real' \in [Entropy!Flows -> Count]
               /\ \A j \in Entropy!Flows : Matches(j)'
    <3>1. /\ entropy_flows'[i] = flow /\ entropy_real'[i] = count
          /\ \A j \in Entropy!Flows \ {i} :
               /\ entropy_flows'[j] = entropy_flows[j]
               /\ entropy_real'[j] = entropy_real[j]
      BY <1>1, <2>1
    <3>2. \A j \in Entropy!Flows :
            EntryMatches(entropy_flows'[j], entropy_real'[j])
      BY <1>1, <2>1, <3>1
    <3> QED
      BY <1>1, <2>1, <3>2
  <2>2. \A n \in Int : n % U32 \in Count32
    BY WeightsAssumption DEF Count32
  <2>3. CASE Entropy!CountFlow(key, paylen, symbols)
    <3>1. PICK i \in Entropy!Flows :
            /\ entropy_flows' = [entropy_flows EXCEPT
                                   ![i].stream_len = (@ + paylen) % U32,
                                   ![i].map = Entropy!AddSymbols(@, symbols)]
            /\ entropy_real' = [entropy_real EXCEPT ![i] =
                                  Entropy!Real(@.octets + Entropy!Octets(symbols),
                                               @.short \/ paylen < 0)]
            /\ UNCHANGED entropy_currflow
      BY <2>3 DEF Entropy!CountFlow
    <3> DEFINE old == entropy_flows[i]
               was == entropy_real[i]
               flow == [old EXCEPT !.stream_len = (@ + paylen) % U32,
                                   !.map = Entropy!AddSymbols(@, symbols)]
               count == Entropy!Real(was.octets + Entropy!Octets(symbols),
                                     was.short \/ paylen < 0)
    <3>2. /\ old \in EntropyFlow /\ was \in Count
          /\ old.stream_len \in Count32 /\ old.map \in [Symbols -> Count32]
          /\ was.octets \in Nat /\ was.short \in BOOLEAN
          /\ EntryMatches(old, was)
      BY <1>1 DEF EntropyFlow
    <3>3. /\ entropy_flows' = [entropy_flows EXCEPT ![i] = flow]
          /\ entropy_real' = [entropy_real EXCEPT ![i] = count]
      BY <1>1, <3>1
    <3>4. flow \in EntropyFlow
      <4>1. old.stream_len + paylen \in Int
        BY <3>2, WeightsAssumption DEF Count32
      <4>2. (old.stream_len + paylen) % U32 \in Count32
        BY <2>2, <4>1
      <4>3. Entropy!AddSymbols(old.map, symbols) \in [Symbols -> Count32]
        BY <3>2, SymbolsAdd
      <4> QED
        BY <3>2, <4>2, <4>3 DEF EntropyFlow
    <3>5. count \in Count
      BY <1>2, <3>2 DEF Entropy!Real
    <3>6. EntryMatches(flow, count)
      <4>1. /\ flow.stream_len = (old.stream_len + paylen) % U32
            /\ flow.map = Entropy!AddSymbols(old.map, symbols)
        BY <3>2 DEF EntropyFlow
      <4>2. /\ count.octets = was.octets + Entropy!Octets(symbols)
            /\ count.short = (was.short \/ paylen < 0)
        BY DEF Entropy!Real
      <4>3. ~was.short /\ was.octets < U32 =>
              /\ old.stream_len = was.octets
              /\ Entropy!Octets(old.map) = was.octets
        BY <3>2 DEF EntryMatches
      <4> HIDE DEF old, was, flow, count
      <4> QED
        BY <3>2, <4>1, <4>2, <4>3, EntryCounts
    <3> HIDE DEF flow, count
    <3> QED
      BY <1>1, <2>1, <3>1, <3>3, <3>4, <3>5, <3>6
  <2>4. CASE Entropy!ReplaceFlow(key, paylen, symbols)
    <3> DEFINE i == entropy_currflow
               flow == [key |-> key, stream_len |-> paylen % U32,
                        map |-> Entropy!AddSymbols(Entropy!NoSymbols, symbols)]
               count == Entropy!Real(Entropy!Octets(symbols), paylen < 0)
    <3>1. /\ entropy_flows' = [entropy_flows EXCEPT ![i] = flow]
          /\ entropy_real' = [entropy_real EXCEPT ![i] = count]
      BY <2>4 DEF Entropy!ReplaceFlow
    <3>2. Entropy!NoSymbols \in [Symbols -> Count32] /\ 0 \in Count32
      BY WeightsAssumption DEF Entropy!NoSymbols, Count32
    <3>3. Entropy!Octets(Entropy!NoSymbols) = 0
      <4>1. DOMAIN Entropy!NoSymbols = Symbols
            /\ \A s \in Symbols : Entropy!NoSymbols[s] = 0
        BY DEF Entropy!NoSymbols
      <4> QED
        BY <4>1, SumOfSymbols, SumIsZero, WeightsAssumption
    <3>4. flow \in EntropyFlow
      BY <2>2, <3>2, SymbolsAdd DEF EntropyFlow
    <3>5. count \in Count
      BY <1>2 DEF Entropy!Real
    <3>6. EntryMatches(flow, count)
      <4> DEFINE none == 0
                 no == FALSE
      <4>1. /\ flow.stream_len = (none + paylen) % U32
            /\ flow.map = Entropy!AddSymbols(Entropy!NoSymbols, symbols)
        OBVIOUS
      <4>2. /\ count.octets = none + Entropy!Octets(symbols)
            /\ count.short = (no \/ paylen < 0)
        BY <1>2 DEF Entropy!Real
      <4>3. /\ none \in Count32 /\ none \in Nat /\ no \in BOOLEAN
            /\ ~no /\ none < U32 => /\ none = none
                                    /\ Entropy!Octets(Entropy!NoSymbols) = none
        BY <3>2, <3>3
      <4> HIDE DEF flow, count, none, no
      <4> QED
        BY <3>2, <4>1, <4>2, <4>3, EntryCounts
    <3>7. entropy_currflow' \in Entropy!Flows
      BY <1>1, <2>4, WeightsAssumption DEF Entropy!ReplaceFlow, Entropy!Flows
    <3> HIDE DEF flow, count
    <3> QED
      BY <1>1, <2>1, <3>1, <3>4, <3>5, <3>6, <3>7
  <2> QED
    BY <2>3, <2>4 DEF Entropy!Weigh
<1>4. PICK i \in Entropy!Flows : /\ Entropy!IsFlow(key, i)'
                                 /\ entropy_sign' = Entropy!Sign(entropy_flows'[i])
  BY DEF Entropy!Weigh
<1>5. entropy_sign' \in {-1, 0, 1}
  BY <1>4 DEF Entropy!Sign
<1>6. ASSUME entropy_sign' < 0
      PROVE  Wrapped(key)'
  <2>1. ASSUME ~entropy_real'[i].short, entropy_real'[i].octets < U32
        PROVE  FALSE
    <3>1. entropy_flows'[i].stream_len = Entropy!Octets(entropy_flows'[i].map)
      BY <1>3, <2>1 DEF EntryMatches
    <3>2. Entropy!Sign(entropy_flows'[i]) \in {0, 1}
      BY <1>3, <3>1, EntropyNotNegative
    <3> QED
      BY <1>4, <1>6, <3>2
  <2>2. entropy_real'[i].octets \in Nat
    BY <1>3
  <2> QED
    BY <1>4, <2>1, <2>2, WeightsAssumption DEF Wrapped
<1>7. EntropyInv'
  BY <1>3, <1>5
     DEF EntropyInv, RealOK, Entropy!TypeOK, EntropyFlow, Count32,
         SymbolsMatchLength, Entropy!SymbolsMatchLength, EntryMatches
<1> QED
  BY <1>6, <1>7

-----------------------------------------------------------------------------
(***************************************************************************)
(* on_packet asks the modules. Each invariant of a table is kept by its    *)
(* own module; why a packet was dropped follows from entropy's.            *)
(***************************************************************************)
Inv == /\ InhibitInv
       /\ EntropyInv
       /\ outcome \in {"queue", "drop"}
       /\ packets \in 0 .. MaxPackets
       /\ DropsAreExplained

(***************************************************************************)
(* The tables start empty.                                                 *)
(***************************************************************************)
LEMMA InvInit == Init => Inv
<1> SUFFICES ASSUME Init PROVE Inv
  OBVIOUS
<1>1. InhibitInv
  <2>1. \A i \in Inhibit!Flows : TableOctets[i] = 0
    BY DEF Init, Inhibit!Init, TableOctets
  <2>2. TotalIsSum
    BY <2>1, FlowsAreFinite, SumIsZero, TotalIsSumOfOctets
       DEF Init, Inhibit!Init
  <2>3. OneEntryPerFlow
    BY DEF Init, Inhibit!Init, OneEntryPerFlow, Inhibit!OneEntryPerFlow
  <2>4. Inhibit!TypeOK
    BY FlowsAreFinite DEF Init, Inhibit!Init, Inhibit!TypeOK, Inhibit!Epsilon
  <2> QED
    BY <2>2, <2>3, <2>4 DEF InhibitInv
<1>2. EntropyInv
  <2>1. \A s \in Symbols : Entropy!NoSymbols[s] = 0
    BY DEF Entropy!NoSymbols
  <2>2. DOMAIN Entropy!NoSymbols = Symbols
    BY DEF Entropy!NoSymbols
  <2>3. Entropy!Octets(Entropy!NoSymbols) = 0
    BY <2>1, <2>2, WeightsAssumption, SumOfSymbols, SumIsZero
  <2>4. SymbolsMatchLength
    BY <2>3 DEF Init, Entropy!Init, SymbolsMatchLength,
                Entropy!SymbolsMatchLength, Entropy!Real
  <2>5. Entropy!NoSymbols \in [Symbols -> Count32] /\ 0 \in Count32
    BY WeightsAssumption DEF Entropy!NoSymbols, Count32
  <2>6. RealOK
    BY DEF Init, Entropy!Init, RealOK, Entropy!Real
  <2>7. Entropy!TypeOK
    <3>1. 0 \in Entropy!Flows
      BY WeightsAssumption DEF Entropy!Flows
    <3> QED
      BY <2>5, <3>1 DEF Init, Entropy!Init, Entropy!TypeOK, Count32
  <2> QED
    BY <2>4, <2>6, <2>7 DEF EntropyInv
<1>3. packets \in 0 .. MaxPackets
  BY WeightsAssumption DEF Init
<1> QED
  BY <1>1, <1>2, <1>3 DEF Init, Inv, DropsAreExplained

(***************************************************************************)
(* What a packet of this model gives the modules to work with.             *)
(***************************************************************************)
LEMMA PacketFacts ==
  ASSUME NEW p \in Packets
  PROVE  /\ p.pair \in Pairs
         /\ p.symbols \in [Symbols -> Nat]
         /\ Key(p) \in Keys
         /\ PacketLen(p) \in Nat
         /\ PayloadLen(p) \in Int
         /\ PayloadLen(p) < 0 \/ PayloadLen(p) = Entropy!Octets(p.symbols)
<1>1. /\ p.pair \in Pairs /\ p.port \in Ports
      /\ p.short \in 0 .. HeaderLen
      /\ p.symbols \in [Symbols -> Nat]
      /\ p.short = 0 \/ \A s \in Symbols : p.symbols[s] = 0
  BY WeightsAssumption
<1>2. Entropy!Octets(p.symbols) \in Nat
  BY <1>1, OctetsOf
<1>3. Key(p) \in Keys
  BY <1>1 DEF Key, Keys
<1>4. PacketLen(p) \in Nat /\ PayloadLen(p) \in Int
  BY <1>1, <1>2, WeightsAssumption DEF PacketLen, PayloadLen
<1>5. PayloadLen(p) < 0 \/ PayloadLen(p) = Entropy!Octets(p.symbols)
  <2>1. CASE p.short = 0
    BY <1>2, <2>1 DEF PayloadLen
  <2>2. CASE p.short # 0
    <3>1. Entropy!Octets(p.symbols) = SumFunctionOnSet(p.symbols, Symbols)
      BY <1>1, OctetsOf
    <3>2. SumFunctionOnSet(p.symbols, Symbols) = 0
      BY <1>1, <2>2, WeightsAssumption, SumIsZero
    <3> QED
      BY <1>1, <2>2, <3>1, <3>2, WeightsAssumption DEF PayloadLen
  <2> QED
    BY <2>1, <2>2
<1> QED
  BY <1>1, <1>3, <1>4, <1>5

(***************************************************************************)
(* No packet and no answer of the modules breaks the invariant.            *)
(***************************************************************************)
LEMMA InvStep == Inv /\ [Next]_vars => Inv'
<1> SUFFICES ASSUME Inv, [Next]_vars PROVE Inv'
  OBVIOUS
<1>1. ASSUME NEW p \in Packets, packets < MaxPackets, WeighPacket(p)
      PROVE  Inv'
  <2>1. PICK overflow \in RandomOverflows :
          /\ AskInhibit(p)
          /\ \/ /\ Rejected(p, overflow)
                /\ outcome' = "drop"
                /\ UNCHANGED entropyVars
             \/ /\ ~Rejected(p, overflow)
                /\ AskEntropy(p)
                /\ outcome' = IF "entropy" \in enabled /\ entropy_sign' < 0
                              THEN "drop" ELSE "queue"
          /\ last' = [key |-> Key(p), mark |-> p.mark, overflow |-> overflow]
    BY <1>1 DEF WeighPacket
  <2>2. InhibitInv'
    <3>1. CASE UNCHANGED inhibitVars
      BY <3>1 DEF Inv, InhibitInv, Inhibit!TypeOK, TotalIsSum, OneEntryPerFlow,
                  Inhibit!TotalIsSum, Inhibit!OneEntryPerFlow, inhibitVars
    <3>2. CASE Inhibit!Weigh(p.pair, PacketLen(p))
      BY <3>2, PacketFacts, InhibitWeighs DEF Inv
    <3> QED
      BY <2>1, <3>1, <3>2 DEF AskInhibit
  <2>3. packets' \in 0 .. MaxPackets
    BY <1>1, WeightsAssumption DEF Inv, WeighPacket
  <2>4. PICK key \in Keys, paylen \in Int, symbols \in [Symbols -> Nat] :
          key = Key(p) /\ paylen = PayloadLen(p) /\ symbols = p.symbols
    BY PacketFacts
  <2>5. paylen < 0 \/ paylen = Entropy!Octets(symbols)
    BY <2>4, PacketFacts
  <2>6. CASE Rejected(p, overflow) /\ outcome' = "drop" /\ UNCHANGED entropyVars
    <3>1. EntropyInv'
      BY <2>6 DEF Inv, EntropyInv, Entropy!TypeOK, RealOK, SymbolsMatchLength,
                  Entropy!SymbolsMatchLength, entropyVars
    <3>2. DropsAreExplained'
      BY <1>1, <2>1, <2>6 DEF WeighPacket, DropsAreExplained, Rejected, Unwanted
    <3> QED
      BY <2>2, <2>6, <2>3, <3>1, <3>2 DEF Inv
  <2>7. CASE /\ "entropy" \in enabled
             /\ Entropy!Weigh(key, paylen, symbols)
             /\ outcome' = IF entropy_sign' < 0 THEN "drop" ELSE "queue"
    <3>1. EntropyInv' /\ (entropy_sign' < 0 => Wrapped(key)')
      BY <2>5, <2>7, EntropyWeighs DEF Inv
    <3>2. DropsAreExplained'
      BY <2>1, <2>4, <2>7, <3>1 DEF DropsAreExplained
    <3> QED
      BY <2>2, <2>3, <2>7, <3>1, <3>2 DEF Inv
  <2>8. CASE UNCHANGED entropyVars /\ outcome' = "queue"
    <3>1. EntropyInv'
      BY <2>8 DEF Inv, EntropyInv, Entropy!TypeOK, RealOK, SymbolsMatchLength,
                  Entropy!SymbolsMatchLength, entropyVars
    <3> QED
      BY <2>2, <2>3, <2>8, <3>1 DEF Inv, DropsAreExplained
  <2> QED
    BY <2>1, <2>4, <2>6, <2>7, <2>8 DEF AskEntropy
<1>2. CASE UNCHANGED vars
  <2>1. InhibitInv'
    BY <1>2 DEF Inv, InhibitInv, Inhibit!TypeOK, TotalIsSum, OneEntryPerFlow,
                Inhibit!TotalIsSum, Inhibit!OneEntryPerFlow, inhibitVars, vars
  <2>2. EntropyInv'
    BY <1>2 DEF Inv, EntropyInv, Entropy!TypeOK, RealOK, SymbolsMatchLength,
                Entropy!SymbolsMatchLength, entropyVars, vars
  <2>3. DropsAreExplained'
    BY <1>2 DEF Inv, DropsAreExplained, Unwanted, Wrapped, Entropy!IsFlow, vars,
                entropyVars
  <2> QED
    BY <1>2, <2>1, <2>2, <2>3 DEF Inv, vars
<1> QED
  BY <1>1, <1>2 DEF Next

-----------------------------------------------------------------------------
(***************************************************************************)
(* Both tables keep their shape: no count leaves its range, flow_octets    *)
(* does not go below zero, both currflow stay within their tables.         *)
(***************************************************************************)
THEOREM TablesTyped == Spec => []TypeOK
<1>1. Inv => TypeOK
  BY DEF Inv, InhibitInv, EntropyInv, TypeOK
<1> QED
  BY <1>1, InvInit, InvStep, PTL DEF Spec

(***************************************************************************)
(* flow_octets, from which every weight of inhibit_big_flows is taken, is  *)
(* the sum of the table, whatever flows have come and gone.                *)
(***************************************************************************)
THEOREM TotalFollowsTable == Spec => []TotalIsSum
<1>1. Inv => TotalIsSum
  BY DEF Inv, InhibitInv
<1> QED
  BY <1>1, InvInit, InvStep, PTL DEF Spec

(***************************************************************************)
(* Whatever flows have been evicted and have come back, no pair of         *)
(* addresses has two entries: its octets are not split, and its weight not *)
(* raised.                                                                 *)
(***************************************************************************)
THEOREM FlowsHaveOneEntry == Spec => []OneEntryPerFlow
<1>1. Inv => OneEntryPerFlow
  BY DEF Inv, InhibitInv
<1> QED
  BY <1>1, InvInit, InvStep, PTL DEF Spec

(***************************************************************************)
(* entropy's two counts of a flow agree while neither has wrapped and no   *)
(* packet of the flow was too short, across evictions.                     *)
(***************************************************************************)
THEOREM CountsOfFlowAgree == Spec => []SymbolsMatchLength
<1>1. Inv => SymbolsMatchLength
  BY DEF Inv, EntropyInv
<1> QED
  BY <1>1, InvInit, InvStep, PTL DEF Spec

(***************************************************************************)
(* A module drops a packet only for an unwanted mark, an overflow of       *)
(* random's sum, or a flow whose counts no longer describe one stream:     *)
(* Shannon's entropy is never negative.                                    *)
(***************************************************************************)
THEOREM DropsHaveReasons == Spec => []DropsAreExplained
<1>1. Inv => DropsAreExplained
  BY DEF Inv
<1> QED
  BY <1>1, InvInit, InvStep, PTL DEF Spec

=============================================================================
