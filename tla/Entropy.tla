------------------------------- MODULE Entropy -------------------------------
(***************************************************************************)
(* The weight module entropy.c: a table of nflows flows, with the octets   *)
(* of payload seen in each and how often each octet value was among them.  *)
(* A packet's weight is 1 over the Shannon entropy of its flow, so that    *)
(* random traffic is light. Of a weight only the sign matters here, which  *)
(* decides whether on_packet drops the packet.                             *)
(*                                                                         *)
(* The payload's place is calculated from the protocol, and a packet may   *)
(* end before it (a fragment of a TCP segment): paylen is then negative.   *)
(***************************************************************************)
EXTENDS Integers, Functions

CONSTANTS nflows,        \* the 'nrecent' parameter, at least 1
          Keys,          \* flows: addresses, protocol and ports
          ZeroKey,       \* the flow that memset leaves
          Symbols,       \* values of an octet
          U32            \* 2^32: stream_len and map[] are uint32_t

VARIABLES recent_flows,  \* the table: key, stream_len, map
          currflow,
          sign,          \* the sign of the last result
          real           \* ghost: of each entry, the octets counted, and if a
                         \* packet was too short

Flows == 0 .. nflows - 1

NoSymbols == [s \in Symbols |-> 0]

InTable(key) == \E i \in Flows : recent_flows[i].key = key

(***************************************************************************)
(* The loop stops at the first flow with this key.                         *)
(***************************************************************************)
IsFlow(key, i) ==
  /\ recent_flows[i].key = key
  /\ \A j \in Flows : j < i => recent_flows[j].key # key

(***************************************************************************)
(* How often each symbol has been seen, after a payload with these.        *)
(***************************************************************************)
AddSymbols(map, symbols) == [s \in Symbols |-> (map[s] + symbols[s]) % U32]

Real(octets, short) == [octets |-> octets, short |-> short]

Octets(symbols) == SumFunction(symbols)

-----------------------------------------------------------------------------
(***************************************************************************)
(* entropy_calc: minus the sum of f * log2(f) over the symbols seen, f     *)
(* being map[s] / stream_len. With map[s] octets of value s, that is       *)
(*     1 / stream_len * sum over all octets of log2(stream_len / map[s])   *)
(* and has the sign of the product of stream_len over all octets minus the *)
(* product of their map[s]. It is Shannon's entropy as long as stream_len  *)
(* is the number of the octets.                                            *)
(***************************************************************************)
Seen(map) == {o \in Symbols \X (1 .. U32 - 1) : o[2] <= map[o[1]]}

Times(a, b) == a * b

ProductOver(octets, factor) ==
  FoldFunction(Times, 1, [o \in octets |-> factor[o[1]]])

Sign(flow) ==
  LET octets  == Seen(flow.map)
      counts  == ProductOver(octets, flow.map)
      lengths == ProductOver(octets, [s \in Symbols |-> flow.stream_len])
  IN  IF flow.stream_len = 0 \/ lengths = counts THEN 0
      ELSE IF lengths > counts THEN 1
      ELSE -1

-----------------------------------------------------------------------------
CountFlow(key, paylen, symbols) ==
  \E i \in Flows :
    /\ IsFlow(key, i)
    /\ recent_flows' = [recent_flows EXCEPT
                          ![i].stream_len = (@ + paylen) % U32,
                          ![i].map = AddSymbols(@, symbols)]
    /\ real' = [real EXCEPT ![i] = Real(@.octets + Octets(symbols),
                                        @.short \/ paylen < 0)]
    /\ UNCHANGED currflow

ReplaceFlowKeepingMap(key, paylen, symbols) ==  \* mutated form: no memset
  /\ recent_flows' = [recent_flows EXCEPT
                        ![currflow] = [key |-> key, stream_len |-> paylen % U32,
                                       map |-> AddSymbols(@.map, symbols)]]
  /\ real' = [real EXCEPT ![currflow] = Real(Octets(symbols), paylen < 0)]
  /\ currflow' = IF currflow + 1 >= nflows THEN 0 ELSE currflow + 1

ReplaceFlow(key, paylen, symbols) ==
  /\ recent_flows' = [recent_flows EXCEPT
                        ![currflow] = [key |-> key, stream_len |-> paylen % U32,
                                       map |-> AddSymbols(NoSymbols, symbols)]]
  /\ real' = [real EXCEPT ![currflow] = Real(Octets(symbols), paylen < 0)]
  /\ currflow' = IF currflow + 1 >= nflows THEN 0 ELSE currflow + 1

Weigh(key, paylen, symbols) ==
  /\ \/ InTable(key) /\ CountFlow(key, paylen, symbols)
     \/ ~InTable(key) /\ ReplaceFlow(key, paylen, symbols)
  /\ \E i \in Flows : /\ IsFlow(key, i)'
                      /\ sign' = Sign(recent_flows'[i])

Init ==
  /\ recent_flows = [i \in Flows |-> [key |-> ZeroKey, stream_len |-> 0,
                                      map |-> NoSymbols]]
  /\ currflow = 0
  /\ sign = 0
  /\ real = [i \in Flows |-> Real(0, FALSE)]

-----------------------------------------------------------------------------
(***************************************************************************)
(* Type correctness; currflow stays within the table.                      *)
(***************************************************************************)
TypeOK ==
  /\ recent_flows \in [Flows -> [key : Keys \cup {ZeroKey},
                                 stream_len : 0 .. U32 - 1,
                                 map : [Symbols -> 0 .. U32 - 1]]]
  /\ currflow \in Flows
  /\ sign \in {-1, 0, 1}

(***************************************************************************)
(* stream_len, which follows the packets' headers, is the number of the    *)
(* symbols counted in map, which follows their payload, whatever flows     *)
(* have come and gone: for a flow of fewer than 2^32 octets without        *)
(* packets that end before their payload.                                  *)
(***************************************************************************)
SymbolsMatchLength ==
  \A i \in Flows :
    ~real[i].short /\ real[i].octets < U32 =>
      /\ recent_flows[i].stream_len = real[i].octets
      /\ Octets(recent_flows[i].map) = real[i].octets

=============================================================================
