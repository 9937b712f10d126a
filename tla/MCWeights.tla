------------------------------ MODULE MCWeights ------------------------------
(***************************************************************************)
(* Model checking of module Weights: packets of three pairs of addresses,  *)
(* one of them with two ports, with payloads of up to two octets, one cut  *)
(* short, and two whose mark is unwanted.                                  *)
(***************************************************************************)
EXTENDS Weights

CONSTANTS ab, cd, ef, p1, p2, x, y, plain, unwanted

Payload(nx, ny) == [s \in Symbols |-> IF s = x THEN nx ELSE ny]

Packet(pair, port, mark, short, symbols) ==
  [pair |-> pair, port |-> port, mark |-> mark, short |-> short,
   symbols |-> symbols]

MCPackets ==
  {Packet(ab, p1, plain,    0, Payload(1, 1)),
   Packet(ab, p1, plain,    0, Payload(2, 0)),
   Packet(ab, p1, plain,    1, Payload(0, 0)),
   Packet(ab, p2, plain,    0, Payload(0, 0)),
   Packet(cd, p1, plain,    0, Payload(1, 0)),
   Packet(ef, p1, plain,    0, Payload(0, 2)),
   Packet(ab, p1, unwanted, 0, Payload(1, 0)),
   Packet(cd, p2, unwanted, 0, Payload(0, 0))}

(***************************************************************************)
(* Packets that are long enough for their headers.                         *)
(***************************************************************************)
MCWholePackets == {p \in MCPackets : p.short = 0}

=============================================================================
