-------------------------------- MODULE Base64 --------------------------------
(***************************************************************************)
(* b64encode of stat/image.c, which makes the image part of a JSON answer, *)
(* and the size of the buffer that stat/damper_img.c gives it. Of a        *)
(* character only its place in the table cb64 is kept, and Pad for "=".    *)
(***************************************************************************)
EXTENDS Integers, Sequences

Byte   == 0 .. 255
Pad    == 64

(***************************************************************************)
(* The three octets in[i], in[i+1], in[i+2] of a round of the loop, of     *)
(* which the last round may have fewer, make four characters.              *)
(***************************************************************************)
Rounds(len) == (len + 2) \div 3

Octet(in, i) == IF i <= Len(in) THEN in[i] ELSE 0

RoundUnpadded(in, i) ==        \* mutated form: no "=" at the end
  << Octet(in, i) \div 4,
     16 * (Octet(in, i) % 4) + (Octet(in, i + 1) \div 16),
     4 * (Octet(in, i + 1) % 16) + (Octet(in, i + 2) \div 64),
     Octet(in, i + 2) % 64 >>

Round(in, i) ==
  << Octet(in, i) \div 4,
     16 * (Octet(in, i) % 4) + (Octet(in, i + 1) \div 16),
     IF i + 1 > Len(in) THEN Pad
     ELSE 4 * (Octet(in, i + 1) % 16) + (Octet(in, i + 2) \div 64),
     IF i + 2 > Len(in) THEN Pad ELSE Octet(in, i + 2) % 64 >>

B64Encode(in) ==
  [j \in 1 .. 4 * Rounds(Len(in)) |->
     Round(in, 3 * ((j - 1) \div 4) + 1)[((j - 1) % 4) + 1]]

(***************************************************************************)
(* What build_chart allocates: one octet more than the characters is used, *)
(* for the final zero.                                                     *)
(***************************************************************************)
BufferLen(len) == (((len + 1) * 4) \div 3) + 3

-----------------------------------------------------------------------------
(***************************************************************************)
(* The reader's side (RFC 4648): every character but "=" carries 6 bits.   *)
(***************************************************************************)
DecodedLen(out) ==
  3 * (Len(out) \div 4) - IF Len(out) = 0 THEN 0
                          ELSE IF out[Len(out) - 1] = Pad THEN 2
                          ELSE IF out[Len(out)] = Pad THEN 1 ELSE 0

(***************************************************************************)
(* Three octets from the four characters after the first c.                *)
(***************************************************************************)
DecodedRound(out, c) ==
  << 4 * out[c + 1] + (out[c + 2] \div 16),
     16 * (out[c + 2] % 16) + (out[c + 3] \div 4),
     64 * (out[c + 3] % 4) + out[c + 4] >>

Decode(out) ==
  [i \in 1 .. DecodedLen(out) |->
     DecodedRound(out, 4 * ((i - 1) \div 3))[((i - 1) % 3) + 1]]

=============================================================================
