----------------------------- MODULE ArmManual -----------------------------
(***************************************************************************)
(* Functions of the manual's shared pseudocode                             *)
(* (html/target/aarch32/shared_pseudocode.html and its AArch64 twin), as a *)
(* reference for the immediates, shifts and labels the decoders compute    *)
(* with tables, masks and shifts of their own.                             *)
(***************************************************************************)
EXTENDS Integers, FiniteSets

\* Words are sets of bit positions here, too: x<hi:lo>, UInt, the replication of an
\* element of e bits over n bits, and concatenation x:y, of which y has n bits.
Field(x, hi, lo) == {b - lo : b \in x \cap lo..hi}

UInt(x) ==
  LET below[n \in 0..31] ==
        IF n = 0 THEN 0 ELSE below[n - 1] + (IF n - 1 \in x THEN 2 ^ (n - 1) ELSE 0)
  IN  below[31]

Replicate(x, e, n) == {b \in 0..n - 1 : b % e \in x}
Above(x, y, n) == {b + n : b \in x} \union y
Shifted(x, n) == {b + n : b \in x}

\* ROR(x, n) of a value of `width' bits: bit b goes to b - n.
ROR(x, n, width) == {(b - n) % width : b \in x}

SignExtend(x, from, to) == IF from - 1 \in x THEN x \union from..to - 1 ELSE x

A32ExpandImm(imm12) == ROR(Field(imm12, 7, 0), 2 * UInt(Field(imm12, 11, 8)), 32)

T32ExpandImm(imm12) ==
  LET imm8 == Field(imm12, 7, 0)
      form == UInt(Field(imm12, 9, 8))
  IN  CASE Field(imm12, 11, 10) # {} ->
             ROR(Field(imm12, 6, 0) \union {7}, UInt(Field(imm12, 11, 7)), 32)
        [] Field(imm12, 11, 10) = {} /\ form = 0 -> imm8
        [] Field(imm12, 11, 10) = {} /\ form = 1 -> Replicate(imm8, 16, 32)
        [] Field(imm12, 11, 10) = {} /\ form = 2 -> Replicate(Shifted(imm8, 8), 16, 32)
        [] Field(imm12, 11, 10) = {} /\ form = 3 -> Replicate(imm8, 8, 32)

\* DecodeImmShift(type, imm5), as a pair.
DecodeImmShift(type, imm5) ==
  CASE type = 0 -> <<"LSL", imm5>>
    [] type = 1 -> <<"LSR", IF imm5 = 0 THEN 32 ELSE imm5>>
    [] type = 2 -> <<"ASR", IF imm5 = 0 THEN 32 ELSE imm5>>
    [] type = 3 -> IF imm5 = 0 THEN <<"RRX", 0>> ELSE <<"ROR", imm5>>

\* AdvSIMDExpandImm(op, cmode, imm8): 64 bits.
AdvSIMDExpandImm(op, cmode, imm8) ==
  LET group == cmode \div 2
      float == {b + 19 : b \in Field(imm8, 5, 0)}
                 \union (IF 6 \in imm8 THEN 25..29 ELSE {30}) \union Shifted(imm8 \cap {7}, 24)
  IN  CASE group \in 0..3 -> Replicate(Shifted(imm8, 8 * group), 32, 64)
        [] group \in 4..5 -> Replicate(Shifted(imm8, 8 * (group - 4)), 16, 64)
        [] cmode = 12     -> Replicate(Above(imm8, 0..7, 8), 32, 64)
        [] cmode = 13     -> Replicate(Above(imm8, 0..15, 16), 32, 64)
        [] cmode = 14     -> IF op THEN UNION {8 * i..8 * i + 7 : i \in imm8}
                             ELSE Replicate(imm8, 8, 64)
        [] cmode = 15     -> Replicate(float, 32, 64)

\* DecodeBitMasks(immN, imms, immr, TRUE), of immN:imms:immr: the wmask, of 64 bits, or
\* nothing where it is undefined.
DecodeBitMasks(imm13) ==
  LET lengths == {n \in 1..6 : IF n = 6 THEN 12 \in imm13 ELSE n + 6 \notin imm13}
      len     == IF 12 \in imm13 THEN 6 ELSE CHOOSE n \in lengths : \A m \in lengths : m <= n
      levels  == 0..len - 1
      imms    == Field(imm13, 11, 6)
      welem   == 0..UInt(imms \cap levels)
      turned  == ROR(welem, UInt(Field(imm13, 5, 0) \cap levels), 2 ^ len)
  IN  IF lengths = {} \/ levels \subseteq imms THEN <<>>
      ELSE <<Replicate(turned, 2 ^ len, 64)>>

\* MOVZ and MOVN: imm16 in the halfword hw of a zero register, and the complement.
MoveWide(hw, imm16, inverted, datasize) ==
  {b \in 0..datasize - 1 : (b - 16 * hw \in imm16) # inverted}

\* VFPExpandImm(imm8), in units of 1/128: sign, exponent and fraction put together.
VFPExpandImm(imm8) ==
  LET exponent == (IF 6 \in imm8 THEN -3 ELSE 1) + UInt(Field(imm8, 5, 4))
      scaled   == (16 + UInt(Field(imm8, 3, 0))) * 2 ^ (exponent + 3)
  IN  IF 7 \in imm8 THEN -scaled ELSE scaled
=============================================================================
