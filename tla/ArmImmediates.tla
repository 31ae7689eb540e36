--------------------------- MODULE ArmImmediates ---------------------------
(***************************************************************************)
(* The expanded immediates of ARM instructions: source/armimm.c, and       *)
(* decode_a32_imm, decode_t32_imm, decode_logimm and the alias conditions  *)
(* computed from immediates in the two decoders.                           *)
(***************************************************************************)
EXTENDS ArmBits

\* An immediate of n bytes: byte i of the result is bytes[i], from byte 0 upwards.
FromBytes(bytes) ==
  {b \in Low(8 * Len(bytes)) : b % 8 \in bytes[b \div 8 + 1]}

None == {}
Saturated == Low(8)

-----------------------------------------------------------------------------
(* AArch32.                                                                *)

decode_a32_imm(imm12) == ror(Slice(imm12, 7, 0), Num(Slice(imm12, 11, 8)) * 2)

\* Mutant: the leading one of a rotated value is forgotten.
T32NoLeadingOne(imm12) ==
  LET imm8 == Slice(imm12, 7, 0)
  IN  IF imm12 \cap {10, 11} # {} THEN ror(Slice(imm12, 6, 0), Num(Slice(imm12, 11, 7)))
      ELSE FromBytes(CASE Num(Slice(imm12, 9, 8)) = 0 -> <<imm8>>
                       [] Num(Slice(imm12, 9, 8)) = 1 -> <<imm8, None, imm8>>
                       [] Num(Slice(imm12, 9, 8)) = 2 -> <<None, imm8, None, imm8>>
                       [] OTHER -> <<imm8, imm8, imm8, imm8>>)

decode_t32_imm(imm12) ==
  LET imm8 == Slice(imm12, 7, 0)
      patterns == <<<<imm8>>, <<imm8, None, imm8>>, <<None, imm8, None, imm8>>,
                    <<imm8, imm8, imm8, imm8>>>>
  IN  IF imm12 \cap {10, 11} # {}
      THEN ror(Slice(imm12, 6, 0) \union {7}, Num(Slice(imm12, 11, 7)))
      ELSE FromBytes(patterns[Num(Slice(imm12, 9, 8)) + 1])

\* decode_arg_label, symbol labelj: I1 and I2 are computed, but shifted out of the word
\* on the way back, so that J1 and J2 are only cleared.
decode_labelj(value, nb) == value \ {nb - 2, nb - 3}

-----------------------------------------------------------------------------
(* armimm.c.                                                               *)

\* Rows of 16 entries of vfpimm_table, by their first entry in units of 1/128; the
\* entries of a row are 16/16, 17/16, ... 31/16 of it.  The upper half is negative.
VfpRows == <<256, 512, 1024, 2048, 16, 32, 64, 128>>

\* decode_vfp_imm, in units of 1/128.  More than a byte is refused, the byte is read.
vfpimm_table(imm8) ==
  LET row == VfpRows[(imm8 % 128) \div 16 + 1]
      magnitude == (row \div 16) * (16 + (imm8 % 16))
  IN  IF imm8 < 128 THEN magnitude ELSE -magnitude

decode_vfp_imm(value) == [ok |-> value < 256, imm |-> vfpimm_table(value % 256)]

\* One lane as a float: aBbbbbbc defgh000 above zeros, or aBbbbbbb bbcdefgh.
Float32(imm8) ==
  {b + 19 : b \in Slice(imm8, 5, 0)} \union (IF 6 \in imm8 THEN 25..29 ELSE {30})
    \union (IF 7 \in imm8 THEN {31} ELSE {})
Float64(imm8) ==
  {b + 48 : b \in Slice(imm8, 5, 0)} \union (IF 6 \in imm8 THEN 54..61 ELSE {62})
    \union (IF 7 \in imm8 THEN {63} ELSE {})

\* The lanes decode_advsimd_imm fills in; cmode 15 leaves out the zero bytes.
AdvsimdPattern(op, cmode, imm8) ==
  CASE cmode \in {0, 1}   -> FromBytes(<<imm8, None, None, None, imm8>>)
    [] cmode \in {2, 3}   -> FromBytes(<<None, imm8, None, None, None, imm8>>)
    [] cmode \in {4, 5}   -> FromBytes(<<None, None, imm8, None, None, None, imm8>>)
    [] cmode \in {6, 7}   -> FromBytes(<<None, None, None, imm8, None, None, None, imm8>>)
    [] cmode \in {8, 9}   -> FromBytes(<<imm8, None, imm8, None, imm8, None, imm8>>)
    [] cmode \in {10, 11} -> FromBytes(<<None, imm8, None, imm8, None, imm8, None, imm8>>)
    [] cmode = 12 -> FromBytes(<<Saturated, imm8, None, None, Saturated, imm8>>)
    [] cmode = 13 -> FromBytes(<<Saturated, Saturated, imm8, None,
                                 Saturated, Saturated, imm8>>)
    [] cmode = 14 /\ op = 1 -> {b \in Low(64) : b \div 8 \in imm8}
    [] cmode = 14 /\ op = 0 -> {b \in Low(64) : b % 8 \in imm8}
    [] cmode = 15 /\ op = 1 -> Float64(imm8)
    [] cmode = 15 /\ op = 0 -> Float32(imm8) \union {b + 32 : b \in Float32(imm8)}

AdvsimdDatatype(op, cmode) ==
  CASE cmode \in 0..7 \union {12, 13} -> "I32"
    [] cmode \in 8..11 -> "I16"
    [] cmode = 14 -> IF op = 1 THEN "I64" ELSE "I8"
    [] cmode = 15 -> IF op = 1 THEN "F64" ELSE "F32"

\* The part of the lanes that is kept: I64 and F64 as they are.
LaneBits(dt) == CASE dt = "I8" -> 8 [] dt = "I16" -> 16 [] dt \in {"I32", "F32"} -> 32
                  [] OTHER -> 64

\* Mutant: a float is cut to 16 bits.
AdvsimdShortFloat(op, cmode, imm8) ==
  AdvsimdPattern(op, cmode, imm8)
    \cap Low(IF cmode = 15 /\ op = 0 THEN 16 ELSE LaneBits(AdvsimdDatatype(op, cmode)))

\* The pattern, cut to the lanes' datatype.
AdvsimdLanes(op, cmode, imm8) ==
  AdvsimdPattern(op, cmode, imm8) \cap Low(LaneBits(AdvsimdDatatype(op, cmode)))

\* decode_advsimd_imm, of op:cmode:abcdefgh.
decode_advsimd_imm(value) ==
  AdvsimdLanes(IF 12 \in value THEN 1 ELSE 0, Num(Slice(value, 11, 8)), Slice(value, 7, 0))

-----------------------------------------------------------------------------
(* AArch64.                                                                *)

\* Elements of esize bits, as often as datasize has room for them.
Elements(element, esize, datasize) ==
  {b \in Low((datasize \div esize) * esize) : b % esize \in element}

\* Mutant: the run of ones is not rotated.
RunUnrotated(imms, immr, len) == replicate(1, Num(imms \cap Low(len)) + 1)

\* An element of 2 ^ len bits: a run of ones, rotated.
LogimmElement(imms, immr, len) ==
  ror64(replicate(1, Num(imms \cap Low(len)) + 1), Num(immr \cap Low(len)), 2 ^ len)

LogimmOf(imms, immr, len, datasize) ==
  IF len < 1 THEN [ok |-> FALSE, imm |-> {}]
  ELSE [ok |-> TRUE, imm |-> Elements(LogimmElement(imms, immr, len), 2 ^ len, datasize)]

\* decode_logimm, of N:imms:immr.  Without a datasize N gives it.  An element of all
\* ones, which the manual reserves, is decoded like any other.
decode_logimm(imm13, datasize) ==
  LET N    == Slice(imm13, 12, 12)
      imms == Slice(imm13, 11, 6)
      len  == get_hi_bit_pos(Lsl(N, 6, 7) \union (Low(6) \ imms))
  IN  LogimmOf(imms, Slice(imm13, 5, 0), len,
               IF datasize # 0 THEN datasize ELSE IF N = {} THEN 32 ELSE 64)

\* MoveWidePreferred.  -r % 16 is never positive in C, so any run of up to 16 ones
\* is taken for a MOVZ, whatever its rotation.
MoveWidePreferred(sf, n, imms, immr) ==
  LET width == IF sf THEN 64 ELSE 32
  IN  /\ IF sf THEN n ELSE (~n /\ imms < 32)
      /\ \/ imms < 16 /\ -(immr % 16) <= 15 - imms
         \/ imms >= 16 /\ imms >= width - 15 /\ immr % 16 <= imms - (width - 15)

\* BFXPreferred.  In 64 bits it is the unsigned forms that make room for an extension.
BFXPreferred(sf, uns, imms, immr) ==
  /\ imms >= immr
  /\ imms # (IF sf THEN 63 ELSE 31)
  /\ immr = 0 => IF sf THEN uns => imms \notin {7, 15, 31} ELSE imms \notin {7, 15}

\* The lanes of an immediate, and those of them that are one sign-extended byte or
\* half-word: all zeros, or all ones, from bit `from' up.
Lane(imm, size, i) == Slice(imm, size * i + size - 1, size * i)
Extends(imm, from, size) == Slice(imm, size - 1, from) \in {{}, Low(size - from)}

\* The immediates one DUP instruction could represent.
Duplicates(imm) ==
  LET Repeats(size) == Lane(imm, size, 0) = Lane(imm, size, 1)
      words == Repeats(32)
      halfs == Repeats(32) /\ Repeats(16)
  IN  IF Lane(imm, 8, 0) # {}
      THEN \/ Extends(imm, 8, 64)
           \/ words /\ Extends(imm, 8, 32)
           \/ halfs /\ (Extends(imm, 8, 16) \/ Repeats(8))
      ELSE \/ Extends(imm, 16, 64)
           \/ words /\ Extends(imm, 8, 32)
           \/ halfs

\* SVEMoveMaskPreferred.  Without N the immediate has 32 bits, and the words differ.
SVEMoveMaskPreferred(imm13) ==
  LET Alone(limm) == limm.ok /\ ~Duplicates(limm.imm) IN Alone(decode_logimm(imm13, 0))
=============================================================================
