----------------------------- MODULE X86Fields -----------------------------
(***************************************************************************)
(* The byte layouts the x86 decoder reads: ModRM, SIB, REX and the vector  *)
(* prefixes of amed.h, and the two tables that turn ModRM and SIB into the *)
(* number of displacement bytes that follow.  Everything here is a pure    *)
(* operator on bytes; X86Decoder.tla owns the state.                       *)
(***************************************************************************)
EXTENDS Naturals

Byte == 0..255

Bit(v, i) == (v \div 2^i) % 2 = 1
Inverted(v, i) == ~Bit(v, i)

-----------------------------------------------------------------------------
(* ModRM and SIB.                                                          *)

ModOf(modrm) == modrm \div 64
RegOf(modrm) == (modrm \div 8) % 8
RmOf(modrm)  == modrm % 8

ModRMByte(mod, reg, rm) == 64 * mod + 8 * reg + rm

IndexOf(sib) == (sib \div 8) % 8
BaseOf(sib)  == sib % 8

\* ModRM announces a SIB byte.
NeedsSib(mod, rm) == mod # 3 /\ rm = 4

\* Displacement bytes decode_modrm consumes.
DispSize(mod, rm) ==
  CASE mod = 1 -> 1
    [] mod = 2 -> 4
    [] mod = 0 /\ rm = 5 -> 4
    [] OTHER -> 0

\* Displacement bytes decode_sib consumes, ahead of decode_modrm's own.
SibDispSize(mod, base) ==
  CASE base = 5 /\ mod = 0 -> 4
    [] base = 5 /\ mod = 1 -> 1
    [] base = 5 /\ mod = 2 -> 4
    [] OTHER -> 0

-----------------------------------------------------------------------------
(* Opcode maps.                                                            *)

Maps == {"NONE", "0F", "0F0F", "0F38", "0F3A", "XOP8", "XOP9", "XOPA"}

\* set_mmmmm_field accepts 1, 2 and 3.
VexMap == [m \in 1..3 |-> <<"0F", "0F38", "0F3A">>[m]]

XopMap == [m \in 8..10 |-> <<"XOP8", "XOP9", "XOPA">>[m - 7]]

\* An MVEX mmmm of 0 selects the 0f map as well.
MvexMap == [m \in 0..3 |-> <<"0F", "0F", "0F38", "0F3A">>[m + 1]]

-----------------------------------------------------------------------------
(* Prefix bytes.                                                           *)

RexBytes == 64..79

SegmentOf == [b \in {38, 46, 54, 62, 100, 101} |->
                CASE b = 38  -> "ES"
                  [] b = 46  -> "CS"
                  [] b = 54  -> "SS"
                  [] b = 62  -> "DS"
                  [] b = 100 -> "FS"
                  [] b = 101 -> "GS"]

SegmentBytes == DOMAIN SegmentOf
Segments == {"NONE", "ES", "CS", "SS", "DS", "FS", "GS"}

OPSIZE == 102
ADSIZE == 103
LOCK   == 240
REPNE  == 242
REP    == 243
ESCAPE == 15
VEX2   == 197
VEX3   == 196
XOP    == 143
EVEX   == 98

\* The prefixes vfpc counts: they and REX are forbidden before a vector prefix.
ForbiddenBytes == {OPSIZE, LOCK, REPNE, REP} \union RexBytes
=============================================================================
