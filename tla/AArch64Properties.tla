------------------------- MODULE AArch64Properties -------------------------
(***************************************************************************)
(* What amed_aarch64_decode_insn promises its caller: of one instruction,  *)
(* of an alias, which must describe the instruction it stands for, and of  *)
(* the loop that decodes a buffer.                                         *)
(***************************************************************************)
EXTENDS AArch64Decoder, ArmManual

Returned == loc = "done" /\ ret

\* A template fitted; if none did the call answers TRUE, too.
Accepted == Returned /\ internal.k <= Len(Row.templates)

\* The call stands by what it returns.
Sound == Accepted /\ flags \cap {"undefined", "unpredictable"} = {}

Final == arguments[Len(arguments)]

-----------------------------------------------------------------------------

FlagNames ==
  {"undefined", "unpredictable", "is_alias", "vector", "predicated", "destructive",
   "constructive", "conditional", "may_branch", "may_load", "may_store"}

\* The shape of the decoder's state.  While a template is tried the slots that are filled
\* are those of its nodes, whatever was tried before it, and they are 8 at most.
AArch64TypeOK ==
  /\ loc \in {"call", "encoding", "template", "node", "alias", "done"} /\ ret \in BOOLEAN
  /\ opcode \subseteq Low(32) /\ flags \subseteq FlagNames
  /\ {internal.encoding, internal.base} \subseteq DOMAIN Encodings
  /\ internal.k \in 0..Len(Row.templates) + 1
  /\ loc = "node" => Len(arguments) <= Len(Template.arguments)
  /\ Len(arguments) <= 8

-----------------------------------------------------------------------------
(* One instruction.                                                        *)

\* What a node leaves in its slot.
ArgumentOf(type) ==
  CASE type \in {"REG", "VREG", "EREG", "PREG", "REGSH"} -> "REGISTER"
    [] type \in {"VLIST", "ELIST"}         -> "LIST"
    [] type \in {"IMM", "FPIMM", "IMMSH"}  -> "IMMEDIATE"
    [] type \in {"LABEL", "ADDR"}          -> "LABEL"
    [] type = "MEM"                        -> "MEMORY"
    [] type = "PATTERNSH"                  -> "PATTERN"
    [] type = "SYSREG"                     -> "SYSREG_ENCODING"
    [] type \in {"COND", "INVCOND"}        -> "CONDITION"
    [] OTHER -> type

\* A template that cannot describe the word: its bits, or an operand, are against it.
Fails(k) ==
  LET t == Templates[Row.templates[k]]
  IN  \/ Skipped(t)
      \/ \E i \in DOMAIN t.arguments :
           ~decode_node(Fresh(internal, t.mnemonic, Row.datasize, {}), t.arguments[i]).ok

\* What is returned is the first template of the encoding, or of its alias, that fits the
\* word.  iform, mnemonic, encoding, argument_count and the arguments come from that one,
\* and nothing from a template that failed half-way or from the base of an alias.
AcceptedIsFirstFit ==
  Returned =>
    /\ \A k \in DOMAIN Row.templates : k <= internal.k => (Fails(k) <=> k < internal.k)
    /\ "is_alias" \in flags <=> internal.encoding # internal.base
    /\ Accepted =>
         /\ insn.iform = Template.iform /\ insn.mnemonic = Template.mnemonic
         /\ insn.encoding = internal.encoding
         /\ insn.argument_count = Len(Template.arguments)
         /\ \A i \in DOMAIN Template.arguments :
              arguments[i].type = ArgumentOf(Template.arguments[i].type)

\* The condition of B.cond is its field, and no other instruction is conditional.  The
\* condition of CINC and CSET is the opposite of the field's, as the instruction they
\* stand for takes the other register when it holds.
ConditionsAreEncoded ==
  Accepted =>
    LET IsBCond == Field(opcode, 31, 24) = {2, 4, 6}
        opposite == {b \in 0..3 : (b + 12 \in opcode) # (b = 0)}
    IN  /\ insn.condition = IF IsBCond THEN UInt(Field(opcode, 3, 0)) + 1 ELSE AL
        /\ "conditional" \in flags <=> insn.condition < AL
        /\ insn.iform \in {"CINCr", "CSETr"} => Final.token = UInt(opposite) + 1

\* The offset of a branch, of ADR and of ADRP is its sign-extended and scaled field.
OffsetIsField ==
  Accepted =>
    LET immhi == Shifted(Field(opcode, 23, 5), 2)
        imm21 == immhi \union Field(opcode, 30, 29)
    IN  /\ insn.iform = "B" =>
             Final.imm = IF Template.cond = "COND" THEN SignExtend(immhi, 21, 64)
                         ELSE SignExtend(Shifted(Field(opcode, 25, 0), 2), 28, 64)
        /\ insn.iform = "TBZri" =>
             Final.imm = SignExtend(Shifted(Field(opcode, 18, 5), 2), 16, 64)
        /\ insn.iform = "ADRr"  => Final.imm = SignExtend(imm21, 21, 64)
        /\ insn.iform = "ADRPr" => Final.imm = SignExtend(Shifted(imm21, 12), 33, 64)

\* The register behind another one of V0..V31 or Z0..Z31.
Behind(reg) == IF reg \in {V0 + 31, Z0 + 31} THEN reg - 31 ELSE reg + 1

ListFollows(list) == \A n \in 2..Len(list) : list[n] = Behind(list[n - 1])

\* Two arguments that are an even register and the next one of its bank.
IsPair(first, second) ==
  LET bank == IF first.reg >= Bank.GPR64 THEN Bank.GPR64 ELSE Bank.GPR32
  IN  (first.reg - bank) % 2 = 0 /\ second.reg = first.reg + 1

\* The registers of a list follow each other in the bank of the first, and begin again
\* behind its last one; the pairs of CASP begin with an even register and end with the
\* next, or the instruction is unpredictable.
RegistersFollow ==
  /\ Accepted => \A i \in DOMAIN arguments :
       arguments[i].type = "LIST" => ListFollows(arguments[i].list)
  /\ Sound /\ insn.iform \in CASP =>
       IsPair(arguments[1], arguments[2]) /\ IsPair(arguments[3], arguments[4])

-----------------------------------------------------------------------------
(* Immediates and aliases.                                                 *)

\* A logical immediate is the manual's DecodeBitMasks of its field, as far as the decoder
\* keeps it: 32 bits of it where N is zero and the encoding has no size.  It says nothing
\* of the fields the manual leaves undefined.
LogicalImmediateIsManual ==
  Accepted => \A i \in DOMAIN Template.arguments :
    LET imm13 == Raw(Template.arguments[i])
        kept  == IF Row.datasize = 32 \/ (Row.datasize = 0 /\ 12 \notin imm13) THEN 32 ELSE 64
    IN  Template.arguments[i].symbol = "aimm" /\ DecodeBitMasks(imm13) # <<>> =>
          arguments[i].imm = DecodeBitMasks(imm13)[1] \cap 0..kept - 1

\* MOV of a wide immediate loads what the MOVZ or MOVN it stands for does, in the bits its
\* register has.
MovLoadsWideImmediate ==
  Accepted /\ insn.iform = "MOVri" /\ Field(opcode, 28, 23) = {0, 2, 5} =>
    Final.imm \cap 0..Row.datasize - 1 =
      MoveWide(UInt(Field(opcode, 22, 21)), Field(opcode, 20, 5), 30 \notin opcode,
               Row.datasize)

\* The field an alias of UBFM, SBFM or BFM names is one of the register, and encodes back
\* into the immr and imms of the word as the manual says it does.  This is about 64 bits:
\* among the 32-bit rows are words with a rotation above 31, which the manual does not
\* define.
BitfieldEncodesBack ==
  LET immr  == UInt(Field(opcode, 21, 16))
      imms  == UInt(Field(opcode, 15, 10))
      lsb   == UInt(arguments[Len(arguments) - 1].imm)
      width == UInt(Final.imm)
  IN  Accepted /\ Row.datasize = 64 =>
        /\ insn.iform \in Inserts \union Extracts => width >= 1 /\ lsb + width <= 64
        /\ insn.iform \in Inserts  => immr = (64 - lsb) % 64 /\ imms = width - 1
        /\ insn.iform \in Extracts => immr = lsb /\ imms = lsb + width - 1
        /\ insn.iform \in {"LSRri", "ASRri"} => immr = UInt(Final.imm) /\ imms = 63

-----------------------------------------------------------------------------
(* The loop.                                                               *)

\* The examples' loop over the decoder is an InsnCursor: it goes forward by four bytes,
\* leaves its buffer by three at most, and ends as long as it has not.
Cursor ==
  INSTANCE InsnCursor WITH Sizes <- Lengths, Slack <- 3, Longest <- 4,
                           position <- context.address, rest <- context.length,
                           running <- ~(loc = "done" /\ ~ret)

StreamIsCursor == Cursor!Spec
=============================================================================
