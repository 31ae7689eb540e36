------------------------- MODULE AArch32Properties -------------------------
(***************************************************************************)
(* What amed_aarch32_decode_insn promises its caller: of one instruction,  *)
(* of an IT block, and of the loop that decodes a buffer.                  *)
(***************************************************************************)
EXTENDS AArch32Decoder, ArmManual

Returned == loc = "done" /\ ret

\* The last template that was tried has been accepted: none of an alias failed.
TemplateAccepted == Returned /\ internal.k <= Len(Row.templates)

\* The call stands by what it returns.
Sound == Returned /\ flags \cap {"undefined", "unpredictable"} = {}

InA32 == context.machine_mode = A32

\* The encoding the lookup found, before any alias.
BaseEncoding ==
  Lookup(IF InA32 THEN "A32" ELSE IF insn.length = 2 THEN "T16" ELSE "T32", opcode)

Arguments(type) == {arguments[i] : i \in {n \in DOMAIN arguments : arguments[n].type = type}}

-----------------------------------------------------------------------------
(* Types and limits.                                                       *)

FlagNames ==
  {"undefined", "deprecated", "unpredictable", "is_alias", "vector", "atomic", "acquiring",
   "releasing", "destructive", "may_branch", "may_load", "may_store", "conditional"}

\* The shape of the decoder's state.  While a template is tried the slots that are filled
\* are those of its nodes, whatever templates failed before it, and no template has more
\* than the 8 arguments an amed_insn holds.
AArch32TypeOK ==
  /\ loc \in {"call", "encoding", "template", "node", "alias", "done"} /\ ret \in BOOLEAN
  /\ opcode \subseteq Low(32) /\ flags \subseteq FlagNames /\ token \in 0..255
  /\ itblock.count \in 0..4 /\ itblock.index = 0 /\ itblock.conditions \in [1..4 -> 0..255]
  /\ internal.encoding \in DOMAIN Encodings
  /\ internal.k \in 0..Len(Row.templates) + 1
  /\ loc = "node" => Len(arguments) <= Len(Template.arguments)
  /\ Len(arguments) <= 8

-----------------------------------------------------------------------------
(* One instruction.                                                        *)

\* What a node leaves in its slot.
ArgumentOf(type) ==
  CASE type \in {"REG", "VREG", "EREG", "WREG", "REGSH", "BNKDREG", "SPECREG"} -> "REGISTER"
    [] type \in {"GLIST", "SLIST", "FSLIST", "FDLIST", "VLIST", "ELIST"} -> "LIST"
    [] type \in {"IMM", "FPIMM"}  -> "IMMEDIATE"
    [] type \in {"LABEL", "ADDR"} -> "LABEL"
    [] type \in {"LM", "MEM"}     -> "MEMORY"
    [] type = "COND"   -> "CONDITION"
    [] type = "IFLAGS" -> "AIF"
    [] type \in {"SZ", "XYZ"} -> "NONE"
    [] OTHER -> type

\* iform, mnemonic, encoding, argument_count, the arguments and is_alias of an accepted
\* instruction all come from one template, which the word has the bits of: nothing shows
\* of templates that failed half-way, and of the base instruction nothing shows under an
\* alias.
AcceptedDescribesInsn ==
  Returned =>
    LET row == Encodings[insn.encoding]
    IN  /\ Under(opcode, row)
        /\ "is_alias" \in flags <=> insn.encoding # BaseEncoding
        /\ \E k \in DOMAIN row.templates :
             LET t == Templates[row.templates[k]]
             IN  /\ Under(opcode, t)
                 /\ t.iform = insn.iform /\ t.mnemonic = insn.mnemonic
                 /\ insn.argument_count = Len(t.arguments)
                 /\ \A i \in DOMAIN t.arguments :
                      arguments[i].type = ArgumentOf(t.arguments[i].type)

\* An alias is decoded over the instruction it stands for: it may find more wrong with
\* it, but takes back no flag, and keeps the length and the condition.
AliasOnlyAdds ==
  [][internal.alias /\ loc # "done" =>
       /\ flags \ {"conditional"} \subseteq flags'
       /\ insn'.length = insn.length /\ insn'.condition = insn.condition]_vars

\* A word with the condition field 1111 is either undefined or unconditional, and any
\* other one has the condition of its field: decode_conditional_execution leaves no
\* instruction that may run under NV.  The word of no instruction is another matter: row 0
\* takes it for one named INVALID, under NV as under any condition.
ConditionIsEncoded ==
  Returned /\ InA32 /\ "undefined" \notin flags /\ insn.encoding # 0 =>
    LET field == UInt(Field(opcode, 31, 28))
    IN  /\ insn.condition = IF field = 15 THEN AL ELSE field + 1
        /\ "conditional" \in flags <=> insn.condition < AL

\* An instruction that writes PC through a register operand may branch (CheckPcSp,
\* decode_arg_wreg).  Of the register lists this is not so, as their nodes are not marked
\* as written, and neither of the base of a memory operand: STR R1, [PC], #4 is deprecated,
\* but does not branch.
PcWriteBranches ==
  Returned /\ (\E a \in Arguments("REGISTER") :
                 a.reg = PC /\ a.attrs \cap {"write", "write_back"} # {})
    => "may_branch" \in flags

\* A destructive instruction reads a register it writes, in an earlier operand, unless it
\* reads one before it writes any: then dst_reg is what the stack held.
DestructiveIsOverlap ==
  Returned /\ "destructive" \in flags =>
    \E i, j \in DOMAIN arguments :
      /\ i <= j /\ "read" \in arguments[j].attrs
      /\ \/ "write" \in arguments[i].attrs /\ arguments[i].reg = arguments[j].reg
         \/ \A n \in 1..j - 1 : "write" \notin arguments[n].attrs

\* The bank of a register.
BankOf(reg) == CASE reg \in 1..16 -> "R" [] reg \in 17..48 -> "S" [] reg \in 49..80 -> "D"
                 [] OTHER -> "Q"

\* The registers of a list are of one bank; general ones ascend, others follow each other.
StaysInBank(list) ==
  \A i \in DOMAIN list :
    /\ BankOf(list[i]) = BankOf(list[1])
    /\ i > 1 => IF BankOf(list[1]) = "R" THEN list[i] > list[i - 1]
                ELSE list[i] = list[i - 1] + 1

\* The registers of a VLDM or VPOP list follow each other and stay in the bank of the
\* first; a list that would leave it is unpredictable, and ends with the bank.  VLD1 is not
\* as careful: from D31 on its list goes on with Q0.
ListsStayInBank ==
  TemplateAccepted => \A i \in DOMAIN Template.arguments :
    Template.arguments[i].type \in {"GLIST", "SLIST", "FSLIST", "FDLIST"} =>
      StaysInBank(arguments[i].list)

\* What stands for a modified immediate is the manual's A32ExpandImm or T32ExpandImm of its
\* twelve bits.
ImmediatesExpand ==
  TemplateAccepted => \A i \in DOMAIN Template.arguments :
    LET node  == Template.arguments[i]
        imm12 == Field(opcode, 7, 0) \union Shifted(Field(opcode, 14, 12), 8)
                   \union Shifted(Field(opcode, 26, 26), 11)
    IN  /\ node.symbol = "aimm" /\ node.enc # <<>> =>
             arguments[i].imm = A32ExpandImm(Field(opcode, 11, 0))
        /\ node.symbol = "timm" => arguments[i].imm = T32ExpandImm(imm12)

\* A vector immediate is the manual's AdvSIMDExpandImm, as far as one lane goes, or
\* VFPExpandImm: the byte patterns and the table of armimm.c agree with the pseudocode.
\* (Op 1 of cmode 15 is undefined on AArch32.)
VectorImmediatesExpand ==
  TemplateAccepted => \A i \in DOMAIN Template.arguments :
    LET node  == Template.arguments[i]
        high  == IF InA32 THEN 24 ELSE 28
        op    == 5 \in opcode
        cmode == UInt(Field(opcode, 11, 8))
        imm8  == Field(opcode, 3, 0) \union Shifted(Field(opcode, 18, 16), 4)
                   \union Shifted(Field(opcode, high, high), 7)
        size  == CASE cmode = 14 -> IF op THEN 64 ELSE 8
                   [] cmode \in 8..11 -> 16
                   [] OTHER -> 32
        vfp8  == Field(opcode, 3, 0) \union Shifted(Field(opcode, 19, 16), 4)
    IN  /\ node.symbol = "advimm" /\ ~(op /\ cmode = 15) =>
             arguments[i].imm = AdvSIMDExpandImm(op, cmode, imm8) \cap 0..size - 1
        /\ node.symbol = "vfpimm" => arguments[i].imm = Word32Of(VFPExpandImm(vfp8))

\* A shift by an immediate is the manual's DecodeImmShift: an amount of zero is 32 for
\* LSR and ASR, and RRX for ROR, wherever the operand stands.
ShiftsAreManual ==
  TemplateAccepted /\ InA32 => \A i \in DOMAIN Template.arguments :
    HasAmount(Template.arguments[i]) =>
      <<arguments[i].shift, arguments[i].amount>> =
        DecodeImmShift(UInt(Field(opcode, 6, 5)), UInt(Field(opcode, 11, 7)))

\* The offset of a branch is the sign-extended and scaled field of its word, that of ADR
\* the expanded immediate, where it is added.  BL of Thumb is another matter:
\* BranchOffsetIsManual.
BranchOffsetIsField ==
  TemplateAccepted =>
    /\ InA32 /\ insn.iform \in {"B", "BL"} =>
         arguments[1].imm = SignExtend(Shifted(Field(opcode, 23, 0), 2), 26, 64)
    /\ insn.length = 2 /\ insn.iform = "B" =>
         arguments[1].imm = IF Field(opcode, 15, 12) = {0, 2, 3}
                            THEN SignExtend(Shifted(Field(opcode, 7, 0), 1), 9, 64)
                            ELSE SignExtend(Shifted(Field(opcode, 10, 0), 1), 12, 64)
    /\ InA32 /\ insn.iform = "ADRr" /\ 23 \in opcode =>
         arguments[2].imm = A32ExpandImm(Field(opcode, 11, 0))

-----------------------------------------------------------------------------
(* IT blocks.                                                              *)

\* The manual's ITAdvance shifts the mask until only its last one is left: the block is as
\* long as that takes.
BlockSize(mask) == CHOOSE n \in 1..4 : {b + n - 1 : b \in mask} \cap 0..3 = {3}

\* An IT leaves a block of that size; its letters are one less, and a letter is T exactly if
\* its instruction runs under the first condition.
ItBlockMatchesMask ==
  Returned /\ insn.iform = "IT" =>
    LET size == BlockSize(Field(opcode, 3, 0))
    IN  /\ itblock.is_in /\ itblock.count = size /\ insn.it_insn_count = size
        /\ Len(insn.it_op) = size - 1
        /\ \A i \in 1..size - 1 :
             insn.it_op[i] = "T" <=> itblock.conditions[i + 1] = itblock.conditions[1]
        /\ \A i \in size + 1..4 : itblock.conditions[i] = AL

-----------------------------------------------------------------------------
(* The loop.                                                               *)

\* An instruction lies in the buffer it was decoded from: no byte behind it was read.
LengthFits == Returned => insn.length \in {2, 4} /\ insn.length <= context.length

\* The examples' loop over the decoder is an InsnCursor that never leaves its buffer:
\* every call returns, goes forward by whole instructions, and the loop ends.
Cursor ==
  INSTANCE InsnCursor WITH Sizes <- Lengths, Slack <- 0, Longest <- 4,
                           position <- context.address, rest <- context.length,
                           running <- ~(loc = "done" /\ ~ret)

StreamIsCursor == Cursor!Spec
=============================================================================
