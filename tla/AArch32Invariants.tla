------------------------- MODULE AArch32Invariants -------------------------
(***************************************************************************)
(* The inductive invariant behind the properties of AArch32Properties:     *)
(* what each place of the decoder may rely on, and what a handler of an    *)
(* operand makes of the record it is given.  AArch32OperandProofs.tla and  *)
(* AArch32Proofs.tla prove it.                                             *)
(***************************************************************************)
EXTENDS AArch32History

-----------------------------------------------------------------------------
(* The record an operand is decoded on.                                    *)

WorkFields == {"ok", "flags", "mnemonic", "lsb", "dst_reg", "arg"}

ArgumentFields ==
  {"type", "attrs", "reg", "index", "imm", "list", "base", "regoff", "immoff", "shift",
   "amount", "rs", "token"}

IsWork(w) ==
  /\ DOMAIN w = WorkFields /\ DOMAIN w.arg = ArgumentFields
  /\ w.ok \in BOOLEAN /\ w.flags \subseteq FlagNames
  /\ w.arg.reg \in Int /\ w.arg.token \in Int

\* The flags an operand may raise: nothing is undefined, an alias or conditional by it.
OperandFlags ==
  {"deprecated", "unpredictable", "vector", "atomic", "acquiring", "releasing",
   "destructive", "may_branch", "may_load", "may_store"}

\* A handler keeps the record in shape, takes back no flag, and raises those of operands.
Builds(w, v) ==
  IsWork(v) /\ w.flags \subseteq v.flags /\ v.flags \subseteq w.flags \union OperandFlags

-----------------------------------------------------------------------------
(* Shapes.                                                                 *)

InsnFields ==
  {"length", "iform", "mnemonic", "encoding", "argument_count", "condition", "it_op",
   "it_insn_count"}

InternalFields == {"encoding", "k", "alias", "lsb", "dst_reg"}

\* Places at which a word is being decoded.
Decoding == loc \in {"encoding", "template", "node", "alias"}

Shapes ==
  /\ context \in [machine_mode : DOMAIN Words, address : Nat, length : Nat,
                  decode_aliases : BOOLEAN]
  /\ itblock \in [is_in : BOOLEAN, index : {0}, count : 0..4, conditions : [1..4 -> 0..255]]
  /\ DOMAIN insn = InsnFields /\ DOMAIN internal = InternalFields
  /\ internal.encoding \in DOMAIN Encodings /\ internal.alias \in BOOLEAN
  /\ internal.k \in 0..Len(Row.templates) + 1
  /\ opcode \subseteq Low(32) /\ flags \subseteq FlagNames /\ token \in 0..255
  /\ IsSequence(arguments) /\ Len(arguments) <= 8
  /\ loc \in {"call", "encoding", "template", "node", "alias", "done"} /\ ret \in BOOLEAN

\* What holds at a place because of the way that leads there.
Places ==
  /\ loc # "done" => ret
  /\ loc = "call" => ~internal.alias
  /\ Decoding => internal.k >= 1
  /\ Decoding /\ loc # "encoding" => Under(opcode, Row)
  /\ loc = "node" => /\ internal.k <= Len(Row.templates) /\ Under(opcode, Template)
                    /\ Len(arguments) <= Len(Template.arguments)

\* The word was read from the buffer.
Read ==
  Decoding \/ Returned =>
    /\ context.machine_mode \in {A32, THUMB}
    /\ insn.length \in {2, 4} /\ insn.length <= context.length
    /\ InA32 => insn.length = 4

BaseRow == Encodings[BaseEncoding]

\* The row that is decoded is the one the lookup found, or one of its aliases.
RowIsFound ==
  Decoding \/ Returned =>
    /\ ~internal.alias => internal.encoding = BaseEncoding
    /\ internal.alias => \E i \in DOMAIN BaseRow.aliases : internal.encoding = BaseRow.aliases[i]
    /\ loc = "alias" => ~internal.alias

-----------------------------------------------------------------------------
(* The instruction.                                                        *)

\* What PcWriteBranches says, of one argument.
PcShows(argument, raised) ==
  argument.type = "REGISTER" /\ argument.reg = PC
    /\ argument.attrs \cap {"write", "write_back"} # {} => "may_branch" \in raised

\* The template that is tried shows, as far as its nodes are decoded.
TemplateShows ==
  /\ insn.iform = Template.iform /\ insn.mnemonic = Template.mnemonic
  /\ \A i \in 1..Len(arguments) :
       /\ arguments[i].type = ArgumentOf(Template.arguments[i].type)
       /\ PcShows(arguments[i], flags)

Showing ==
  /\ loc = "node" => TemplateShows
  /\ loc = "alias" \/ TemplateAccepted =>
       /\ internal.k \in 1..Len(Row.templates) /\ Under(opcode, Row) /\ Under(opcode, Template)
       /\ TemplateShows
       /\ insn.encoding = internal.encoding
       /\ insn.argument_count = Len(arguments) /\ Len(arguments) = Len(Template.arguments)
       /\ "is_alias" \in flags <=> internal.alias
  /\ Decoding /\ loc # "alias" => "is_alias" \notin flags

\* The base instruction has been accepted and may be an alias of another one.
BaseStands == loc = "alias" \/ (Decoding /\ internal.alias)

\* The condition the word has, by its field or by its place in a block.
WordCondition ==
  IF InA32 THEN EQ + Num(Slice(opcode, 31, 28))
  ELSE IF itblock.is_in THEN itblock.conditions[itblock.index + 1] ELSE AL

\* What ConditionIsEncoded says, of a call that has not returned yet.
ConditionShows ==
  InA32 /\ "undefined" \notin flags /\ insn.encoding # 0 =>
    LET field == UInt(Field(opcode, 31, 28))
    IN  /\ insn.condition = IF field = 15 THEN AL ELSE field + 1
        /\ "conditional" \in flags <=> insn.condition < AL

\* The base instruction has the condition one of its templates gives the word.
BaseCondition ==
  \E t \in TemplatesOf(BaseRow) :
    insn.condition = decode_conditional_execution(t.cond, WordCondition).condition

Conditions ==
  /\ BaseStands \/ Returned => ConditionShows
  /\ BaseStands => BaseCondition

\* An IT has a mask, and no word under way is one but in the row of IT.
ItWords ==
  /\ Decoding /\ ~InA32 /\ ~internal.alias /\ IsIt(Row) => opcode \cap Low(4) # {}
  /\ BaseStands => insn.iform # "IT"
  /\ Returned => ItBlockMatchesMask

-----------------------------------------------------------------------------
(* The values of operands.                                                 *)

\* Nodes that show what their field stands for.
IsExpanded(node) ==
  \/ /\ node.type \in {"IMM", "FPIMM"} /\ node.enc # <<>> /\ node.table = <<>>
     /\ node.symbol \in {"aimm", "timm", "advimm", "vfpimm"}
  \/ node.type \in {"LABEL", "ADDR"} /\ node.symbol = "plabela"
  \/ /\ node.type \in {"LABEL", "ADDR"} /\ node.symbol = "label"
     /\ "signpos" \in node.attrs /\ node.scale # 0

Expansion(word, node) ==
  LET raw == ReadEncodedin(word, node.enc)
  IN  CASE node.symbol \in {"aimm", "plabela"} -> decode_a32_imm(raw)
        [] node.symbol = "timm"   -> decode_t32_imm(raw)
        [] node.symbol = "advimm" -> decode_advsimd_imm(raw)
        [] node.symbol = "vfpimm" -> Word32Of(decode_vfp_imm(Num(raw)).imm)
        [] OTHER -> Scaled(sign_extend64(raw, Len(node.enc) - 1), node.scale)

\* The type of a shift, and the amount, that zero stands for something else.
ShiftType(word, shift) ==
  LET code == Num(ReadEncodedin(word, shift.enc))
  IN  CASE shift.enc = <<>> -> shift.value
        [] shift.enc # <<>> /\ shift.table = <<>> -> std_shift[code + 1]
        [] OTHER -> shift.table[code].value

ShiftShown(word, shifter) ==
  LET type   == ShiftType(word, shifter.sub.shift)
      amount == Num(ReadEncodedin(word, shifter.sub.amount.enc))
  IN  IF amount # 0 THEN <<type, amount>>
      ELSE CASE type \in {"ASR", "LSR"} -> <<type, 32>>
             [] type = "ROR" -> <<"RRX", 0>>
             [] OTHER -> <<type, 0>>

\* What an argument says of the word.
Means(argument, word, node) ==
  /\ IsExpanded(node) => argument.imm = Expansion(word, node)
  /\ HasAmount(node) =>
       <<argument.shift, argument.amount>> = ShiftShown(word, ShifterOf(node))
  /\ node.type \in {"GLIST", "SLIST", "FSLIST", "FDLIST"} => StaysInBank(argument.list)

\* So do all that are decoded.
TemplateMeans ==
  \A i \in 1..Len(arguments) : Means(arguments[i], opcode, Template.arguments[i])

Meaning == loc \in {"node", "alias"} \/ TemplateAccepted => TemplateMeans

\* An instruction that depends on the block it is in shows the form for it from its first
\* template on, and an alias of it has a condition that holds.
FormDue ==
  /\ Decoding \/ Returned
  /\ ~InA32 /\ DependsOnIT(BaseRow)
  /\ loc \in {"node", "alias", "done"} \/ internal.alias

FormShows ==
  /\ insn.iform \in SettingForms \union PlainForms
  /\ insn.iform \in PlainForms <=> itblock.is_in

Forms ==
  /\ Decoding /\ internal.alias => AliasConditionOk(Row.aliascond)
  /\ FormDue => FormShows

IInv ==
  Shapes /\ Places /\ Read /\ RowIsFound /\ Showing /\ Conditions /\ ItWords /\ Meaning /\ Forms

\* What the decoder's own itblock says of the past: is_in is there from the IT on, and for good.
HistoryInv ==
  /\ left \in Nat
  /\ left > 0 => met
  /\ met => itblock.is_in
  /\ itblock.is_in => met \/ (Returned /\ ~InA32 /\ insn.iform = "IT")
=============================================================================
