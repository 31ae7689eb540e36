------------------------- MODULE AArch64Invariants -------------------------
(***************************************************************************)
(* The inductive invariant behind the properties of AArch64Properties:     *)
(* when a node fits a word, what a handler makes of the record it is       *)
(* given, and what each place of the decoder may rely on.                  *)
(* AArch64OperandProofs.tla and AArch64Proofs.tla prove it.                *)
(***************************************************************************)
EXTENDS AArch64Properties

-----------------------------------------------------------------------------
(* The record an operand is decoded on.                                    *)

WorkFields ==
  {"ok", "flags", "mnemonic", "datasize", "lsb", "dst_reg", "has_reg", "arg"}

ArgumentFields ==
  {"type", "attrs", "reg", "index", "imm", "list", "base", "regoff", "immoff", "shift",
   "amount", "rs", "token"}

IsWork(w) ==
  /\ DOMAIN w = WorkFields /\ DOMAIN w.arg = ArgumentFields
  /\ w.ok \in BOOLEAN /\ w.flags \subseteq FlagNames

\* The flags an operand may raise.
OperandFlags ==
  {"unpredictable", "destructive", "vector", "predicated", "may_load", "may_store"}

\* A handler keeps the record in shape, takes back no flag, and raises those of operands.
Builds(w, v) ==
  IsWork(v) /\ w.flags \subseteq v.flags /\ v.flags \subseteq w.flags \union OperandFlags

-----------------------------------------------------------------------------
(* A word that fits a node: whatever a part of the node reads has a row in *)
(* its table.  Neither what was decoded before nor the rest of the word    *)
(* counts.                                                                 *)

FieldOf(word, node) == Num(ReadEncodedin(word, node.enc))

\* The part has a value, reads one, or finds one in its table.
Finds(word, node) ==
  node.enc = <<>> \/ node.table = <<>> \/ FieldOf(word, node) \in DOMAIN node.table

ShifterFits(word, node) ==
  IF node.enc # <<>> THEN FieldOf(word, node) \in DOMAIN node.table
  ELSE /\ Finds(word, node.sub.shift)
       /\ Has(node, "amount") => Finds(word, node.sub.amount)

PartFits(word, node) ==
  /\ node.type \in {"BASE", "REGOFF", "EBASE", "VBASE", "VREGOFF", "REGOFFSH", "VREGOFFSH",
                    "IMMOFF", "IMMOFFSH"}
  /\ node.type = "EBASE" => Finds(word, node.sub.idx)
  /\ node.type \in {"REGOFFSH", "VREGOFFSH", "IMMOFFSH"} => ShifterFits(word, node.sub.shifter)

NodeTypes ==
  DOMAIN EnumTypes \union
  {"SYSREG", "REG", "REGSH", "VREG", "EREG", "PREG", "VLIST", "ELIST", "PATTERNSH", "IMM",
   "FPIMM", "IMMSH", "LABEL", "ADDR", "MEM"}

NodeFits(word, node) ==
  /\ node.type \in NodeTypes
  /\ node.type \in DOMAIN EnumTypes \ {"INVCOND"} => Finds(word, node)
  /\ node.type = "EREG" => Finds(word, node.sub.idx)
  /\ node.type = "PATTERNSH" => Finds(word, node.sub.pattern)
  /\ node.type \in {"REGSH", "IMMSH", "PATTERNSH"} => ShifterFits(word, node.sub.shifter)
  /\ node.type \in {"VLIST", "ELIST", "MEM"} => PartFits(word, node.sub.base)
  /\ node.type = "MEM" /\ Has(node, "regoff") => PartFits(word, node.sub.regoff)

\* A template is refused for its own bits or for one of its nodes.
Refuses(word, template) ==
  \/ "asmonly" \in template.attrs \/ ~Under(word, template)
  \/ \E i \in 1..Len(template.arguments) : ~NodeFits(word, template.arguments[i])

-----------------------------------------------------------------------------
(* Shapes.                                                                 *)

InsnFields == {"length", "iform", "mnemonic", "encoding", "argument_count", "condition"}

InternalFields == {"encoding", "base", "k", "alias", "lsb", "dst_reg", "has_reg"}

\* Places at which a word is being decoded.
Decoding == loc \in {"encoding", "template", "node", "alias"}

Shapes ==
  /\ context \in [address : Nat, length : Int, decode_aliases : BOOLEAN]
  /\ DOMAIN insn = InsnFields /\ DOMAIN internal = InternalFields
  /\ internal.encoding \in DOMAIN Encodings /\ internal.base \in DOMAIN Encodings
  /\ internal.alias \in BOOLEAN /\ internal.k \in 0..Len(Row.templates) + 1
  /\ opcode \subseteq Low(32) /\ flags \subseteq FlagNames
  /\ IsSequence(arguments) /\ Len(arguments) <= 8
  /\ loc \in {"call", "encoding", "template", "node", "alias", "done"} /\ ret \in BOOLEAN

\* What holds at a place because of the way that leads there.
Places ==
  /\ loc # "done" => ret
  /\ Decoding => internal.k >= 1
  /\ Decoding /\ loc # "encoding" => Under(opcode, Row)
  /\ loc = "node" => /\ internal.k <= Len(Row.templates) /\ ~Skipped(Template)
                    /\ Len(arguments) <= Len(Template.arguments)
  /\ Decoding \/ Returned => insn.length = 4 /\ context.length # 0

\* An encoding has been decoded.
Tried == loc = "alias" \/ Returned

\* The row that is decoded is the one the lookup found, or another as an alias of it.
RowIsFound ==
  /\ loc \in {"call", "alias"} => ~internal.alias
  /\ Decoding \/ Returned =>
       /\ internal.alias <=> internal.encoding # internal.base
       /\ internal.encoding = 0 => opcode \cap 24..31 # BCond
  /\ Tried => Under(opcode, Row)

-----------------------------------------------------------------------------
(* The templates.                                                          *)

Refused(k) == Refuses(opcode, Templates[Row.templates[k]])

\* The templates before the one that is tried were refused, and the nodes before the one
\* that is tried fit; when an encoding has been decoded no template is left or the last
\* one fits.
Fitting ==
  /\ Decoding => \A k \in 1..internal.k - 1 : Refused(k)
  /\ loc = "node" => \A i \in 1..Len(arguments) : NodeFits(opcode, Template.arguments[i])
  /\ Tried => /\ internal.k >= 1
              /\ \A k \in 1..Len(Row.templates) :
                   k <= internal.k => (Refused(k) <=> k < internal.k)

-----------------------------------------------------------------------------
(* The instruction.                                                        *)

\* A template has been accepted, the last one that was tried.
Fitted == Tried /\ internal.k <= Len(Row.templates)

\* A condition with its lowest bit inverted.
Inverted(field) == (field \ {0}) \union ({0} \ field)

\* The register a node encodes, the one behind it for the second of a pair or for SP, and
\* whether the node asks for a pair that it neither begins nor ends.
Encodes(word, node) == decode_register_value(ReadEncodedin(word, node.enc), node.symbol)

NextTo(node, first) == IF "pair" \in node.attrs /\ first \notin BankEnds THEN 1 ELSE 0

StackPointer(word, node) ==
  IF "sp" \in node.attrs /\ ReadEncodedin(word, node.enc) = Low(5) THEN 1 ELSE 0

IsEncoded(node) == node.type = "REG" /\ node.enc # <<>>

BreaksPair(word, node) ==
  \/ "pair" \in node.attrs /\ Encodes(word, node) \in BankEnds
  \/ "pair" \notin node.attrs /\ "even" \in node.attrs /\ 0 \in ReadEncodedin(word, node.enc)

\* A slot shows the node it was filled from, and the flags that were raised tell of it.
Shows(argument, raised, word, node) ==
  /\ argument.type = ArgumentOf(node.type)
  /\ argument.type = "LIST" => ListFollows(argument.list)
  /\ node.type = "INVCOND" => argument.token = Num(Inverted(ReadEncodedin(word, node.enc))) + 1
  /\ IsEncoded(node) =>
       LET first == Encodes(word, node)
       IN  argument.reg = first + NextTo(node, first) + StackPointer(word, node)
  /\ IsEncoded(node) /\ BreaksPair(word, node) => "unpredictable" \in raised

TemplateShows ==
  /\ insn.iform = Template.iform /\ insn.mnemonic = Template.mnemonic
  /\ \A i \in 1..Len(arguments) : Shows(arguments[i], flags, opcode, Template.arguments[i])

Showing ==
  /\ loc = "node" => TemplateShows
  /\ Fitted => /\ internal.k >= 1 /\ TemplateShows
               /\ insn.encoding = internal.encoding /\ insn.argument_count = Len(arguments)
               /\ Len(arguments) = Len(Template.arguments)
  /\ Tried => ("is_alias" \in flags <=> internal.alias)
  /\ Decoding /\ loc # "alias" => "is_alias" \notin flags

\* What ConditionsAreEncoded says of the condition, and of its flag.
CondField == Num(Slice(opcode, 3, 0)) + 1

Conditions ==
  /\ Decoding \/ Returned =>
       ("conditional" \in flags => opcode \cap 24..31 = BCond /\ CondField < AL)
  /\ loc = "node" \/ Fitted =>
       /\ insn.condition = IF opcode \cap 24..31 = BCond THEN CondField ELSE AL
       /\ opcode \cap 24..31 = BCond /\ CondField < AL => "conditional" \in flags

-----------------------------------------------------------------------------
(* Immediates.                                                             *)

\* A node that is an offset, a logical or a wide immediate.
IsExpanded(node) ==
  /\ node.type \in {"IMM", "LABEL", "ADDR"} /\ node.enc # <<>> /\ node.table = <<>>
  /\ \/ node.symbol \in {"aimm"} \union Wide
     \/ node.symbol = "other" /\ "signpos" \in node.attrs

\* What its field stands for in an encoding of this size.
Expansion(word, datasize, node) ==
  LET raw == ReadEncodedin(word, node.enc)
      extended == sign_extend64(raw, Len(node.enc) - 1)
  IN  CASE node.symbol = "aimm" -> decode_logimm(raw, datasize).imm
        [] node.symbol \in Wide ->
             decode_wide_imm_alias(raw, datasize, node.symbol = "WideImmInverted")
        [] OTHER -> IF node.scale = 0 THEN extended ELSE Scaled(extended, node.scale)

Expands(argument, word, datasize, node) ==
  IsExpanded(node) => argument.imm = Expansion(word, datasize, node)

\* The slots of such nodes hold it.
Expanding ==
  loc = "node" \/ Fitted =>
    \A i \in 1..Len(arguments) :
      Expands(arguments[i], opcode, Row.datasize, Template.arguments[i])

\* The lsb and the width of a bit field.  The width is taken from the lsb that was decoded
\* before it, in the slot ahead.
IsPart(node, symbol) ==
  node.type = "IMM" /\ node.symbol = symbol /\ node.enc # <<>> /\ node.table = <<>>

IsPlain(node) == IsPart(node, "other") /\ "signpos" \notin node.attrs /\ node.scale = 0

LsbOf(node)        == decode_imm_lsb(insn.mnemonic, FieldOf(opcode, node), Row.datasize)
WidthOf(node, lsb) == decode_imm_width(insn.mnemonic, FieldOf(opcode, node), lsb)

ShowsBitfield(i) ==
  LET node == Template.arguments[i]
  IN  /\ IsPlain(node) => arguments[i].imm = ReadEncodedin(opcode, node.enc)
      /\ IsPart(node, "lsb") => arguments[i].imm = Word32Of(LsbOf(node))
      /\ i > 1 /\ IsPart(Template.arguments[i - 1], "lsb") /\ IsPart(node, "width") =>
           arguments[i].imm = Word32Of(WidthOf(node, LsbOf(Template.arguments[i - 1])))

LsbIsKept(i) ==
  IsPart(Template.arguments[i], "lsb") => internal.lsb = LsbOf(Template.arguments[i])

Bitfields ==
  /\ loc = "node" \/ Fitted => \A i \in 1..Len(arguments) : ShowsBitfield(i)
  /\ loc = "node" => \A i \in 1..Len(arguments) : i = Len(arguments) => LsbIsKept(i)

\* A row that the lookup did not find is decoded only where its condition holds.
Preferred ==
  Decoding \/ Returned =>
    \/ internal.encoding = 0 \/ Row.isa = "A64" \/ is_alias_condition_ok(Row.aliascond)

IInv ==
  /\ Shapes /\ Places /\ RowIsFound /\ Fitting /\ Showing /\ Conditions /\ Expanding
  /\ Bitfields /\ Preferred
=============================================================================
