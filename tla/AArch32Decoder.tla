--------------------------- MODULE AArch32Decoder ---------------------------
(***************************************************************************)
(* amed_aarch32_decode_insn (source/aarch32/decoder.c) and the loop of the *)
(* examples around it.  A word is looked up, the templates of its encoding *)
(* are tried in order, node by node, and an alias may then be decoded over *)
(* the result.  The IT block lives in the context, between the calls.      *)
(***************************************************************************)
EXTENDS AArch32Operands

CONSTANTS
  Words,       \* what memory may hold at an address, by machine mode
  Lengths,     \* sizes of the caller's buffer
  OldTokens,   \* what the amed_insn holds in arguments[0].token at first
  Garbage,     \* what dst_reg holds before it is written
  Encodings,   \* rows of encodings.inc by index; 0 is the row of no instruction
  Templates,   \* rows of templates.inc by index
  MaxAstray    \* bound: bytes the model follows the loop behind its buffer

\* A buffer has a size, and memory holds words and half-words.
ASSUME BufferAssumption ==
  /\ Lengths \subseteq Nat
  /\ \A mode \in DOMAIN Words : Words[mode] \subseteq Word32
  /\ OldTokens \subseteq 0..255

\* Encodings name the templates they have and the encodings that are aliases of them: not
\* themselves, and the row of no instruction neither is nor has an alias.
ASSUME AArch32Assumption ==
  /\ 0 \in DOMAIN Encodings /\ Encodings[0].isa = "none" /\ Encodings[0].aliases = <<>>
  /\ \A e \in DOMAIN Encodings :
       /\ Encodings[e].templates \in Seq(DOMAIN Templates)
       /\ Encodings[e].aliases \in Seq(DOMAIN Encodings \ {0, e})

\* A template has as many nodes as an amed_insn has arguments, at most.
ASSUME TemplatesAssumption ==
  \A t \in DOMAIN Templates :
    LET nodes == Templates[t].arguments
    IN  /\ Len(nodes) \in 0..8 /\ DOMAIN nodes = 1..Len(nodes)
        /\ \A i \in 1..Len(nodes) : IsNode(nodes[i])

VARIABLES
  context,     \* amed_context
  itblock,     \* its aarch32.itblock
  insn,        \* the amed_insn, but for the next three
  flags,       \* its attributes
  arguments,   \* the arguments of the template that is tried
  token,       \* the low byte of arguments[0].token
  internal,    \* aarch32_internal
  loc, ret

result == <<insn, flags, arguments, token>>
vars == <<context, itblock, opcode, result, internal, loc, ret>>

A32 == 32
THUMB == 4

EQ == 1
AL == 15
NV == 16

\* What a call has not written yet is what an earlier one left.
STALE == "stale"
StaleInsn ==
  [length |-> -1, iform |-> STALE, mnemonic |-> STALE, encoding |-> -1,
   argument_count |-> -1, condition |-> -1, it_op |-> <<STALE>>, it_insn_count |-> -1]

NoBlock == [is_in |-> FALSE, index |-> 0, count |-> 0, conditions |-> <<0, 0, 0, 0>>]

BlankInternal == [encoding |-> 0, k |-> 0, alias |-> FALSE, lsb |-> 0, dst_reg |-> 0]

Init ==
  /\ context \in [machine_mode : DOMAIN Words, address : {0}, length : Lengths,
                  decode_aliases : BOOLEAN]
  /\ itblock = NoBlock
  /\ opcode = {}
  /\ insn = StaleInsn /\ flags = {} /\ arguments = <<>> /\ token \in OldTokens
  /\ internal = BlankInternal
  /\ loc = "call" /\ ret = TRUE

-----------------------------------------------------------------------------
(* Reading the word and looking it up.                                     *)

Answer(value) == loc' = "done" /\ ret' = value

\* is_thumb16, of the first half-word.
is_thumb16(word) == ~({13, 14, 15} \subseteq word) \/ word \cap {11, 12} = {}

Size(word) == IF context.machine_mode = A32 \/ ~is_thumb16(word) THEN 4 ELSE 2

\* Mutant: only an empty buffer is too short.
NeverShort(size) == context.length = 0

\* Compared as unsigned: a negative length is long enough.
TooShort(size) == context.length \in 0..size - 1

\* The half-words of a 32-bit Thumb instruction are swapped.
Fetched(word) ==
  IF context.machine_mode = A32 THEN word
  ELSE IF is_thumb16(word) THEN word \cap Low(16)
  ELSE {(b + 16) % 32 : b \in word}

InstructionSet(word) ==
  IF context.machine_mode = A32 THEN "A32" ELSE IF is_thumb16(word) THEN "T16" ELSE "T32"

\* The lookup tests the key bits of an encoding, which may be less than its mask.
Lookup(isa, code) ==
  LET found == {e \in DOMAIN Encodings : /\ Encodings[e].isa = isa
                                         /\ LET key == Encodings[e].key
                                            IN code \cap key = Encodings[e].bits \cap key}
  IN  IF found = {} THEN 0 ELSE CHOOSE e \in found : TRUE

-----------------------------------------------------------------------------
(* What the generated tables keep to.                                      *)

TemplatesOf(row) == {Templates[row.templates[k]] : k \in DOMAIN row.templates}

\* Under this row and template no word of A32 may run if its condition field is 1111: the
\* condition is checked, or there is no such field, as its bits are fixed.
NeverUnderNV(row, t) ==
  \/ t.cond \in {"MUST_AL", "MUST_NV", "NO_NV", "NO_NV_UNP_COND"}
  \/ t.cond = "UNCOND" /\ 28..31 \subseteq (row.mask \cap row.bits) \union (t.mask \cap t.bits)

\* The templates of A32 check the condition, and an alias stands where its base does.
ASSUME ConditionAssumption ==
  \A e \in DOMAIN Encodings \ {0} :
    LET row     == Encodings[e]
        aliases == {Encodings[row.aliases[i]] : i \in DOMAIN row.aliases}
    IN  /\ row.isa = "A32" =>
             \A x \in {row} \union aliases : \A t \in TemplatesOf(x) : NeverUnderNV(x, t)
        /\ \A x \in aliases : \A t \in TemplatesOf(row), u \in TemplatesOf(x) :
             t.cond = u.cond \/ {t.cond, u.cond} \cap {"UNCOND", "MUST_NV"} = {}

IsIt(row) == \E t \in TemplatesOf(row) : t.iform = "IT"

\* IT is a 16-bit instruction; it is no alias and has none; the lookup takes the words
\* without a mask for hints.
ASSUME ItAssumption ==
  /\ \A e \in DOMAIN Encodings :
       /\ IsIt(Encodings[e]) => Encodings[e].isa = "T16" /\ Encodings[e].aliases = <<>>
       /\ \A i \in DOMAIN Encodings[e].aliases : ~IsIt(Encodings[Encodings[e].aliases[i]])
  /\ THUMB \in DOMAIN Words =>
       \A word \in Words[THUMB] :
         IsIt(Encodings[Lookup("T16", word \cap Low(16))]) => word \cap Low(4) # {}

\* The rows a word of an instruction set is decoded by: those the lookup finds, the row of
\* no instruction among them, and their aliases.
RowsOf(isa) ==
  LET found == {0} \union {e \in DOMAIN Encodings : Encodings[e].isa = isa}
  IN  UNION {{Encodings[e]} \union {Encodings[Encodings[e].aliases[i]] :
                                     i \in DOMAIN Encodings[e].aliases} : e \in found}

\* An immediate that is expanded has its bits in the same place in all templates.
IsImmediate(node, type, enc) == node.type = type /\ node.table = <<>> /\ node.enc = enc

ASSUME ImmediateAssumption ==
  \A t \in DOMAIN Templates : \A i \in 1..Len(Templates[t].arguments) :
    LET node == Templates[t].arguments[i]
    IN  /\ node.symbol = "aimm" /\ node.enc # <<>> => IsImmediate(node, "IMM", Span(11, 0))
        /\ node.symbol = "timm" =>
             IsImmediate(node, "IMM", <<26>> \o Span(14, 12) \o Span(7, 0))
        /\ node.symbol = "vfpimm" =>
             IsImmediate(node, "FPIMM", Span(19, 16) \o Span(3, 0))

\* Of the vectors' immediate the highest bit is in another place in Thumb.
ASSUME VectorAssumption ==
  \A isa \in {"A32", "T16", "T32"} : \A row \in RowsOf(isa) : \A t \in TemplatesOf(row) :
    \A i \in 1..Len(t.arguments) : t.arguments[i].symbol = "advimm" =>
      IsImmediate(t.arguments[i], "IMM",
                  <<5>> \o Span(11, 8) \o <<IF isa = "A32" THEN 24 ELSE 28>>
                    \o Span(18, 16) \o Span(3, 0))

\* The offset of a branch is a field that is extended from its sign, and scaled; that of
\* ADR, where it is added, an expanded immediate.
IsOffset(node, enc, scale) ==
  /\ node.type = "LABEL" /\ node.symbol = "label" /\ "signpos" \in node.attrs
  /\ node.enc = enc /\ node.scale = scale

ASSUME OffsetAssumption ==
  /\ \A row \in RowsOf("A32") : \A t \in TemplatesOf(row) :
       /\ t.iform \in {"B", "BL"} =>
            Len(t.arguments) > 0 /\ IsOffset(t.arguments[1], Span(23, 0), 4)
       /\ t.iform = "ADRr" =>
            /\ Len(t.arguments) > 1 /\ 23 \in row.mask
            /\ 23 \in row.bits => /\ t.arguments[2].type = "ADDR"
                                  /\ t.arguments[2].symbol = "plabela"
                                  /\ t.arguments[2].enc = Span(11, 0)
  /\ \A row \in RowsOf("T16") : \A t \in TemplatesOf(row) : t.iform = "B" =>
       /\ Len(t.arguments) > 0 /\ 12..15 \subseteq row.mask
       /\ IsOffset(t.arguments[1],
                   IF row.bits \cap 12..15 = {12, 14, 15} THEN Span(7, 0) ELSE Span(10, 0), 2)

\* A shift by an amount that is encoded: of a register operand, or of a memory operand's
\* offset.
ShifterOf(node) ==
  IF node.type = "REGSH" THEN node.sub.shifter ELSE node.sub.regoff.sub.shifter

HasAmount(node) ==
  /\ \/ node.type = "REGSH"
     \/ /\ node.type \in {"LM", "MEM"} /\ Has(node, "regoff")
        /\ node.sub.regoff.type = "REGOFFSH"
  /\ Has(ShifterOf(node), "amount") /\ ~Has(ShifterOf(node), "rs")
  /\ ShifterOf(node).sub.amount.enc # <<>> /\ ShifterOf(node).sub.amount.table = <<>>

\* In A32 its amount is in the bits 11..7 and its type in 6..5, or these are fixed.
ASSUME ShiftAssumption ==
  \A row \in RowsOf("A32") : \A t \in TemplatesOf(row) :
    \A i \in {n \in 1..Len(t.arguments) : HasAmount(t.arguments[n])} :
      LET shifter == ShifterOf(t.arguments[i])
          shift   == shifter.sub.shift
      IN  /\ shifter.sub.amount.enc = Span(11, 7)
          /\ \/ shift.enc = Span(6, 5) /\ shift.table = <<>>
             \/ /\ shift.enc = Span(6, 5)
                /\ \A n \in 0..3 : n \in DOMAIN shift.table
                                   /\ shift.table[n].value = std_shift[n + 1]
             \/ /\ shift.enc = <<>> /\ {5, 6} \subseteq row.mask
                /\ shift.value = std_shift[Num(Slice(row.bits, 6, 5)) + 1]

\* A list of general registers has a bit for each of sixteen, and that of VLDM and VPOP
\* begins in the bank it is named after.
ASSUME ListAssumption ==
  \A t \in DOMAIN Templates : \A i \in 1..Len(Templates[t].arguments) :
    LET node == Templates[t].arguments[i]
        Starts(symbol) == node.sub.base.symbol = symbol /\ Len(node.sub.base.enc) = 5
    IN  /\ node.type = "GLIST"  => Len(node.enc) <= 16
        /\ node.type = "FSLIST" => Starts("SIMD32")
        /\ node.type = "FDLIST" => Starts("SIMD64")

\* The forms of 16-bit Thumb that set the flags outside an IT block, and their twins in it.
SettingForms ==
  {"ADCSr", "ADDSr", "ADDSri", "ANDSr", "ASRSr", "ASRSri", "BICSr", "EORSr", "LSLSr",
   "LSLSri", "LSRSr", "LSRSri", "MOVSr", "MOVSri", "MULSr", "MVNSr", "ORRSr", "RORSr",
   "RSBSri", "SBCSr", "SUBSr", "SUBSri"}
PlainForms ==
  {"ADCr", "ADDr", "ADDri", "ANDr", "ASRr", "ASRri", "BICr", "EORr", "LSLr", "LSLri",
   "LSRr", "LSRri", "MOVr", "MOVri", "MULr", "MVNr", "ORRr", "RORr", "RSBri", "SBCr",
   "SUBr", "SUBri"}

\* The word of such an instruction is the same in a block and outside.
DependsOnIT(row) == \E t \in TemplatesOf(row) : "init" \in t.attrs

\* Its templates say where they stand, and its aliases have conditions that do.
ASSUME FlagAssumption ==
  \A e \in {x \in DOMAIN Encodings : DependsOnIT(Encodings[x])} :
    /\ \A t \in TemplatesOf(Encodings[e]) : \/ "init" \in t.attrs /\ t.iform \in PlainForms
                                            \/ "outit" \in t.attrs /\ t.iform \in SettingForms
    /\ \A i \in DOMAIN Encodings[e].aliases :
         LET row == Encodings[Encodings[e].aliases[i]]
         IN  \/ /\ row.aliascond = "InITBlock"
                /\ \A t \in TemplatesOf(row) : t.iform \in PlainForms
             \/ /\ row.aliascond = "!InITBlock"
                /\ \A t \in TemplatesOf(row) : t.iform \in SettingForms

-----------------------------------------------------------------------------

RejectEmpty ==
  /\ loc = "call" /\ context.length = 0
  /\ Answer(FALSE)
  /\ UNCHANGED <<context, itblock, opcode, result, internal>>

\* Refused behind the first assignments; the length is 4 in either mode.
Reject ==
  /\ loc = "call" /\ context.length # 0
  /\ \/ context.machine_mode \notin {A32, THUMB}
     \/ \E word \in Words[context.machine_mode] : TooShort(Size(word))
  /\ flags' = {} /\ insn' = [StaleInsn EXCEPT !.length = 4]
  /\ Answer(FALSE)
  /\ UNCHANGED <<context, itblock, opcode, arguments, token, internal>>

Fetch ==
  /\ loc = "call" /\ context.length # 0 /\ context.machine_mode \in {A32, THUMB}
  /\ \E word \in Words[context.machine_mode], dst \in Garbage :
       /\ ~TooShort(Size(word))
       /\ opcode' = Fetched(word)
       /\ insn' = [StaleInsn EXCEPT !.length = Size(word)]
       /\ internal' = [BlankInternal EXCEPT
                          !.encoding = Lookup(InstructionSet(word), Fetched(word)),
                          !.k = 1, !.dst_reg = dst]
  /\ flags' = {}
  /\ arguments' = <<>>
  /\ loc' = "encoding"
  /\ UNCHANGED <<context, itblock, token, ret>>

-----------------------------------------------------------------------------
(* decode_encoding, decode_template, decode_nodes.                         *)

Row == Encodings[internal.encoding]
Template == Templates[Row.templates[internal.k]]

\* An encoding whose fixed bits the word does not have.
Undefined ==
  /\ loc = "encoding" /\ ~Under(opcode, Row)
  /\ flags' = flags \union {"undefined"}
  /\ Answer(FALSE)
  /\ UNCHANGED <<context, itblock, opcode, insn, arguments, token, internal>>

FirstTemplate ==
  /\ loc = "encoding" /\ Under(opcode, Row)
  /\ loc' = "template"
  /\ UNCHANGED <<context, itblock, opcode, result, internal, ret>>

\* The template is for this place: inside an IT block, or outside.
Fits(template) ==
  /\ Under(opcode, template)
  /\ "init" \in template.attrs => itblock.is_in
  /\ "outit" \in template.attrs => ~itblock.is_in

MoreTemplates == loc = "template" /\ internal.k <= Len(Row.templates)

SkipTemplate ==
  /\ MoreTemplates
  /\ "asmonly" \in Template.attrs \/ ~Fits(Template)
  /\ internal' = [internal EXCEPT !.k = @ + 1]
  /\ UNCHANGED <<context, itblock, opcode, result, loc, ret>>

\* Mutant: the slots go on where the last template failed.
EnterKeepsArguments ==
  /\ MoreTemplates
  /\ "asmonly" \notin Template.attrs /\ Fits(Template)
  /\ insn' = [insn EXCEPT !.iform = Template.iform, !.mnemonic = Template.mnemonic]
  /\ loc' = "node"
  /\ UNCHANGED <<context, itblock, opcode, flags, arguments, token, internal, ret>>

EnterTemplate ==
  /\ MoreTemplates
  /\ "asmonly" \notin Template.attrs /\ Fits(Template)
  /\ insn' = [insn EXCEPT !.iform = Template.iform, !.mnemonic = Template.mnemonic]
  /\ arguments' = <<>>
  /\ loc' = "node"
  /\ UNCHANGED <<context, itblock, opcode, flags, token, internal, ret>>

\* No template is left.  An alias that fails leaves the base instruction accepted, but
\* with what its templates wrote.
NoTemplate ==
  /\ loc = "template" /\ internal.k > Len(Row.templates)
  /\ Answer(internal.alias)
  /\ UNCHANGED <<context, itblock, opcode, result, internal>>

Slot == Len(arguments) + 1

Decoded ==
  decode_node(Fresh(internal, insn.mnemonic, IF Slot = 1 THEN token ELSE 0, flags),
              Template.arguments[Slot])

\* What the handler of a node wrote stays written, whatever it answers.
Written(w) ==
  /\ flags' = w.flags
  /\ arguments' = Append(arguments, w.arg)
  /\ token' = IF Slot = 1 THEN w.arg.token % 256 ELSE token

DecodeNode ==
  /\ loc = "node" /\ Slot <= Len(Template.arguments)
  /\ \E w \in {Decoded} :
       /\ w.ok
       /\ Written(w)
       /\ internal' = [internal EXCEPT !.lsb = w.lsb, !.dst_reg = w.dst_reg]
  /\ UNCHANGED <<context, itblock, opcode, insn, loc, ret>>

\* The template is given up; the next one is tried on top of it.
RefuseNode ==
  /\ loc = "node" /\ Slot <= Len(Template.arguments)
  /\ \E w \in {Decoded} :
       /\ ~w.ok
       /\ Written(w)
       /\ internal' = [internal EXCEPT !.k = @ + 1, !.lsb = w.lsb, !.dst_reg = w.dst_reg]
  /\ loc' = "template"
  /\ UNCHANGED <<context, itblock, opcode, insn, ret>>

-----------------------------------------------------------------------------
(* The condition, and the rest of an accepted template.                    *)

\* Mutant: NV is a condition like any other.
AnyCondition(status, condition) ==
  [ok |-> CASE status = "MUST_AL" -> condition = AL
            [] status = "MUST_COND" -> condition # AL
            [] OTHER -> TRUE,
   unpredictable |-> status \in {"UNP_COND", "NO_NV_UNP_COND"} /\ condition < AL,
   condition |-> IF status = "UNCOND" THEN AL ELSE condition]

\* decode_conditional_execution: the condition that counts, and whether it may stand.
decode_conditional_execution(status, condition) ==
  [ok |-> CASE status = "MUST_AL"   -> condition = AL
            [] status = "MUST_COND" -> condition # AL
            [] status = "MUST_NV"   -> condition = NV
            [] status \in {"NO_NV", "NO_NV_UNP_COND"} -> condition # NV
            [] OTHER -> TRUE,
   unpredictable |-> status \in {"UNP_COND", "NO_NV_UNP_COND"} /\ condition < AL,
   condition |-> IF status = "UNCOND" \/ (status = "MUST_NV" /\ condition = NV) THEN AL
                 ELSE condition]

\* Mutant: an alias keeps the operand count of its base.
BaseCount == IF internal.alias THEN insn.argument_count ELSE Len(arguments)

ArgumentCount == Len(arguments)

\* Mutant: an alias starts over.
FlagsAfresh(raised) == raised \union Only(internal.alias, {"is_alias"})

\* Flags are added to what the nodes, failed templates and the base left.
AcceptedFlags(raised) ==
  (flags \ {"conditional"}) \union raised
    \union Only("branch" \in Row.attrs, {"may_branch"}) \union Only(internal.alias, {"is_alias"})

\* The part every accepted template comes to.
Accept(fields, raised) ==
  /\ insn' = [fields EXCEPT !.encoding = internal.encoding, !.argument_count = ArgumentCount]
  /\ flags' = AcceptedFlags(raised)
  /\ IF /\ ~internal.alias /\ context.decode_aliases /\ Row.aliases # <<>>
        /\ flags' \cap {"undefined", "unpredictable"} = {}
     THEN loc' = "alias" /\ UNCHANGED ret
     ELSE Answer(TRUE)
  /\ UNCHANGED <<context, opcode, arguments, token, internal>>

Complete == loc = "node" /\ Slot > Len(Template.arguments)

UnderCondition(condition) ==
  LET c == decode_conditional_execution(Template.cond, condition)
  IN  Accept([insn EXCEPT !.condition = c.condition],
             Only(~c.ok, {"undefined"}) \union Only(c.unpredictable, {"unpredictable"})
               \union Only(c.condition < AL, {"conditional"}))

\* The condition field, as if every word had one.
ArmCondition ==
  /\ Complete /\ context.machine_mode = A32
  /\ UnderCondition(EQ + Num(Slice(opcode, 31, 28)))
  /\ UNCHANGED itblock

\* Mutant: a block is over behind its first instruction.
BlockOfOne ==
  /\ Complete /\ context.machine_mode = THUMB /\ Template.iform # "IT"
  /\ UnderCondition(IF itblock.is_in THEN itblock.conditions[itblock.index + 1] ELSE AL)
  /\ itblock' = [itblock EXCEPT !.is_in = FALSE]

\* Thumb instructions have the condition of the block at its index.
ThumbCondition ==
  /\ Complete /\ context.machine_mode = THUMB /\ Template.iform # "IT"
  /\ UnderCondition(IF itblock.is_in THEN itblock.conditions[itblock.index + 1] ELSE AL)
  /\ UNCHANGED itblock

\* Mutant: a set bit is a Then.
ItOpSwapped(mask) ==
  LET last == CHOOSE b \in mask : \A x \in mask : b <= x
  IN  IF mask = {} THEN <<>> ELSE [i \in 1..3 - last |-> IF 4 - i \in mask THEN "T" ELSE "E"]

\* get_it_op_from_mask: the letters behind IT, Then or Else for a clear or a set bit.
get_it_op_from_mask(mask) ==
  LET last == CHOOSE b \in mask : \A x \in mask : b <= x
  IN  IF mask = {} THEN <<>> ELSE [i \in 1..3 - last |-> IF 4 - i \in mask THEN "E" ELSE "T"]

\* value ^ 1
Flipped(value) == IF value % 2 = 0 THEN value + 1 ELSE value - 1

ItCount(mask) == IF mask = {} THEN 0 ELSE 4 - (CHOOSE b \in mask : \A x \in mask : b <= x)

\* decode_it.  The first condition is read from a token the decoding of IT has not
\* written, and inverted by its lowest bit, where the enumeration starts at EQ = 1.
\* A second IT in a block is unpredictable, but opens its own.
ItInstruction ==
  /\ Complete /\ context.machine_mode = THUMB /\ Template.iform = "IT"
  /\ LET mask  == opcode \cap Low(4)
         count == ItCount(mask)
         Condition(i) == IF 5 - i \in mask THEN Flipped(token) ELSE token
     IN  /\ itblock' = [is_in |-> TRUE, index |-> 0, count |-> count,
                        conditions |-> [i \in 1..4 |-> IF i = 1 THEN token
                                                       ELSE IF i <= count THEN Condition(i)
                                                       ELSE AL]]
         /\ Accept([insn EXCEPT !.condition = IF itblock.is_in THEN 0 ELSE AL,
                                !.it_op = get_it_op_from_mask(mask),
                                !.it_insn_count = count],
                   Only(itblock.is_in, {"unpredictable"}))

-----------------------------------------------------------------------------
(* Aliases.                                                                *)

\* include/aliasconds.inc.  The list of BitCount is the register list as it stands.
AliasConditionOk(name) ==
  CASE name = "Unconditionally" -> TRUE
    [] name = "InITBlock"       -> itblock.is_in
    [] name = "!InITBlock"      -> ~itblock.is_in
    [] name = "BitCount(list) > 1" -> get_bit_count(opcode \cap Low(16)) > 1
    [] name = "N:Vn = M:Vm" -> /\ 7 \in opcode <=> 5 \in opcode
                               /\ Slice(opcode, 19, 16) = Slice(opcode, 3, 0)
    [] OTHER -> FALSE

\* The first alias whose bits and condition the word meets, or 0.
FirstAlias(row) ==
  LET taken == {i \in DOMAIN row.aliases : /\ Under(opcode, Encodings[row.aliases[i]])
                                           /\ AliasConditionOk(Encodings[row.aliases[i]].aliascond)}
  IN  IF taken = {} THEN 0 ELSE row.aliases[CHOOSE i \in taken : \A j \in taken : i <= j]

NoAlias ==
  /\ loc = "alias" /\ FirstAlias(Row) = 0
  /\ Answer(TRUE)
  /\ UNCHANGED <<context, itblock, opcode, result, internal>>

TakeAlias ==
  /\ loc = "alias" /\ FirstAlias(Row) # 0
  /\ internal' = [internal EXCEPT !.encoding = FirstAlias(Row), !.k = 1, !.alias = TRUE]
  /\ loc' = "encoding"
  /\ UNCHANGED <<context, itblock, opcode, result, ret>>

DecodeInsn ==
  \/ RejectEmpty \/ Reject \/ Fetch
  \/ Undefined \/ FirstTemplate \/ SkipTemplate \/ EnterTemplate \/ NoTemplate
  \/ DecodeNode \/ RefuseNode \/ ArmCondition \/ ThumbCondition \/ ItInstruction
  \/ NoAlias \/ TakeAlias

-----------------------------------------------------------------------------
(* The caller's loop (examples/example1.c): one context, one amed_insn.    *)

\* Mutant: the length that is left is forgotten.
AddressOnly(n) == [context EXCEPT !.address = @ + n]

Advanced(n) == [context EXCEPT !.address = @ + n, !.length = @ - n]

NextInsn ==
  /\ loc = "done" /\ ret /\ context.length >= -MaxAstray
  /\ context' = Advanced(insn.length)
  /\ insn' = StaleInsn /\ flags' = {} /\ arguments' = <<>>
  /\ opcode' = {} /\ internal' = BlankInternal
  /\ loc' = "call"
  /\ UNCHANGED <<itblock, token, ret>>

\* The loop has ended, or the model follows it no further.
HasEnded == loc = "done" /\ (ret => context.length < -MaxAstray)

Ended == HasEnded /\ UNCHANGED vars

Loop == DecodeInsn \/ NextInsn

Next == Loop \/ Ended

\* WF_vars(Loop), with ~HasEnded for its ENABLED, which TLC finds hard to evaluate: that
\* Loop can go on until HasEnded is what the search for deadlocks shows.
Fairness == []<>HasEnded \/ []<><<Loop>>_vars

\* Decoder and loop are one sequential program.
Spec == Init /\ [][Next]_vars /\ Fairness
=============================================================================
