--------------------------- MODULE AArch64Decoder ---------------------------
(***************************************************************************)
(* amed_aarch64_decode_insn (source/aarch64/decoder.c) and the loop of the *)
(* examples around it.  A word is looked up, the templates of its encoding *)
(* are tried in order, node by node, and an alias may then be decoded over *)
(* the result.  That no template fits is not an error.                     *)
(***************************************************************************)
EXTENDS AArch64Operands

CONSTANTS
  Words,       \* what memory may hold at an address
  Lengths,     \* sizes of the caller's buffer
  Encodings,   \* rows of encodings.inc by index; 0 is the row of no instruction
  Templates,   \* rows of templates.inc by index
  MaxAstray    \* bound: bytes the model follows the loop behind its buffer

\* Memory holds words of 32 bits.
ASSUME BufferAssumption == Lengths \subseteq Nat /\ Words \subseteq Word32

\* Encodings name the templates they have and the encodings that are aliases of them: not
\* themselves, nor the row of no instruction.
ASSUME AArch64Assumption ==
  /\ 0 \in DOMAIN Encodings
  /\ \A e \in DOMAIN Encodings :
       /\ Encodings[e].templates \in Seq(DOMAIN Templates)
       /\ Encodings[e].aliases \in Seq(DOMAIN Encodings \ {0, e})

\* A template has as many nodes as an amed_insn has arguments, at most.
ASSUME TemplatesAssumption ==
  \A t \in DOMAIN Templates :
    LET nodes == Templates[t].arguments
    IN  /\ Len(nodes) \in 0..8 /\ DOMAIN nodes = 1..Len(nodes)
        /\ \A i \in 1..Len(nodes) : IsNode(nodes[i])

\* CASP, with its orderings, compares one pair of registers and stores another.
CASP == {"CASPrm", "CASPArm", "CASPLrm", "CASPALrm"}

ASSUME PairAssumption ==
  \A t \in DOMAIN Templates : Templates[t].iform \in CASP =>
    LET nodes == Templates[t].arguments
    IN  Len(nodes) >= 4 /\ AreHalves(nodes[1], nodes[2]) /\ AreHalves(nodes[3], nodes[4])

VARIABLES
  context,     \* amed_context
  insn,        \* the amed_insn, but for the next two
  flags,       \* its attributes
  arguments,   \* the arguments of the template that is tried
  internal,    \* aarch64_internal
  loc, ret

result == <<insn, flags, arguments>>
vars == <<context, opcode, result, internal, loc, ret>>

AL == 15

\* What a call has not written yet is what an earlier one left.
STALE == "stale"
StaleInsn ==
  [length |-> -1, iform |-> STALE, mnemonic |-> STALE, encoding |-> -1,
   argument_count |-> -1, condition |-> -1]

\* k is the template that is tried, base the encoding found before any alias.
BlankInternal ==
  [encoding |-> 0, base |-> 0, k |-> 0, alias |-> FALSE, lsb |-> 0, dst_reg |-> 0,
   has_reg |-> FALSE]

Init ==
  /\ context \in [address : {0}, length : Lengths, decode_aliases : BOOLEAN]
  /\ opcode = {}
  /\ insn = StaleInsn /\ flags = {} /\ arguments = <<>>
  /\ internal = BlankInternal
  /\ loc = "call" /\ ret = TRUE

-----------------------------------------------------------------------------
(* Reading the word and looking it up.                                     *)

Answer(value) == loc' = "done" /\ ret' = value

\* The lookup tests the key bits of an encoding, which may be less than its mask.
Lookup(code) ==
  LET found == {e \in DOMAIN Encodings \ {0} :
                  /\ Encodings[e].isa = "A64"
                  /\ LET key == Encodings[e].key
                     IN code \cap key = Encodings[e].bits \cap key}
  IN  IF found = {} THEN 0 ELSE CHOOSE e \in found : TRUE

\* The bits 24..31 of B.cond.
BCond == {26, 28, 30}
TemplatesOf(row) == {Templates[row.templates[k]] : k \in DOMAIN row.templates}

\* Only the encoding of B.cond has a condition, and it has the words with these bits to
\* itself; the last node of CINC and CSET is their inverted condition.
ASSUME ConditionAssumption ==
  /\ \A e \in DOMAIN Encodings :
       LET row == Encodings[e]
       IN  \A t \in TemplatesOf(row) :
             IF t.cond = "COND"
             THEN e # 0 /\ 24..31 \subseteq row.mask /\ row.bits \cap 24..31 = BCond
             ELSE e = 0 \/ \E b \in row.mask \cap 24..31 : (b \in row.bits) # (b \in BCond)
  /\ \A word \in Words : word \cap 24..31 = BCond => Lookup(word) # 0
  /\ \A t \in DOMAIN Templates : Templates[t].iform \in {"CINCr", "CSETr"} =>
       LET nodes == Templates[t].arguments
       IN  /\ Len(nodes) > 0 /\ nodes[Len(nodes)].type = "INVCOND"
           /\ nodes[Len(nodes)].enc = Span(15, 12)

\* The last node of a branch, of ADR and of ADRP is their offset: a field that is extended
\* from its sign, and scaled.
IsOffset(node, enc, scale) ==
  /\ node.type \in {"LABEL", "ADDR"} /\ node.symbol = "other" /\ "signpos" \in node.attrs
  /\ node.enc = enc /\ node.table = <<>> /\ node.scale = scale

ASSUME OffsetAssumption ==
  \A t \in DOMAIN Templates :
    LET iform == Templates[t].iform
        nodes == Templates[t].arguments
        EndsIn(enc, scale) == Len(nodes) > 0 /\ IsOffset(nodes[Len(nodes)], enc, scale)
    IN  /\ iform = "B" =>
             EndsIn(IF Templates[t].cond = "COND" THEN Span(23, 5) ELSE Span(25, 0), 4)
        /\ iform = "TBZri" => EndsIn(Span(18, 5), 4)
        /\ iform = "ADRr"  => EndsIn(Span(23, 5) \o Span(30, 29), 0)
        /\ iform = "ADRPr" => EndsIn(Span(23, 5) \o Span(30, 29), 4096)

\* A logical immediate is N:imms:immr; an encoding of 32 bits has no N.
ASSUME LogicalAssumption ==
  \A e \in DOMAIN Encodings : \A t \in TemplatesOf(Encodings[e]) :
    \A i \in 1..Len(t.arguments) :
      LET row  == Encodings[e]
          node == t.arguments[i]
      IN  node.symbol = "aimm" =>
            /\ node.type = "IMM" /\ node.table = <<>>
            /\ node.enc \in Seq(Nat) /\ Len(node.enc) = 13
            /\ row.datasize \in {0, 32, 64}
            /\ row.datasize = 32 => node.enc[1] \in row.mask \ row.bits

\* The symbols of an immediate in a halfword, as it is and inverted.
Wide == {"WideImmAlias", "WideImmInverted"}

\* MOV of an immediate stands for ORR, whose bit 23 is zero, or for MOVZ and MOVN, which
\* bit 30 tells apart; in 32 bits there are two halfwords.
ASSUME WideAssumption ==
  \A e \in DOMAIN Encodings : \A t \in TemplatesOf(Encodings[e]) :
    LET row  == Encodings[e]
        last == t.arguments[Len(t.arguments)]
    IN  t.iform = "MOVri" =>
          /\ Len(t.arguments) > 0
          /\ \/ 23 \in row.mask \ row.bits
             \/ /\ last.type = "IMM" /\ last.symbol \in Wide /\ last.table = <<>>
                /\ last.enc = Span(22, 5) /\ row.datasize \in {32, 64}
                /\ 30 \in row.mask /\ (30 \in row.bits <=> last.symbol = "WideImmAlias")
                /\ row.datasize = 32 => 22 \in row.mask \ row.bits

\* The aliases of a bit-field move: those that insert a field, and those that extract one.
Inserts  == {"SBFIZri", "UBFIZri", "BFIri", "BFCri"}
Extracts == {"SBFXri", "UBFXri", "BFXILri"}

IsField(node, symbol, enc) ==
  node.type = "IMM" /\ node.symbol = symbol /\ node.enc = enc /\ node.table = <<>>

\* They end in lsb and width, read from immr and imms, and the order of these two is a
\* condition of theirs; shifts to the right end in immr, where imms is all ones.
ASSUME BitfieldAssumption ==
  \A e \in DOMAIN Encodings : \A t \in TemplatesOf(Encodings[e]) :
    LET row   == Encodings[e]
        nodes == t.arguments
        n     == Len(nodes)
    IN  row.datasize = 64 =>
          /\ t.iform \in Inserts \union Extracts =>
               /\ e # 0 /\ row.isa = "alias" /\ n > 1
               /\ IsField(nodes[n - 1], "lsb", Span(21, 16))
               /\ IsField(nodes[n], "width", Span(15, 10))
          /\ t.iform \in Inserts =>
               t.mnemonic \in Insertions /\ row.aliascond = "imms < immr"
          /\ t.iform \in Extracts =>
               t.mnemonic \in Extractions /\ row.aliascond \in {"imms >= immr", "BFXPreferred"}
          /\ t.iform \in {"LSRri", "ASRri"} =>
               /\ n > 0 /\ IsField(nodes[n], "other", Span(21, 16))
               /\ "signpos" \notin nodes[n].attrs /\ nodes[n].scale = 0
               /\ 10..15 \subseteq row.mask \cap row.bits

RejectEmpty ==
  /\ loc = "call" /\ context.length = 0
  /\ Answer(FALSE)
  /\ UNCHANGED <<context, opcode, result, internal>>

\* Four bytes are read, however many the buffer has.
Fetch ==
  /\ loc = "call" /\ context.length # 0
  /\ \E word \in Words :
       /\ opcode' = word
       /\ internal' = [BlankInternal EXCEPT !.encoding = Lookup(word), !.base = Lookup(word),
                                            !.k = 1]
  /\ insn' = [StaleInsn EXCEPT !.length = 4]
  /\ flags' = {} /\ arguments' = <<>>
  /\ loc' = "encoding"
  /\ UNCHANGED <<context, ret>>

-----------------------------------------------------------------------------
(* decode_encoding, decode_template, decode_nodes.                         *)

Row == Encodings[internal.encoding]
Template == Templates[Row.templates[internal.k]]

\* An encoding whose fixed bits the word does not have.
Undefined ==
  /\ loc = "encoding" /\ ~Under(opcode, Row)
  /\ flags' = flags \union {"undefined"}
  /\ Answer(FALSE)
  /\ UNCHANGED <<context, opcode, insn, arguments, internal>>

FirstTemplate ==
  /\ loc = "encoding" /\ Under(opcode, Row)
  /\ loc' = "template"
  /\ UNCHANGED <<context, opcode, result, internal, ret>>

MoreTemplates == loc = "template" /\ internal.k <= Len(Row.templates)
Skipped(template) == "asmonly" \in template.attrs \/ ~Under(opcode, template)

SkipTemplate ==
  /\ MoreTemplates /\ Skipped(Template)
  /\ internal' = [internal EXCEPT !.k = @ + 1]
  /\ UNCHANGED <<context, opcode, result, loc, ret>>

\* decode_condition
Condition(template) ==
  IF template.cond = "COND" THEN Num(Slice(opcode, 3, 0)) + 1 ELSE AL

\* Mutant: the arguments a failed template left are kept.
EnterKeepsArguments ==
  /\ MoreTemplates /\ ~Skipped(Template)
  /\ insn' = [insn EXCEPT !.iform = Template.iform, !.mnemonic = Template.mnemonic,
                          !.condition = Condition(Template)]
  /\ loc' = "node"
  /\ UNCHANGED <<context, opcode, flags, arguments, internal, ret>>

EnterTemplate ==
  /\ MoreTemplates /\ ~Skipped(Template)
  /\ insn' = [insn EXCEPT !.iform = Template.iform, !.mnemonic = Template.mnemonic,
                          !.condition = Condition(Template)]
  /\ flags' = flags \union Only(Template.cond = "COND" /\ Condition(Template) < AL,
                                {"conditional"})
  /\ arguments' = <<>>
  /\ loc' = "node"
  /\ UNCHANGED <<context, opcode, internal, ret>>

Slot == Len(arguments) + 1

Decoded ==
  decode_node(Fresh(internal, insn.mnemonic, Row.datasize, flags), Template.arguments[Slot])

\* What the handler of a node wrote stays written, whatever it answers.
Written(w, k) ==
  /\ flags' = w.flags
  /\ arguments' = Append(arguments, w.arg)
  /\ internal' = [internal EXCEPT !.k = k, !.lsb = w.lsb, !.dst_reg = w.dst_reg,
                                  !.has_reg = w.has_reg]

DecodeNode ==
  /\ loc = "node" /\ Slot <= Len(Template.arguments)
  /\ \E w \in {Decoded} : w.ok /\ Written(w, internal.k)
  /\ UNCHANGED <<context, opcode, insn, loc, ret>>

\* The template is given up; the next one is tried on top of it.
RefuseNode ==
  /\ loc = "node" /\ Slot <= Len(Template.arguments)
  /\ \E w \in {Decoded} : ~w.ok /\ Written(w, internal.k + 1)
  /\ loc' = "template"
  /\ UNCHANGED <<context, opcode, insn, ret>>

-----------------------------------------------------------------------------
(* The end of an encoding, and its aliases.                                *)

SeeksAlias(raised) ==
  /\ ~internal.alias /\ context.decode_aliases /\ Row.aliases # <<>>
  /\ raised \cap {"undefined", "unpredictable"} = {}

\* decode_encoding has answered TRUE.
Settle(raised) ==
  /\ flags' = raised \union Only(internal.alias, {"is_alias"})
  /\ IF SeeksAlias(raised) THEN loc' = "alias" /\ UNCHANGED ret ELSE Answer(TRUE)
  /\ UNCHANGED <<context, opcode, arguments, internal>>

\* No template is left: the instruction is what the last one that was tried made of it,
\* with the encoding and the argument count of an earlier call, or of the base.
NoTemplate ==
  /\ loc = "template" /\ internal.k > Len(Row.templates)
  /\ Settle(flags)
  /\ UNCHANGED insn

\* Mutant: an alias keeps the operand count of its base.
BaseCount == IF internal.alias THEN insn.argument_count ELSE Len(arguments)

ArgumentCount == Len(arguments)

\* Flags are added to what the nodes, failed templates and the base left.
AcceptTemplate ==
  /\ loc = "node" /\ Slot > Len(Template.arguments)
  /\ insn' = [insn EXCEPT !.encoding = internal.encoding, !.argument_count = ArgumentCount]
  /\ Settle(flags \union Only("branch" \in Row.attrs, {"may_branch"})
              \union Only(internal.has_reg /\ "destructive" \notin flags, {"constructive"}))

\* The conditions of include/aliasconds.inc that rows of the model name.
is_alias_condition_ok(name) ==
  LET immr == Num(Slice(opcode, 21, 16))
      imms == Num(Slice(opcode, 15, 10))
      imm16 == Slice(opcode, 20, 5)
      shiftedZero == imm16 = {} /\ Slice(opcode, 22, 21) # {}
  IN  CASE name = "Unconditionally"  -> TRUE
        [] name = "imms < immr"      -> imms < immr
        [] name = "imms >= immr"     -> imms >= immr
        [] name = "imms + 1 == immr" -> imms + 1 = immr
        [] name = "Rn == Rm"         -> Slice(opcode, 9, 5) = Slice(opcode, 20, 16)
        [] name = "Rd == 31 || Rn == 31" -> Slice(opcode, 4, 0) = Low(5)
                                              \/ Slice(opcode, 9, 5) = Low(5)
        [] name = "!(IsZero(imm16) && hw != 0)" -> ~shiftedZero
        [] name = "!(IsZero(imm16) && hw != 0) && !IsOnes(imm16)" ->
             ~shiftedZero /\ imm16 # Low(16)
        [] name = "!MoveWidePreferred" -> ~MoveWidePreferred(31 \in opcode, 22 \in opcode,
                                                             imms, immr)
        [] name = "BFXPreferred" -> BFXPreferred(31 \in opcode, 30 \in opcode, imms, immr)
        [] name = "SVEMoveMaskPreferred" -> SVEMoveMaskPreferred(Slice(opcode, 17, 5))
        [] OTHER -> FALSE

\* The first alias whose bits and condition the word meets, or 0.
FirstAlias(row) ==
  LET taken == {i \in DOMAIN row.aliases :
                  /\ Under(opcode, Encodings[row.aliases[i]])
                  /\ is_alias_condition_ok(Encodings[row.aliases[i]].aliascond)}
  IN  IF taken = {} THEN 0 ELSE row.aliases[CHOOSE i \in taken : \A j \in taken : i <= j]

NoAlias ==
  /\ loc = "alias" /\ FirstAlias(Row) = 0
  /\ Answer(TRUE)
  /\ UNCHANGED <<context, opcode, result, internal>>

TakeAlias ==
  /\ loc = "alias"
  /\ \E alias \in {FirstAlias(Row)} \ {0} :
       internal' = [internal EXCEPT !.encoding = alias, !.k = 1, !.alias = TRUE]
  /\ loc' = "encoding"
  /\ UNCHANGED <<context, opcode, result, ret>>

DecodeInsn ==
  \/ RejectEmpty \/ Fetch
  \/ Undefined \/ FirstTemplate \/ SkipTemplate \/ EnterTemplate \/ NoTemplate
  \/ DecodeNode \/ RefuseNode \/ AcceptTemplate
  \/ NoAlias \/ TakeAlias

-----------------------------------------------------------------------------
(* The caller's loop (examples/example1.c): one context, one amed_insn.    *)

\* Mutant: the length that is left is forgotten.
AddressOnly(n) == [context EXCEPT !.address = @ + n]

Advanced(n) == [context EXCEPT !.address = @ + n, !.length = @ - n]

NextInsn ==
  /\ loc = "done" /\ ret /\ context.length >= -MaxAstray
  /\ context' = Advanced(insn.length)
  /\ insn' = StaleInsn /\ flags' = {} /\ arguments' = <<>>
  /\ opcode' = {} /\ internal' = BlankInternal
  /\ loc' = "call"
  /\ UNCHANGED ret

\* The loop has ended, or the model follows it no further.
HasEnded == loc = "done" /\ (ret => context.length < -MaxAstray)

Ended == HasEnded /\ UNCHANGED vars

Loop == DecodeInsn \/ NextInsn

Next == Loop \/ Ended

\* WF_vars(Loop), with ~HasEnded for its ENABLED, which TLC finds hard to evaluate: that
\* Loop can go on until HasEnded is what the search for deadlocks shows.
Fairness == []<>HasEnded \/ []<><<Loop>>_vars

\* Decoder and loop are one sequential program.
Spec == Init /\ [][Next]_vars /\ Fairness
=============================================================================
