---------------------------- MODULE AArch64Proofs ----------------------------
(***************************************************************************)
(* What is proved of amed_aarch64_decode_insn and the loop around it, for  *)
(* all tables that keep to the assumptions of AArch64Decoder.tla and all   *)
(* buffers: IInv is an invariant, and what follows from it.                *)
(***************************************************************************)
EXTENDS AArch64OperandProofs

-----------------------------------------------------------------------------
(* The tables.                                                             *)

\* A row has templates, and its aliases are rows.
LEMMA RowType ==
  ASSUME NEW e \in DOMAIN Encodings
  PROVE  /\ Len(Encodings[e].templates) \in Nat
         /\ DOMAIN Encodings[e].templates = 1..Len(Encodings[e].templates)
         /\ \A k \in 1..Len(Encodings[e].templates) :
              Encodings[e].templates[k] \in DOMAIN Templates
         /\ DOMAIN Encodings[e].aliases \subseteq Nat
         /\ \A i \in DOMAIN Encodings[e].aliases :
              Encodings[e].aliases[i] \in DOMAIN Encodings \ {0, e}
<1>. DEFINE t == Encodings[e].templates
            a == Encodings[e].aliases
<1>1. t \in Seq(DOMAIN Templates) /\ a \in Seq(DOMAIN Encodings \ {0, e})
  BY AArch64Assumption
<1>. HIDE DEF t, a
<1>2. /\ Len(t) \in Nat /\ DOMAIN t = 1..Len(t) /\ \A k \in 1..Len(t) : t[k] \in DOMAIN Templates
      /\ DOMAIN a = 1..Len(a) /\ \A i \in DOMAIN a : a[i] \in DOMAIN Encodings \ {0, e}
  BY <1>1
<1>. QED
  BY <1>2 DEF t, a

\* The lookup ends in a row.
LEMMA LookupType ==
  ASSUME NEW code
  PROVE  Lookup(code) \in DOMAIN Encodings
BY AArch64Assumption DEF Lookup

\* An alias is one of the row's, whose condition holds: not the row itself, nor the row of
\* no instruction.
LEMMA FirstAliasType ==
  ASSUME NEW e \in DOMAIN Encodings, FirstAlias(Encodings[e]) # 0
  PROVE  /\ FirstAlias(Encodings[e]) \in DOMAIN Encodings \ {0, e}
         /\ is_alias_condition_ok(Encodings[FirstAlias(Encodings[e])].aliascond)
<1>. DEFINE a == Encodings[e].aliases
            taken == {i \in DOMAIN a : /\ Under(opcode, Encodings[a[i]])
                                       /\ is_alias_condition_ok(Encodings[a[i]].aliascond)}
            first == CHOOSE i \in taken : \A j \in taken : i <= j
<1>1. taken # {} /\ FirstAlias(Encodings[e]) = a[first]
  BY DEF FirstAlias
<1>2. taken \in SUBSET Nat
  BY RowType
<1>3. first \in taken
  <2>. HIDE DEF taken
  <2>. QED
    BY <1>1, <1>2, LeastNat
<1>. HIDE DEF first
<1>4. is_alias_condition_ok(Encodings[a[first]].aliascond)
  BY <1>3
<1>. QED
  BY <1>1, <1>3, <1>4, RowType

-----------------------------------------------------------------------------
(* What the actions have in common, and what they do to the row and the    *)
(* template at hand.                                                       *)

\* The template at hand is one of the tables, with nodes and slots enough.
LEMMA TemplateType ==
  ASSUME Shapes, internal.k \in 1..Len(Row.templates)
  PROVE  /\ Row.templates[internal.k] \in DOMAIN Templates /\ Template \in TemplatesOf(Row)
         /\ Len(Template.arguments) \in 0..8
         /\ \A i \in 1..Len(Template.arguments) : IsNode(Template.arguments[i])
<1>1. /\ Row.templates[internal.k] \in DOMAIN Templates
      /\ internal.k \in DOMAIN Row.templates
  BY RowType DEF Shapes, Row
<1>2. Template \in TemplatesOf(Row)
  BY <1>1 DEF Template, TemplatesOf
<1>. QED
  BY <1>1, <1>2, TemplatesAssumption DEF Template

\* Counters, as far as Shapes bounds them.
LEMMA CounterType ==
  ASSUME Shapes
  PROVE  internal.k \in Nat /\ Len(Row.templates) \in Nat /\ Len(arguments) \in Nat
<1>1. Len(Row.templates) \in Nat
  BY RowType DEF Shapes, Row
<1>2. Len(arguments) \in Nat
  BY AppendSequence DEF Shapes
<1>. QED
  BY <1>1, <1>2 DEF Shapes

\* The row stays where the encoding does, and the template where its index does.
LEMMA RowStays ==
  ASSUME UNCHANGED internal.encoding
  PROVE  Row' = Row /\ (UNCHANGED internal.k => Template' = Template)
BY DEF Row, Template

\* What the handler of the next node makes of the argument.
LEMMA DecodedType ==
  ASSUME IInv, loc = "node", Slot <= Len(Template.arguments)
  PROVE  /\ Slot \in 1..Len(Template.arguments) /\ Slot = Len(arguments) + 1 /\ Slot <= 8
         /\ IsWork(Decoded) /\ flags \subseteq Decoded.flags
         /\ Decoded.flags \subseteq flags \union OperandFlags
         /\ Decoded.ok <=> NodeFits(opcode, Template.arguments[Slot])
         /\ Decoded.ok => Shows(Decoded.arg, Decoded.flags, opcode, Template.arguments[Slot])
         /\ Expands(Decoded.arg, opcode, Row.datasize, Template.arguments[Slot])
<1>. DEFINE w == Fresh(internal, insn.mnemonic, Row.datasize, flags)
<1>1. Len(arguments) \in Nat
  BY CounterType DEF IInv
<1>2. Slot \in 1..Len(Template.arguments) /\ Slot <= 8 /\ IsNode(Template.arguments[Slot])
  <2>1. Shapes /\ internal.k \in 1..Len(Row.templates)
    BY DEF IInv, Shapes, Places, Decoding
  <2>2. /\ Len(Template.arguments) \in 0..8
        /\ \A i \in 1..Len(Template.arguments) : IsNode(Template.arguments[i])
    BY <2>1, TemplateType
  <2>. QED
    BY <1>1, <2>2 DEF Slot
<1>3. IsWork(w) /\ w.ok /\ w.flags = flags /\ w.datasize = Row.datasize
  BY FreshWork DEF IInv, Shapes
<1>. HIDE DEF w
<1>4. Decoded = decode_node(w, Template.arguments[Slot])
  BY DEF Decoded, w
<1>5. NodeShows(w, Template.arguments[Slot])
  BY <1>2, <1>3, NodeBuilds
<1>6. Expands(Decoded.arg, opcode, Row.datasize, Template.arguments[Slot])
  BY <1>3, <1>4, NodeExpands
<1>. QED
  BY <1>2, <1>3, <1>4, <1>5, <1>6 DEF NodeShows, Builds, Slot

\* A call reads a word.
LEMMA FetchStep ==
  ASSUME IInv, Fetch
  PROVE  \E word \in Words :
           /\ opcode' = word /\ DOMAIN insn' = InsnFields /\ insn'.length = 4
           /\ DOMAIN internal' = InternalFields
           /\ internal'.encoding = Lookup(word) /\ internal'.base = Lookup(word)
           /\ internal'.k = 1 /\ internal'.alias = FALSE
           /\ loc' = "encoding" /\ flags' = {} /\ arguments' = <<>>
           /\ UNCHANGED <<context, ret>> /\ loc = "call" /\ context.length # 0
<1>1. PICK word \in Words :
        /\ opcode' = word
        /\ internal' = [BlankInternal EXCEPT !.encoding = Lookup(word), !.base = Lookup(word),
                                             !.k = 1]
  BY DEF Fetch
<1>2. DOMAIN insn' = InsnFields /\ insn'.length = 4
  BY DEF Fetch, StaleInsn, InsnFields
<1>3. /\ DOMAIN internal' = InternalFields
      /\ internal'.encoding = Lookup(word) /\ internal'.base = Lookup(word)
      /\ internal'.k = 1 /\ internal'.alias = FALSE
  BY <1>1 DEF BlankInternal, InternalFields
<1>. QED
  BY <1>1, <1>2, <1>3 DEF Fetch

\* A template that is not for this word is passed over.
LEMMA SkipStep ==
  ASSUME IInv, SkipTemplate
  PROVE  /\ loc = "template" /\ internal.k \in 1..Len(Row.templates) /\ Skipped(Template)
         /\ DOMAIN internal' = InternalFields
         /\ UNCHANGED <<internal.encoding, internal.base, internal.alias>>
         /\ internal'.k = internal.k + 1 /\ Row' = Row
         /\ UNCHANGED <<context, opcode, insn, flags, arguments, loc, ret>>
<1>1. /\ loc = "template" /\ internal.k <= Len(Row.templates) /\ Skipped(Template)
      /\ internal' = [internal EXCEPT !.k = @ + 1]
      /\ UNCHANGED <<context, opcode, insn, flags, arguments, loc, ret>>
  BY DEF SkipTemplate, MoreTemplates, result
<1>2. DOMAIN internal = InternalFields /\ internal.k \in Nat /\ Len(Row.templates) \in Nat
  BY CounterType DEF IInv, Shapes
<1>3. internal.k >= 1
  BY <1>1 DEF IInv, Places, Decoding
<1>4. /\ DOMAIN internal' = InternalFields
      /\ UNCHANGED <<internal.encoding, internal.base, internal.alias>>
      /\ internal'.k = internal.k + 1
  BY <1>1, <1>2 DEF InternalFields
<1>. QED
  BY <1>1, <1>2, <1>3, <1>4, RowStays

\* A template is begun with no arguments.
LEMMA EnterStep ==
  ASSUME IInv, EnterTemplate
  PROVE  /\ loc = "template" /\ loc' = "node" /\ internal.k \in 1..Len(Row.templates)
         /\ ~Skipped(Template) /\ arguments' = <<>>
         /\ flags' = flags \union Only(Template.cond = "COND" /\ Condition(Template) < AL,
                                       {"conditional"})
         /\ DOMAIN insn' = InsnFields /\ insn'.length = insn.length
         /\ insn'.iform = Template.iform /\ insn'.mnemonic = Template.mnemonic
         /\ insn'.condition = Condition(Template)
         /\ Row' = Row /\ Template' = Template
         /\ UNCHANGED <<context, opcode, internal, ret>>
<1>1. /\ loc = "template" /\ internal.k <= Len(Row.templates) /\ ~Skipped(Template)
      /\ insn' = [insn EXCEPT !.iform = Template.iform, !.mnemonic = Template.mnemonic,
                              !.condition = Condition(Template)]
      /\ flags' = flags \union Only(Template.cond = "COND" /\ Condition(Template) < AL,
                                    {"conditional"})
      /\ arguments' = <<>> /\ loc' = "node"
      /\ UNCHANGED <<context, opcode, internal, ret>>
  BY DEF EnterTemplate, MoreTemplates
<1>2. DOMAIN insn = InsnFields /\ internal.k \in Nat /\ Len(Row.templates) \in Nat
  BY CounterType DEF IInv, Shapes
<1>3. internal.k >= 1
  BY <1>1 DEF IInv, Places, Decoding
<1>4. /\ DOMAIN insn' = InsnFields /\ insn'.length = insn.length
      /\ insn'.iform = Template.iform /\ insn'.mnemonic = Template.mnemonic
      /\ insn'.condition = Condition(Template)
  BY <1>1, <1>2 DEF InsnFields
<1>. QED
  BY <1>1, <1>2, <1>3, <1>4, RowStays
\* A node is decoded, and its template goes on or is given up.
LEMMA NodeStep ==
  ASSUME IInv, DecodeNode \/ RefuseNode
  PROVE  /\ loc = "node" /\ Slot \in 1..Len(Template.arguments) /\ Slot = Len(arguments) + 1
         /\ Slot <= 8 /\ DOMAIN internal' = InternalFields
         /\ UNCHANGED <<internal.encoding, internal.base, internal.alias>>
         /\ flags' = Decoded.flags
         /\ flags \subseteq flags' /\ flags' \subseteq flags \union OperandFlags
         /\ arguments' = Append(arguments, Decoded.arg)
         /\ Row' = Row /\ UNCHANGED <<context, opcode, insn, ret>>
         /\ Expands(Decoded.arg, opcode, Row.datasize, Template.arguments[Slot])
         /\ \/ /\ loc' = "node" /\ internal'.k = internal.k /\ Template' = Template
               /\ NodeFits(opcode, Template.arguments[Slot])
               /\ Shows(Decoded.arg, flags', opcode, Template.arguments[Slot])
            \/ /\ loc' = "template" /\ internal'.k = internal.k + 1
               /\ ~NodeFits(opcode, Template.arguments[Slot])
<1>1. PICK k :
        /\ loc = "node" /\ Slot <= Len(Template.arguments) /\ Written(Decoded, k)
        /\ UNCHANGED <<context, opcode, insn, ret>>
        /\ \/ loc' = "node" /\ Decoded.ok /\ k = internal.k
           \/ loc' = "template" /\ ~Decoded.ok /\ k = internal.k + 1
  BY DEF DecodeNode, RefuseNode
<1>2. /\ flags' = Decoded.flags /\ arguments' = Append(arguments, Decoded.arg)
      /\ internal' = [internal EXCEPT !.k = k, !.lsb = Decoded.lsb, !.dst_reg = Decoded.dst_reg,
                                      !.has_reg = Decoded.has_reg]
  BY <1>1 DEF Written
<1>3. DOMAIN internal = InternalFields
  BY DEF IInv, Shapes
<1>4. /\ DOMAIN internal' = InternalFields /\ internal'.k = k
      /\ UNCHANGED <<internal.encoding, internal.base, internal.alias>>
  BY <1>2, <1>3 DEF InternalFields
<1>5. Row' = Row /\ (k = internal.k => Template' = Template)
  BY <1>4, RowStays
<1>6. /\ Slot \in 1..Len(Template.arguments) /\ Slot = Len(arguments) + 1 /\ Slot <= 8
      /\ flags \subseteq Decoded.flags /\ Decoded.flags \subseteq flags \union OperandFlags
      /\ Decoded.ok <=> NodeFits(opcode, Template.arguments[Slot])
      /\ Decoded.ok => Shows(Decoded.arg, Decoded.flags, opcode, Template.arguments[Slot])
      /\ Expands(Decoded.arg, opcode, Row.datasize, Template.arguments[Slot])
  BY <1>1, DecodedType
<1>. QED
  BY <1>1, <1>2, <1>4, <1>5, <1>6

\* What decode_encoding does when it has answered TRUE.
LEMMA SettleStep ==
  ASSUME IInv, NEW raised, raised \subseteq FlagNames \ {"is_alias"}, Settle(raised)
  PROVE  /\ UNCHANGED <<context, opcode, arguments, internal>> /\ Row' = Row
         /\ Template' = Template
         /\ flags' \subseteq FlagNames /\ flags' \ {"is_alias"} = raised
         /\ "is_alias" \in flags' <=> internal.alias
         /\ \/ loc' = "done" /\ ret'
            \/ loc' = "alias" /\ ret' = ret /\ ~internal.alias
<1>1. UNCHANGED <<context, opcode, arguments, internal>> /\ Row' = Row /\ Template' = Template
  BY RowStays DEF Settle
<1>2. flags' = raised \union Only(internal.alias, {"is_alias"})
  BY DEF Settle
<1>3. /\ flags' \subseteq FlagNames /\ flags' \ {"is_alias"} = raised
      /\ "is_alias" \in flags' <=> internal.alias
  BY <1>2 DEF Only, FlagNames
<1>4. \/ loc' = "done" /\ ret'
      \/ loc' = "alias" /\ ret' = ret /\ ~internal.alias
  BY DEF Settle, SeeksAlias, Answer
<1>. QED
  BY <1>1, <1>3, <1>4

\* No template is left.
LEMMA NoTemplateStep ==
  ASSUME IInv, NoTemplate
  PROVE  /\ loc = "template" /\ internal.k = Len(Row.templates) + 1
         /\ UNCHANGED <<context, opcode, arguments, internal, insn>> /\ Row' = Row
         /\ flags' \subseteq FlagNames /\ flags' \ {"is_alias"} = flags
         /\ "is_alias" \in flags' <=> internal.alias
         /\ \/ loc' = "done" /\ ret'
            \/ loc' = "alias" /\ ret' = ret /\ ~internal.alias
<1>1. /\ loc = "template" /\ internal.k > Len(Row.templates) /\ Settle(flags)
      /\ UNCHANGED insn
  BY DEF NoTemplate
<1>2. flags \subseteq FlagNames \ {"is_alias"}
  BY <1>1 DEF IInv, Shapes, Showing, Decoding
<1>3. internal.k = Len(Row.templates) + 1
  BY <1>1, CounterType DEF IInv, Shapes
<1>. QED
  BY <1>1, <1>2, <1>3, SettleStep

\* A template is accepted: all its nodes have been decoded.
LEMMA AcceptStep ==
  ASSUME IInv, AcceptTemplate
  PROVE  /\ loc = "node" /\ internal.k \in 1..Len(Row.templates)
         /\ Len(arguments) = Len(Template.arguments)
         /\ UNCHANGED <<context, opcode, arguments, internal>>
         /\ Row' = Row /\ Template' = Template
         /\ DOMAIN insn' = InsnFields
         /\ \A f \in InsnFields \ {"encoding", "argument_count"} : insn'[f] = insn[f]
         /\ insn'.encoding = internal.encoding /\ insn'.argument_count = Len(arguments)
         /\ flags' \subseteq FlagNames /\ flags \subseteq flags'
         /\ flags' \subseteq flags \union {"is_alias", "may_branch", "constructive"}
         /\ "is_alias" \in flags' <=> internal.alias
         /\ \/ loc' = "done" /\ ret'
            \/ loc' = "alias" /\ ret' = ret /\ ~internal.alias
<1>. DEFINE raised == flags \union Only("branch" \in Row.attrs, {"may_branch"})
                        \union Only(internal.has_reg /\ "destructive" \notin flags,
                                    {"constructive"})
<1>1. /\ loc = "node" /\ Slot > Len(Template.arguments) /\ Settle(raised)
      /\ insn' = [insn EXCEPT !.encoding = internal.encoding, !.argument_count = ArgumentCount]
  BY DEF AcceptTemplate
<1>2. internal.k \in 1..Len(Row.templates) /\ Len(arguments) <= Len(Template.arguments)
  BY <1>1 DEF IInv, Shapes, Places, Decoding
<1>3. Len(arguments) = Len(Template.arguments)
  <2>1. Len(arguments) \in Nat /\ Len(Template.arguments) \in Nat
    BY <1>2, CounterType, TemplateType DEF IInv
  <2>. QED
    BY <1>1, <1>2, <2>1 DEF Slot
<1>4. flags \subseteq FlagNames \ {"is_alias"}
  BY <1>1 DEF IInv, Shapes, Showing, Decoding
<1>5. /\ raised \subseteq FlagNames \ {"is_alias"} /\ flags \subseteq raised
      /\ raised \subseteq flags \union {"may_branch", "constructive"}
  BY <1>4 DEF Only, FlagNames
<1>. HIDE DEF raised
<1>6. /\ DOMAIN insn' = InsnFields
      /\ \A f \in InsnFields \ {"encoding", "argument_count"} : insn'[f] = insn[f]
      /\ insn'.encoding = internal.encoding /\ insn'.argument_count = Len(arguments)
  <2>1. DOMAIN insn = InsnFields
    BY DEF IInv, Shapes
  <2>. QED
    BY <1>1, <2>1 DEF InsnFields, ArgumentCount
<1>7. /\ UNCHANGED <<context, opcode, arguments, internal>> /\ Row' = Row
      /\ Template' = Template
      /\ flags' \subseteq FlagNames /\ flags' \ {"is_alias"} = raised
      /\ "is_alias" \in flags' <=> internal.alias
      /\ \/ loc' = "done" /\ ret'
         \/ loc' = "alias" /\ ret' = ret /\ ~internal.alias
  BY <1>1, <1>5, SettleStep
<1>8. flags \subseteq flags' /\ flags' \subseteq flags \union {"is_alias", "may_branch", "constructive"}
  BY <1>5, <1>7
<1>. QED
  BY <1>1, <1>2, <1>3, <1>6, <1>7, <1>8

\* An alias is decoded over the instruction.
LEMMA AliasStep ==
  ASSUME IInv, TakeAlias
  PROVE  /\ loc = "alias" /\ loc' = "encoding" /\ DOMAIN internal' = InternalFields
         /\ internal'.k = 1 /\ internal'.alias = TRUE
         /\ internal'.encoding \in DOMAIN Encodings \ {0, internal.encoding}
         /\ internal'.base = internal.base
         /\ UNCHANGED <<context, opcode, insn, flags, arguments, ret>>
<1>1. /\ loc = "alias" /\ loc' = "encoding" /\ FirstAlias(Row) # 0
      /\ internal' = [internal EXCEPT !.encoding = FirstAlias(Row), !.k = 1, !.alias = TRUE]
      /\ UNCHANGED <<context, opcode, insn, flags, arguments, ret>>
  BY DEF TakeAlias, result
<1>2. DOMAIN internal = InternalFields /\ internal.encoding \in DOMAIN Encodings
  BY DEF IInv, Shapes
<1>3. FirstAlias(Row) \in DOMAIN Encodings \ {0, internal.encoding}
  BY <1>1, <1>2, FirstAliasType DEF Row
<1>4. /\ DOMAIN internal' = InternalFields /\ internal'.encoding = FirstAlias(Row)
      /\ internal'.k = 1 /\ internal'.alias = TRUE /\ internal'.base = internal.base
  BY <1>1, <1>2 DEF InternalFields
<1>. QED
  BY <1>1, <1>3, <1>4

\* The loop goes on behind the instruction.
LEMMA NextStep ==
  ASSUME IInv, NextInsn
  PROVE  /\ Returned /\ loc' = "call" /\ ret' = ret
         /\ context' \in [address : Nat, length : Int, decode_aliases : BOOLEAN]
         /\ context'.address = context.address + 4 /\ context'.length = context.length - 4
         /\ DOMAIN insn' = InsnFields /\ internal' = BlankInternal
         /\ opcode' = {} /\ flags' = {} /\ arguments' = <<>>
<1>1. /\ Returned /\ loc' = "call" /\ ret' = ret /\ context' = Advanced(insn.length)
      /\ insn' = StaleInsn /\ internal' = BlankInternal
      /\ opcode' = {} /\ flags' = {} /\ arguments' = <<>>
  BY DEF NextInsn, Returned
<1>2. insn.length = 4 /\ context \in [address : Nat, length : Int, decode_aliases : BOOLEAN]
  BY <1>1 DEF IInv, Places, Shapes
<1>3. /\ context' = [context EXCEPT !.address = @ + 4, !.length = @ - 4]
      /\ context.address + 4 \in Nat /\ context.length - 4 \in Int
  BY <1>1, <1>2 DEF Advanced
<1>4. /\ context' \in [address : Nat, length : Int, decode_aliases : BOOLEAN]
      /\ context'.address = context.address + 4 /\ context'.length = context.length - 4
  BY <1>2, <1>3
<1>. QED
  BY <1>1, <1>4 DEF StaleInsn, InsnFields
-----------------------------------------------------------------------------
(* Shapes.                                                                 *)

\* What a call begins with.
LEMMA BlankType ==
  /\ DOMAIN BlankInternal = InternalFields
  /\ BlankInternal.encoding = 0 /\ BlankInternal.base = 0 /\ BlankInternal.k = 0
  /\ BlankInternal.alias = FALSE /\ 0 \in DOMAIN Encodings
BY AArch64Assumption DEF BlankInternal, InternalFields

\* The first state.
LEMMA InitShapes == Init => Shapes
<1>. SUFFICES ASSUME Init
              PROVE  Shapes
  OBVIOUS
<1>1. context \in [address : Nat, length : Int, decode_aliases : BOOLEAN]
  <2>1. context \in [address : {0}, length : Lengths, decode_aliases : BOOLEAN]
    BY DEF Init
  <2>2. /\ context = [address |-> context.address, length |-> context.length,
                      decode_aliases |-> context.decode_aliases]
        /\ context.address = 0 /\ context.length \in Lengths
        /\ context.decode_aliases \in BOOLEAN
    BY <2>1
  <2>3. context.length \in Int /\ context.address \in Nat
    BY <2>2, BufferAssumption
  <2>. QED
    BY <2>2, <2>3
<1>2. DOMAIN insn = InsnFields /\ internal = BlankInternal
  BY DEF Init, StaleInsn, InsnFields
<1>3. Len(Row.templates) \in Nat
  BY <1>2, BlankType, RowType DEF Row
<1>4. IsSequence(arguments) /\ Len(arguments) <= 8
  BY EmptySequence DEF Init
<1>5. opcode = {} /\ flags = {} /\ loc = "call" /\ ret = TRUE
  BY DEF Init
<1>6. /\ DOMAIN internal = InternalFields /\ internal.k \in 0..Len(Row.templates) + 1
      /\ internal.encoding \in DOMAIN Encodings /\ internal.base \in DOMAIN Encodings
  BY <1>2, <1>3, BlankType
<1>8. internal.alias \in BOOLEAN
  BY <1>2, BlankType, Zenon
<1>7. /\ opcode \subseteq Low(32) /\ flags \subseteq FlagNames /\ ret \in BOOLEAN
      /\ loc \in {"call", "encoding", "template", "node", "alias", "done"}
  BY <1>5
<1>. QED
  BY <1>1, <1>2, <1>4, <1>6, <1>7, <1>8 DEF Shapes

\* A step of the state that Shapes speaks of, as far as a step changes it.
LEMMA ShapesStep ==
  ASSUME IInv, [Next]_vars
  PROVE  Shapes'
<1>0. Shapes
  BY DEF IInv
<1>1. CASE RejectEmpty \/ NoAlias
  BY <1>0, <1>1 DEF RejectEmpty, NoAlias, Answer, Shapes, Row, result
<1>2. CASE Fetch
  <2>1. PICK word \in Words :
          /\ opcode' = word /\ DOMAIN insn' = InsnFields
          /\ DOMAIN internal' = InternalFields
          /\ internal'.encoding = Lookup(word) /\ internal'.base = Lookup(word)
          /\ internal'.k = 1 /\ internal'.alias = FALSE
          /\ loc' = "encoding" /\ flags' = {} /\ arguments' = <<>>
          /\ UNCHANGED <<context, ret>>
    BY <1>2, FetchStep
  <2>2. opcode' \subseteq Low(32)
    BY <2>1, BufferAssumption DEF Word32
  <2>3. Lookup(word) \in DOMAIN Encodings /\ Len(Row'.templates) \in Nat
    BY <2>1, LookupType, RowType DEF Row
  <2>4. IsSequence(arguments') /\ Len(arguments') <= 8
    BY <2>1, EmptySequence
  <2>5. internal'.k \in 0..Len(Row'.templates) + 1
    BY <2>1, <2>3
  <2>6. internal'.alias \in BOOLEAN /\ flags' \subseteq FlagNames
    BY <2>1, Zenon
  <2>. QED
    BY <1>0, <2>1, <2>2, <2>3, <2>4, <2>5, <2>6 DEF Shapes
<1>3. CASE Undefined
  BY <1>0, <1>3 DEF Undefined, Answer, Shapes, Row, FlagNames
<1>4. CASE FirstTemplate
  BY <1>0, <1>4 DEF FirstTemplate, Shapes, Row, result
<1>5. CASE SkipTemplate
  BY <1>0, <1>5, SkipStep, CounterType DEF Shapes
<1>6. CASE EnterTemplate
  <2>1. /\ loc' = "node" /\ arguments' = <<>> /\ DOMAIN insn' = InsnFields /\ Row' = Row
        /\ UNCHANGED <<context, opcode, internal, ret>>
        /\ flags' = flags \union Only(Template.cond = "COND" /\ Condition(Template) < AL,
                                      {"conditional"})
    BY <1>6, EnterStep
  <2>2. IsSequence(arguments') /\ Len(arguments') <= 8
    BY <2>1, EmptySequence
  <2>3. flags' \subseteq FlagNames
    BY <1>0, <2>1 DEF Only, FlagNames, Shapes
  <2>. QED
    BY <1>0, <2>1, <2>2, <2>3 DEF Shapes
<1>7. CASE DecodeNode \/ RefuseNode
  <2>1. /\ loc = "node" /\ Slot = Len(arguments) + 1 /\ Slot <= 8
        /\ DOMAIN internal' = InternalFields
        /\ UNCHANGED <<internal.encoding, internal.base, internal.alias>>
        /\ flags' \subseteq flags \union OperandFlags
        /\ arguments' = Append(arguments, Decoded.arg)
        /\ Row' = Row /\ UNCHANGED <<context, opcode, insn, ret>>
        /\ \/ loc' = "node" /\ internal'.k = internal.k
           \/ loc' = "template" /\ internal'.k = internal.k + 1
    BY <1>7, NodeStep
  <2>2. internal'.k \in 0..Len(Row'.templates) + 1
    BY <1>0, <2>1, CounterType DEF IInv, Places, Shapes
  <2>3. IsSequence(arguments') /\ Len(arguments') <= 8
    BY <1>0, <2>1, AppendSequence DEF Shapes
  <2>4. flags' \subseteq FlagNames
    BY <1>0, <2>1 DEF Shapes, FlagNames, OperandFlags
  <2>. QED
    BY <1>0, <2>1, <2>2, <2>3, <2>4 DEF Shapes
<1>8. CASE NoTemplate
  <2>1. ret' \in BOOLEAN
    BY <1>0, <1>8 DEF NoTemplate, Settle, Answer, Shapes
  <2>. QED
    BY <1>0, <1>8, <2>1, NoTemplateStep DEF Shapes
<1>9. CASE AcceptTemplate
  <2>1. ret' \in BOOLEAN
    BY <1>0, <1>9 DEF AcceptTemplate, Settle, Answer, Shapes
  <2>. QED
    BY <1>0, <1>9, <2>1, AcceptStep DEF Shapes
<1>10. CASE TakeAlias
  <2>1. /\ loc' = "encoding" /\ DOMAIN internal' = InternalFields
        /\ internal'.k = 1 /\ internal'.alias = TRUE
        /\ internal'.encoding \in DOMAIN Encodings
        /\ internal'.base = internal.base
        /\ UNCHANGED <<context, opcode, insn, flags, arguments, ret>>
    BY <1>10, AliasStep
  <2>2. Len(Row'.templates) \in Nat
    BY <2>1, RowType DEF Row
  <2>3. internal'.k \in 0..Len(Row'.templates) + 1
    BY <2>1, <2>2
  <2>4. internal'.alias \in BOOLEAN
    BY <2>1, Zenon
  <2>. QED
    BY <1>0, <2>1, <2>3, <2>4 DEF Shapes
<1>11. CASE NextInsn
  <2>1. /\ loc' = "call" /\ ret' = ret
        /\ context' \in [address : Nat, length : Int, decode_aliases : BOOLEAN]
        /\ DOMAIN insn' = InsnFields /\ internal' = BlankInternal
        /\ opcode' = {} /\ flags' = {} /\ arguments' = <<>>
    BY <1>11, NextStep
  <2>2. Len(Row'.templates) \in Nat
    BY <2>1, BlankType, RowType DEF Row
  <2>3. IsSequence(arguments') /\ Len(arguments') <= 8
    BY <2>1, EmptySequence
  <2>4. /\ DOMAIN internal' = InternalFields /\ internal'.k \in 0..Len(Row'.templates) + 1
        /\ internal'.encoding \in DOMAIN Encodings /\ internal'.base \in DOMAIN Encodings
    BY <2>1, <2>2, BlankType
  <2>5. opcode' \subseteq Low(32) /\ flags' \subseteq FlagNames
    BY <2>1
  <2>6. internal'.alias \in BOOLEAN
    BY <2>1, BlankType, Zenon
  <2>. QED
    BY <1>0, <2>1, <2>3, <2>4, <2>5, <2>6 DEF Shapes
<1>12. CASE Ended \/ UNCHANGED vars
  BY <1>0, <1>12 DEF Ended, vars, result, Shapes, Row
<1>. QED
  BY <1>1, <1>2, <1>3, <1>4, <1>5, <1>6, <1>7, <1>8, <1>9, <1>10, <1>11, <1>12
     DEF Next, Loop, DecodeInsn

-----------------------------------------------------------------------------
(* Places.                                                                 *)

\* Each place is reached with the row and the template it relies on.
LEMMA PlacesStep ==
  ASSUME IInv, [Next]_vars
  PROVE  Places'
<1>0. Places
  BY DEF IInv
<1>1. CASE RejectEmpty \/ Undefined
  <2>1. loc' = "done" /\ ret' = FALSE
    BY <1>1 DEF RejectEmpty, Undefined, Answer
  <2>. QED
    BY <2>1 DEF Places, Decoding, Returned
<1>2. CASE NoAlias
  <2>1. loc = "alias" /\ loc' = "done" /\ UNCHANGED <<context, insn>>
    BY <1>2 DEF NoAlias, Answer, result
  <2>. QED
    BY <1>0, <2>1 DEF Places, Decoding, Returned
<1>3. CASE Fetch
  <2>1. /\ internal'.k = 1 /\ loc' = "encoding" /\ ret' = ret /\ loc = "call"
        /\ insn'.length = 4 /\ context' = context /\ context.length # 0
    BY <1>3, FetchStep
  <2>. QED
    BY <1>0, <2>1 DEF Places, Decoding, Returned
<1>4. CASE FirstTemplate
  <2>1. /\ loc = "encoding" /\ Under(opcode, Row) /\ loc' = "template"
        /\ UNCHANGED <<context, opcode, insn, internal, ret>> /\ Row' = Row
    BY <1>4, RowStays DEF FirstTemplate, result
  <2>. QED
    BY <1>0, <2>1 DEF Places, Decoding, Returned
<1>5. CASE SkipTemplate
  <2>1. /\ loc = "template" /\ internal.k \in Nat /\ internal'.k = internal.k + 1 /\ Row' = Row
        /\ UNCHANGED <<context, opcode, insn, loc, ret>>
    BY <1>5, SkipStep, CounterType DEF IInv
  <2>. QED
    BY <1>0, <2>1 DEF Places, Decoding, Returned
<1>6. CASE EnterTemplate
  <2>1. /\ loc = "template" /\ loc' = "node" /\ internal.k \in 1..Len(Row.templates)
        /\ ~Skipped(Template) /\ arguments' = <<>> /\ insn'.length = insn.length
        /\ Row' = Row /\ Template' = Template /\ UNCHANGED <<context, opcode, internal, ret>>
    BY <1>6, EnterStep
  <2>2. Len(arguments') <= Len(Template.arguments)
    BY <2>1, EmptySequence, TemplateType DEF IInv
  <2>. QED
    BY <1>0, <2>1, <2>2 DEF Places, Decoding, Returned, Skipped
<1>7. CASE DecodeNode \/ RefuseNode
  <2>1. /\ loc = "node" /\ Slot \in 1..Len(Template.arguments) /\ Slot = Len(arguments) + 1
        /\ arguments' = Append(arguments, Decoded.arg) /\ Row' = Row
        /\ UNCHANGED <<context, opcode, insn, ret>>
        /\ \/ loc' = "node" /\ internal'.k = internal.k /\ Template' = Template
           \/ loc' = "template" /\ internal'.k = internal.k + 1
    BY <1>7, NodeStep
  <2>2. Len(arguments') = Slot /\ internal.k \in Nat
    BY <2>1, AppendSequence, CounterType DEF IInv, Shapes
  <2>. QED
    BY <1>0, <2>1, <2>2 DEF Places, Decoding, Returned, Skipped
<1>8. CASE NoTemplate
  <2>1. /\ loc = "template" /\ UNCHANGED <<context, opcode, insn, internal>> /\ Row' = Row
        /\ (loc' = "done" /\ ret') \/ (loc' = "alias" /\ ret' = ret)
    BY <1>8, NoTemplateStep
  <2>. QED
    BY <1>0, <2>1 DEF Places, Decoding, Returned
<1>9. CASE AcceptTemplate
  <2>1. /\ loc = "node" /\ UNCHANGED <<context, opcode, internal>> /\ Row' = Row
        /\ insn'.length = insn.length
        /\ (loc' = "done" /\ ret') \/ (loc' = "alias" /\ ret' = ret)
    BY <1>9, AcceptStep DEF InsnFields
  <2>. QED
    BY <1>0, <2>1 DEF Places, Decoding, Returned
<1>10. CASE TakeAlias
  <2>1. loc = "alias" /\ loc' = "encoding" /\ internal'.k = 1 /\ UNCHANGED <<context, insn, ret>>
    BY <1>10, AliasStep
  <2>. QED
    BY <1>0, <2>1 DEF Places, Decoding, Returned
<1>11. CASE NextInsn
  <2>1. Returned /\ loc' = "call" /\ ret' = ret
    BY <1>11, NextStep
  <2>. QED
    BY <2>1 DEF Places, Decoding, Returned
<1>12. CASE Ended \/ UNCHANGED vars
  <2>1. /\ UNCHANGED <<context, opcode, insn, arguments, internal, loc, ret>> /\ Row' = Row
        /\ Template' = Template
    BY <1>12, RowStays DEF Ended, vars, result
  <2>. QED
    BY <1>0, <2>1 DEF Places, Decoding, Returned, Skipped
<1>. QED
  BY <1>1, <1>2, <1>3, <1>4, <1>5, <1>6, <1>7, <1>8, <1>9, <1>10, <1>11, <1>12
     DEF Next, Loop, DecodeInsn
-----------------------------------------------------------------------------
(* The row that is decoded.                                                *)

\* The row that is decoded is the one the lookup found or another, as its alias.
LEMMA RowIsFoundStep ==
  ASSUME IInv, [Next]_vars
  PROVE  RowIsFound'
<1>0. RowIsFound /\ Places
  BY DEF IInv
<1>1. CASE RejectEmpty \/ Undefined
  <2>1. loc' = "done" /\ ret' = FALSE
    BY <1>1 DEF RejectEmpty, Undefined, Answer
  <2>. QED
    BY <2>1 DEF RowIsFound, Tried, Decoding, Returned
<1>2. CASE NoAlias
  <2>1. /\ loc = "alias" /\ loc' = "done" /\ UNCHANGED <<opcode, internal>> /\ Row' = Row
    BY <1>2, RowStays DEF NoAlias, Answer
  <2>. QED
    BY <1>0, <2>1 DEF RowIsFound, Tried, Decoding, Returned
<1>3. CASE Fetch
  <2>1. PICK word \in Words :
          /\ opcode' = word /\ internal'.encoding = Lookup(word) /\ internal'.base = Lookup(word)
          /\ internal'.alias = FALSE /\ loc' = "encoding"
    BY <1>3, FetchStep
  <2>2. Lookup(word) = 0 => word \cap 24..31 # BCond
    BY ConditionAssumption
  <2>. QED
    BY <2>1, <2>2 DEF RowIsFound, Tried, Decoding, Returned
<1>4. CASE FirstTemplate
  <2>1. /\ loc = "encoding" /\ loc' = "template" /\ UNCHANGED <<opcode, internal>>
    BY <1>4 DEF FirstTemplate
  <2>. QED
    BY <1>0, <2>1 DEF RowIsFound, Tried, Decoding, Returned
<1>5. CASE SkipTemplate \/ EnterTemplate \/ DecodeNode \/ RefuseNode
  <2>1. /\ loc \in {"template", "node"} /\ loc' \in {"template", "node"} /\ opcode' = opcode
        /\ UNCHANGED <<internal.encoding, internal.base, internal.alias>>
    BY <1>5, SkipStep, EnterStep, NodeStep
  <2>. QED
    BY <1>0, <2>1 DEF RowIsFound, Tried, Decoding, Returned
<1>6. CASE NoTemplate \/ AcceptTemplate
  <2>1. /\ loc \in {"template", "node"} /\ UNCHANGED <<opcode, internal>> /\ Row' = Row
        /\ loc' = "done" \/ (loc' = "alias" /\ ~internal.alias)
    BY <1>6, NoTemplateStep, AcceptStep
  <2>. QED
    BY <1>0, <2>1 DEF RowIsFound, Places, Tried, Decoding, Returned
<1>7. CASE TakeAlias
  <2>1. /\ loc = "alias" /\ loc' = "encoding" /\ internal'.alias = TRUE
        /\ internal'.encoding \in DOMAIN Encodings \ {0, internal.encoding}
        /\ internal'.base = internal.base /\ opcode' = opcode
    BY <1>7, AliasStep
  <2>. QED
    BY <1>0, <2>1 DEF RowIsFound, Tried, Decoding, Returned
<1>8. CASE NextInsn
  <2>1. loc' = "call" /\ internal' = BlankInternal
    BY <1>8, NextStep
  <2>. QED
    BY <2>1, BlankType DEF RowIsFound, Tried, Decoding, Returned
<1>9. CASE Ended \/ UNCHANGED vars
  <2>1. UNCHANGED <<opcode, internal, loc, ret>> /\ Row' = Row
    BY <1>9, RowStays DEF Ended, vars
  <2>. QED
    BY <1>0, <2>1 DEF RowIsFound, Tried, Decoding, Returned
<1>. QED
  BY <1>1, <1>2, <1>3, <1>4, <1>5, <1>6, <1>7, <1>8, <1>9 DEF Next, Loop, DecodeInsn

-----------------------------------------------------------------------------
(* The templates that are refused, and the one that fits.                  *)

\* A template that is passed over does not fit.
LEMMA SkippedIsRefused ==
  ASSUME Skipped(Template)
  PROVE  Refused(internal.k)
BY DEF Skipped, Refused, Refuses, Template

\* A template is refused for one of its nodes.
LEMMA RefusedByNode ==
  ASSUME NEW i \in 1..Len(Template.arguments), ~NodeFits(opcode, Template.arguments[i])
  PROVE  Refused(internal.k)
BY DEF Refused, Refuses, Template

\* A template is not refused if all its nodes fit.
LEMMA NotRefused ==
  ASSUME ~Skipped(Template),
         \A i \in 1..Len(Template.arguments) : NodeFits(opcode, Template.arguments[i])
  PROVE  ~Refused(internal.k)
BY DEF Skipped, Refused, Refuses, Template

\* What is said of the templates is said of those of the same row and word.
LEMMA RefusedStays ==
  ASSUME Row' = Row, opcode' = opcode, NEW k
  PROVE  Refused(k)' <=> Refused(k)
BY DEF Refused

\* The templates are tried in order, and the nodes of a template in theirs.
LEMMA FittingStep ==
  ASSUME IInv, [Next]_vars
  PROVE  Fitting'
<1>0. Fitting /\ Places
  BY DEF IInv
<1>1. CASE RejectEmpty \/ Undefined
  <2>1. loc' = "done" /\ ret' = FALSE
    BY <1>1 DEF RejectEmpty, Undefined, Answer
  <2>. QED
    BY <2>1 DEF Fitting, Tried, Decoding, Returned
<1>2. CASE NoAlias
  <2>1. /\ loc = "alias" /\ loc' = "done" /\ UNCHANGED <<opcode, internal>> /\ Row' = Row
    BY <1>2, RowStays DEF NoAlias, Answer
  <2>. QED
    BY <1>0, <2>1, RefusedStays DEF Fitting, Tried, Decoding, Returned
<1>3. CASE Fetch \/ TakeAlias
  <2>1. loc' = "encoding" /\ internal'.k = 1
    BY <1>3, FetchStep, AliasStep
  <2>2. 1..1 - 1 = {}
    OBVIOUS
  <2>. QED
    BY <2>1, <2>2 DEF Fitting, Tried, Decoding, Returned
<1>4. CASE FirstTemplate
  <2>1. /\ loc = "encoding" /\ loc' = "template" /\ UNCHANGED <<opcode, internal>> /\ Row' = Row
    BY <1>4, RowStays DEF FirstTemplate
  <2>. QED
    BY <1>0, <2>1, RefusedStays DEF Fitting, Tried, Decoding, Returned
<1>5. CASE SkipTemplate
  <2>1. /\ loc = "template" /\ internal.k \in 1..Len(Row.templates) /\ Skipped(Template)
        /\ internal'.k = internal.k + 1 /\ Row' = Row /\ UNCHANGED <<opcode, loc>>
    BY <1>5, SkipStep
  <2>2. Refused(internal.k) /\ \A k \in 1..internal.k - 1 : Refused(k)
    BY <1>0, <2>1, SkippedIsRefused DEF Fitting, Decoding
  <2>3. \A k \in 1..internal'.k - 1 : Refused(k)'
    BY <2>1, <2>2, RefusedStays
  <2>. QED
    BY <2>1, <2>3 DEF Fitting, Tried, Decoding, Returned
<1>6. CASE EnterTemplate
  <2>1. /\ loc = "template" /\ loc' = "node" /\ arguments' = <<>> /\ Row' = Row
        /\ UNCHANGED <<opcode, internal>>
    BY <1>6, EnterStep
  <2>2. 1..Len(arguments') = {}
    BY <2>1, EmptySequence
  <2>. QED
    BY <1>0, <2>1, <2>2, RefusedStays DEF Fitting, Tried, Decoding, Returned
<1>7. CASE DecodeNode \/ RefuseNode
  <2>1. /\ loc = "node" /\ Slot \in 1..Len(Template.arguments) /\ Slot = Len(arguments) + 1
        /\ arguments' = Append(arguments, Decoded.arg) /\ Row' = Row /\ opcode' = opcode
        /\ \/ /\ loc' = "node" /\ internal'.k = internal.k /\ Template' = Template
              /\ NodeFits(opcode, Template.arguments[Slot])
           \/ /\ loc' = "template" /\ internal'.k = internal.k + 1
              /\ ~NodeFits(opcode, Template.arguments[Slot])
    BY <1>7, NodeStep
  <2>2. /\ \A k \in 1..internal.k - 1 : Refused(k)
        /\ \A i \in 1..Len(arguments) : NodeFits(opcode, Template.arguments[i])
        /\ Len(arguments') = Len(arguments) + 1 /\ internal.k \in Nat /\ Len(arguments) \in Nat
    BY <1>0, <2>1, AppendSequence, CounterType DEF IInv, Shapes, Fitting, Decoding
  <2>3. CASE loc' = "node"
    <3>1. \A i \in 1..Len(arguments') : NodeFits(opcode', Template'.arguments[i])
      BY <2>1, <2>2, <2>3
    <3>. QED
      BY <2>1, <2>2, <2>3, <3>1, RefusedStays DEF Fitting, Tried, Decoding, Returned
  <2>4. CASE loc' = "template"
    <3>1. Refused(internal.k)
      BY <2>1, <2>4, RefusedByNode
    <3>2. \A k \in 1..internal'.k - 1 : Refused(k)'
      BY <2>1, <2>2, <2>4, <3>1, RefusedStays
    <3>. QED
      BY <2>4, <3>2 DEF Fitting, Tried, Decoding, Returned
  <2>. QED
    BY <2>1, <2>3, <2>4
<1>8. CASE NoTemplate
  <2>1. /\ loc = "template" /\ internal.k = Len(Row.templates) + 1
        /\ UNCHANGED <<opcode, internal>> /\ Row' = Row /\ loc' \in {"done", "alias"}
    BY <1>8, NoTemplateStep
  <2>2. Len(Row.templates) \in Nat /\ \A k \in 1..internal.k - 1 : Refused(k)
    BY <1>0, <2>1, CounterType DEF IInv, Fitting, Decoding
  <2>3. /\ \A k \in 1..Len(Row'.templates) : k < internal'.k /\ Refused(k)'
        /\ \A k \in 1..internal'.k - 1 : Refused(k)'
        /\ internal'.k >= 1
    BY <2>1, <2>2, RefusedStays
  <2>. QED
    BY <2>1, <2>3 DEF Fitting, Tried, Decoding, Returned
<1>9. CASE AcceptTemplate
  <2>1. /\ loc = "node" /\ internal.k \in 1..Len(Row.templates)
        /\ Len(arguments) = Len(Template.arguments)
        /\ UNCHANGED <<opcode, internal>> /\ Row' = Row /\ loc' \in {"done", "alias"}
    BY <1>9, AcceptStep
  <2>2. Len(Row.templates) \in Nat /\ \A k \in 1..internal.k - 1 : Refused(k)
    BY <1>0, <2>1, CounterType DEF IInv, Fitting, Decoding
  <2>3. ~Refused(internal.k)
    BY <1>0, <2>1, NotRefused DEF Fitting, Places
  <2>4. /\ \A k \in 1..Len(Row'.templates) :
             k <= internal'.k => (Refused(k)' <=> k < internal'.k)
        /\ \A k \in 1..internal'.k - 1 : Refused(k)'
    BY <2>1, <2>2, <2>3, RefusedStays
  <2>. QED
    BY <2>1, <2>4 DEF Fitting, Tried, Decoding, Returned
<1>10. CASE NextInsn
  <2>1. loc' = "call"
    BY <1>10, NextStep
  <2>. QED
    BY <2>1 DEF Fitting, Tried, Decoding, Returned
<1>11. CASE Ended \/ UNCHANGED vars
  <2>1. /\ UNCHANGED <<opcode, arguments, internal, loc, ret>> /\ Row' = Row
        /\ Template' = Template
    BY <1>11, RowStays DEF Ended, vars, result
  <2>. QED
    BY <1>0, <2>1, RefusedStays DEF Fitting, Tried, Decoding, Returned
<1>. QED
  BY <1>1, <1>2, <1>3, <1>4, <1>5, <1>6, <1>7, <1>8, <1>9, <1>10, <1>11
     DEF Next, Loop, DecodeInsn
-----------------------------------------------------------------------------
(* The instruction.                                                        *)

\* What a slot shows stays shown when flags are raised.
LEMMA ShowsStays ==
  ASSUME NEW argument, NEW raised, NEW more, raised \subseteq more, NEW word, NEW node,
         Shows(argument, raised, word, node)
  PROVE  Shows(argument, more, word, node)
<1>1. "unpredictable" \in raised => "unpredictable" \in more
  OBVIOUS
<1>. QED
  BY <1>1 DEF Shows

\* The instruction shows the template that is tried, and then the one that was accepted.
LEMMA ShowingStep ==
  ASSUME IInv, [Next]_vars
  PROVE  Showing'
<1>0. Showing /\ Places
  BY DEF IInv
<1>1. CASE RejectEmpty \/ Undefined
  <2>1. loc' = "done" /\ ret' = FALSE
    BY <1>1 DEF RejectEmpty, Undefined, Answer
  <2>. QED
    BY <2>1 DEF Showing, Fitted, Tried, Decoding, Returned
<1>2. CASE NoAlias
  <2>1. /\ loc = "alias" /\ loc' = "done" /\ Row' = Row /\ Template' = Template
        /\ UNCHANGED <<opcode, insn, flags, arguments, internal>>
    BY <1>2, RowStays DEF NoAlias, Answer, result
  <2>. QED
    BY <1>0, <2>1 DEF Showing, TemplateShows, Fitted, Tried, Decoding, Returned
<1>3. CASE Fetch
  <2>1. loc' = "encoding" /\ flags' = {}
    BY <1>3, FetchStep
  <2>. QED
    BY <2>1 DEF Showing, Fitted, Tried, Decoding, Returned
<1>4. CASE FirstTemplate \/ SkipTemplate
  <2>1. loc \in {"encoding", "template"} /\ loc' = "template" /\ flags' = flags
    BY <1>4, SkipStep DEF FirstTemplate, result
  <2>. QED
    BY <1>0, <2>1 DEF Showing, Fitted, Tried, Decoding, Returned
<1>5. CASE EnterTemplate
  <2>1. /\ loc = "template" /\ loc' = "node" /\ arguments' = <<>> /\ Template' = Template
        /\ insn'.iform = Template.iform /\ insn'.mnemonic = Template.mnemonic
        /\ flags' = flags \union Only(Template.cond = "COND" /\ Condition(Template) < AL,
                                      {"conditional"})
    BY <1>5, EnterStep
  <2>2. 1..Len(arguments') = {}
    BY <2>1, EmptySequence
  <2>3. TemplateShows'
    BY <2>1, <2>2 DEF TemplateShows
  <2>4. "is_alias" \notin flags'
    BY <1>0, <2>1 DEF Only, Showing, Decoding
  <2>. QED
    BY <2>1, <2>3, <2>4 DEF Showing, Fitted, Tried, Decoding, Returned
<1>6. CASE DecodeNode \/ RefuseNode
  <2>1. /\ loc = "node" /\ Slot = Len(arguments) + 1
        /\ flags \subseteq flags' /\ flags' \subseteq flags \union OperandFlags
        /\ arguments' = Append(arguments, Decoded.arg) /\ UNCHANGED <<opcode, insn>>
        /\ \/ /\ loc' = "node" /\ Template' = Template
              /\ Shows(Decoded.arg, flags', opcode, Template.arguments[Slot])
           \/ loc' = "template"
    BY <1>6, NodeStep
  <2>2. "is_alias" \notin flags'
    BY <1>0, <2>1 DEF OperandFlags, Showing, Decoding
  <2>3. CASE loc' = "node"
    <3>1. /\ Len(arguments') = Slot /\ Len(arguments) \in Nat
          /\ arguments'[Slot] = Decoded.arg
          /\ \A i \in 1..Len(arguments) : arguments'[i] = arguments[i]
      BY <2>1, AppendSequence DEF IInv, Shapes
    <3>2. \A i \in 1..Len(arguments) : Shows(arguments[i], flags, opcode, Template.arguments[i])
      BY <1>0, <2>1 DEF Showing, TemplateShows
    <3>3. ASSUME NEW i \in 1..Len(arguments')
          PROVE  Shows(arguments'[i], flags', opcode, Template.arguments[i])
      <4>1. CASE i = Slot
        BY <2>1, <2>3, <3>1, <4>1
      <4>2. CASE i # Slot
        <5>1. i \in 1..Len(arguments)
          BY <2>1, <3>1, <4>2
        <5>. QED
          BY <2>1, <3>1, <3>2, <5>1, ShowsStays
      <4>. QED
        BY <4>1, <4>2
    <3>4. TemplateShows'
      BY <1>0, <2>1, <2>3, <3>3 DEF Showing, TemplateShows
    <3>. QED
      BY <2>2, <2>3, <3>4 DEF Showing, Fitted, Tried, Decoding, Returned
  <2>4. CASE loc' = "template"
    BY <2>2, <2>4 DEF Showing, Fitted, Tried, Decoding, Returned
  <2>. QED
    BY <2>1, <2>3, <2>4
<1>7. CASE NoTemplate
  <2>1. /\ loc = "template" /\ internal.k = Len(Row.templates) + 1 /\ Row' = Row
        /\ internal' = internal /\ loc' \in {"done", "alias"}
        /\ "is_alias" \in flags' <=> internal.alias
    BY <1>7, NoTemplateStep
  <2>2. ~(internal'.k <= Len(Row'.templates))
    BY <2>1, CounterType DEF IInv
  <2>. QED
    BY <2>1, <2>2 DEF Showing, Fitted, Tried, Decoding, Returned
<1>8. CASE AcceptTemplate
  <2>1. /\ loc = "node" /\ internal.k \in 1..Len(Row.templates)
        /\ Len(arguments) = Len(Template.arguments)
        /\ UNCHANGED <<opcode, arguments, internal>> /\ Row' = Row /\ Template' = Template
        /\ insn'.iform = insn.iform /\ insn'.mnemonic = insn.mnemonic
        /\ insn'.encoding = internal.encoding /\ insn'.argument_count = Len(arguments)
        /\ flags \subseteq flags'
        /\ "is_alias" \in flags' <=> internal.alias
        /\ loc' \in {"done", "alias"}
    BY <1>8, AcceptStep DEF InsnFields
  <2>2. TemplateShows
    BY <1>0, <2>1 DEF Showing
  <2>3. \A i \in 1..Len(arguments) : Shows(arguments[i], flags', opcode, Template.arguments[i])
    BY <2>1, <2>2, ShowsStays DEF TemplateShows
  <2>4. TemplateShows'
    BY <2>1, <2>2, <2>3 DEF TemplateShows
  <2>5. internal.k >= 1
    BY <2>1
  <2>. QED
    BY <2>1, <2>4, <2>5 DEF Showing, Fitted, Tried, Decoding, Returned
<1>9. CASE TakeAlias
  <2>1. loc = "alias" /\ loc' = "encoding" /\ flags' = flags
    BY <1>9, AliasStep
  <2>2. ~internal.alias
    BY <2>1 DEF IInv, RowIsFound
  <2>. QED
    BY <1>0, <2>1, <2>2 DEF Showing, Fitted, Tried, Decoding, Returned
<1>10. CASE NextInsn
  <2>1. loc' = "call"
    BY <1>10, NextStep
  <2>. QED
    BY <2>1 DEF Showing, Fitted, Tried, Decoding, Returned
<1>11. CASE Ended \/ UNCHANGED vars
  <2>1. /\ UNCHANGED <<opcode, insn, flags, arguments, internal, loc, ret>> /\ Row' = Row
        /\ Template' = Template
    BY <1>11, RowStays DEF Ended, vars, result
  <2>. QED
    BY <1>0, <2>1 DEF Showing, TemplateShows, Fitted, Tried, Decoding, Returned
<1>. QED
  BY <1>1, <1>2, <1>3, <1>4, <1>5, <1>6, <1>7, <1>8, <1>9, <1>10, <1>11
     DEF Next, Loop, DecodeInsn

\* The slots hold what the fields of their nodes stand for.
LEMMA ExpandingStep ==
  ASSUME IInv, [Next]_vars
  PROVE  Expanding'
<1>0. Expanding
  BY DEF IInv
<1>1. CASE RejectEmpty \/ Undefined
  <2>1. loc' = "done" /\ ret' = FALSE
    BY <1>1 DEF RejectEmpty, Undefined, Answer
  <2>. QED
    BY <2>1 DEF Expanding, Fitted, Tried, Returned
<1>2. CASE NoAlias
  <2>1. /\ loc = "alias" /\ loc' = "done" /\ Row' = Row /\ Template' = Template
        /\ UNCHANGED <<opcode, arguments, internal>>
    BY <1>2, RowStays DEF NoAlias, Answer, result
  <2>. QED
    BY <1>0, <2>1 DEF Expanding, Fitted, Tried
<1>3. CASE Fetch \/ FirstTemplate \/ SkipTemplate \/ TakeAlias \/ NextInsn
  <2>1. loc' \in {"encoding", "template", "call"}
    BY <1>3, FetchStep, SkipStep, AliasStep, NextStep DEF FirstTemplate
  <2>. QED
    BY <2>1 DEF Expanding, Fitted, Tried, Returned
<1>4. CASE EnterTemplate
  <2>1. arguments' = <<>>
    BY <1>4, EnterStep
  <2>2. 1..Len(arguments') = {}
    BY <2>1, EmptySequence
  <2>. QED
    BY <2>2 DEF Expanding
<1>5. CASE DecodeNode \/ RefuseNode
  <2>1. /\ loc = "node" /\ Slot = Len(arguments) + 1 /\ Row' = Row
        /\ arguments' = Append(arguments, Decoded.arg) /\ opcode' = opcode
        /\ Expands(Decoded.arg, opcode, Row.datasize, Template.arguments[Slot])
        /\ (loc' = "node" /\ Template' = Template) \/ loc' = "template"
    BY <1>5, NodeStep
  <2>2. CASE loc' = "template"
    BY <2>2 DEF Expanding, Fitted, Tried, Returned
  <2>3. CASE loc' = "node" /\ Template' = Template
    <3>1. /\ Len(arguments') = Slot /\ Len(arguments) \in Nat
          /\ arguments'[Slot] = Decoded.arg
          /\ \A i \in 1..Len(arguments) : arguments'[i] = arguments[i]
      BY <2>1, AppendSequence DEF IInv, Shapes
    <3>2. \A i \in 1..Len(arguments) :
            Expands(arguments[i], opcode, Row.datasize, Template.arguments[i])
      BY <1>0, <2>1 DEF Expanding
    <3>3. ASSUME NEW i \in 1..Len(arguments')
          PROVE  Expands(arguments'[i], opcode, Row.datasize, Template.arguments[i])
      <4>1. CASE i = Slot
        BY <2>1, <3>1, <4>1
      <4>2. CASE i # Slot
        <5>1. i \in 1..Len(arguments)
          BY <2>1, <3>1, <4>2
        <5>. QED
          BY <3>1, <3>2, <5>1
      <4>. QED
        BY <4>1, <4>2
    <3>. QED
      BY <2>1, <2>3, <3>3 DEF Expanding
  <2>. QED
    BY <2>1, <2>2, <2>3
<1>6. CASE NoTemplate
  <2>1. /\ internal.k = Len(Row.templates) + 1 /\ Row' = Row
        /\ internal' = internal /\ loc' \in {"done", "alias"}
    BY <1>6, NoTemplateStep
  <2>2. ~(internal'.k <= Len(Row'.templates))
    BY <2>1, CounterType DEF IInv
  <2>. QED
    BY <2>1, <2>2 DEF Expanding, Fitted
<1>7. CASE AcceptTemplate
  <2>1. /\ loc = "node" /\ UNCHANGED <<opcode, arguments>>
        /\ Row' = Row /\ Template' = Template
    BY <1>7, AcceptStep
  <2>. QED
    BY <1>0, <2>1 DEF Expanding
<1>8. CASE Ended \/ UNCHANGED vars
  <2>1. /\ UNCHANGED <<opcode, arguments, internal, loc, ret>> /\ Row' = Row
        /\ Template' = Template
    BY <1>8, RowStays DEF Ended, vars, result
  <2>. QED
    BY <1>0, <2>1 DEF Expanding, Fitted, Tried, Returned
<1>. QED
  BY <1>1, <1>2, <1>3, <1>4, <1>5, <1>6, <1>7, <1>8 DEF Next, Loop, DecodeInsn

\* What the next slot shows of a bit field, and the lsb that is kept for its width.
LEMMA BitfieldNode ==
  ASSUME IInv, DecodeNode \/ RefuseNode
  PROVE  LET node == Template.arguments[Slot]
         IN  /\ IsPlain(node) => Decoded.arg.imm = ReadEncodedin(opcode, node.enc)
             /\ IsPart(node, "lsb") =>
                  Decoded.arg.imm = Word32Of(LsbOf(node)) /\ internal'.lsb = LsbOf(node)
             /\ IsPart(node, "width") =>
                  Decoded.arg.imm = Word32Of(WidthOf(node, internal.lsb))
<1>. DEFINE node == Template.arguments[Slot]
            w    == Fresh(internal, insn.mnemonic, Row.datasize, flags)
<1>1. /\ IsWork(w) /\ w.mnemonic = insn.mnemonic /\ w.datasize = Row.datasize
      /\ w.lsb = internal.lsb
  BY FreshWork DEF IInv, Shapes
<1>. HIDE DEF w
<1>2. Decoded = decode_node(w, node)
  BY DEF Decoded, w
<1>3. internal'.lsb = Decoded.lsb
  <2>1. PICK k : Written(Decoded, k)
    BY DEF DecodeNode, RefuseNode
  <2>2. DOMAIN internal = InternalFields
    BY DEF IInv, Shapes
  <2>. QED
    BY <2>1, <2>2 DEF Written, InternalFields
<1>. HIDE DEF node
<1>4. ASSUME node.type = "IMM", node.enc # <<>>, node.table = <<>>
      PROVE  LET lsb == decode_imm_lsb(insn.mnemonic, FieldOf(opcode, node), Row.datasize)
             IN  /\ node.symbol = "lsb" => Decoded.arg.imm = Word32Of(lsb) /\ Decoded.lsb = lsb
                 /\ node.symbol = "width" =>
                      Decoded.arg.imm =
                        Word32Of(decode_imm_width(insn.mnemonic, FieldOf(opcode, node), internal.lsb))
                 /\ node.symbol = "other" /\ "signpos" \notin node.attrs /\ node.scale = 0 =>
                      Decoded.arg.imm = ReadEncodedin(opcode, node.enc)
  BY <1>1, <1>2, <1>4, BitfieldExpands
<1>. QED
  BY <1>3, <1>4 DEF node, IsPlain, IsPart, LsbOf, WidthOf

\* A slot that stays goes on showing what it showed.
LEMMA BitfieldStays ==
  ASSUME NEW i \in Nat, arguments'[i] = arguments[i], UNCHANGED <<opcode, insn.mnemonic>>,
         Row' = Row, Template' = Template
  PROVE  /\ ShowsBitfield(i)' <=> ShowsBitfield(i)
         /\ internal'.lsb = internal.lsb => (LsbIsKept(i)' <=> LsbIsKept(i))
BY DEF ShowsBitfield, LsbIsKept, IsPlain, IsPart, LsbOf, WidthOf

\* The slots show the bit field, whose lsb is kept until the width is decoded.
LEMMA BitfieldsStep ==
  ASSUME IInv, [Next]_vars
  PROVE  Bitfields'
<1>0. Bitfields
  BY DEF IInv
<1>1. CASE RejectEmpty \/ Undefined
  <2>1. loc' = "done" /\ ret' = FALSE
    BY <1>1 DEF RejectEmpty, Undefined, Answer
  <2>. QED
    BY <2>1 DEF Bitfields, Fitted, Tried, Returned
<1>2. CASE Fetch \/ FirstTemplate \/ SkipTemplate \/ TakeAlias \/ NextInsn
  <2>1. loc' \in {"encoding", "template", "call"}
    BY <1>2, FetchStep, SkipStep, AliasStep, NextStep DEF FirstTemplate
  <2>. QED
    BY <2>1 DEF Bitfields, Fitted, Tried, Returned
<1>3. CASE EnterTemplate
  <2>1. arguments' = <<>>
    BY <1>3, EnterStep
  <2>2. 1..Len(arguments') = {}
    BY <2>1, EmptySequence
  <2>. QED
    BY <2>2 DEF Bitfields
<1>4. CASE DecodeNode \/ RefuseNode
  <2>1. /\ loc = "node" /\ Slot = Len(arguments) + 1 /\ Row' = Row
        /\ arguments' = Append(arguments, Decoded.arg) /\ UNCHANGED <<opcode, insn>>
        /\ (loc' = "node" /\ Template' = Template) \/ loc' = "template"
    BY <1>4, NodeStep
  <2>2. CASE loc' = "template"
    BY <2>2 DEF Bitfields, Fitted, Tried, Returned
  <2>3. CASE loc' = "node" /\ Template' = Template
    <3>1. /\ Len(arguments') = Slot /\ Len(arguments) \in Nat
          /\ arguments'[Slot] = Decoded.arg
          /\ \A i \in 1..Len(arguments) : arguments'[i] = arguments[i]
      BY <2>1, AppendSequence DEF IInv, Shapes
    <3>2. /\ \A i \in 1..Len(arguments) : ShowsBitfield(i)
          /\ \A i \in 1..Len(arguments) : i = Len(arguments) => LsbIsKept(i)
      BY <1>0, <2>1 DEF Bitfields
    <3>3. LET node == Template.arguments[Slot]
          IN  /\ IsPlain(node) => Decoded.arg.imm = ReadEncodedin(opcode, node.enc)
              /\ IsPart(node, "lsb") =>
                   Decoded.arg.imm = Word32Of(LsbOf(node)) /\ internal'.lsb = LsbOf(node)
              /\ IsPart(node, "width") =>
                   Decoded.arg.imm = Word32Of(WidthOf(node, internal.lsb))
      BY <1>4, BitfieldNode
    <3>4. Slot > 1 /\ IsPart(Template.arguments[Slot - 1], "lsb") =>
            internal.lsb = LsbOf(Template.arguments[Slot - 1])
      <4>1. ASSUME Slot > 1
            PROVE  Slot - 1 = Len(arguments) /\ Len(arguments) \in 1..Len(arguments)
        BY <2>1, <3>1, <4>1
      <4>. QED
        BY <3>2, <4>1 DEF LsbIsKept
    <3>5. ASSUME NEW i \in 1..Len(arguments'), i = Slot
          PROVE  ShowsBitfield(i)' /\ LsbIsKept(i)'
      <4>1. /\ arguments'[i] = Decoded.arg /\ Template'.arguments[i] = Template.arguments[Slot]
            /\ Template'.arguments[i - 1] = Template.arguments[Slot - 1]
            /\ opcode' = opcode /\ insn' = insn /\ Row' = Row
        BY <2>1, <2>3, <3>1, <3>5
      <4>. QED
        BY <3>3, <3>4, <3>5, <4>1
           DEF ShowsBitfield, LsbIsKept, IsPlain, IsPart, LsbOf, WidthOf
    <3>6. ASSUME NEW i \in 1..Len(arguments'), i # Slot
          PROVE  ShowsBitfield(i)'
      <4>1. i \in 1..Len(arguments) /\ i \in Nat
        BY <2>1, <3>1, <3>6
      <4>. QED
        BY <2>1, <2>3, <3>1, <3>2, <4>1, BitfieldStays
    <3>. QED
      BY <3>1, <3>5, <3>6 DEF Bitfields
  <2>. QED
    BY <2>1, <2>2, <2>3
<1>5. CASE NoTemplate
  <2>1. /\ internal.k = Len(Row.templates) + 1 /\ Row' = Row
        /\ internal' = internal /\ loc' \in {"done", "alias"}
    BY <1>5, NoTemplateStep
  <2>2. ~(internal'.k <= Len(Row'.templates))
    BY <2>1, CounterType DEF IInv
  <2>. QED
    BY <2>1, <2>2 DEF Bitfields, Fitted
<1>6. CASE AcceptTemplate \/ NoAlias \/ Ended \/ UNCHANGED vars
  <2>1. /\ UNCHANGED <<opcode, arguments, insn.mnemonic, internal>>
        /\ Row' = Row /\ Template' = Template
        /\ loc' = "node" \/ Fitted' => loc = "node" \/ Fitted
        /\ loc' = "node" => loc = "node"
    <3>1. CASE AcceptTemplate
      <4>1. /\ loc = "node" /\ UNCHANGED <<opcode, arguments, internal>>
            /\ Row' = Row /\ Template' = Template /\ insn'.mnemonic = insn.mnemonic
        BY <3>1, AcceptStep DEF InsnFields
      <4>. QED
        BY <4>1
    <3>2. CASE NoAlias
      <4>1. /\ loc = "alias" /\ loc' = "done" /\ Row' = Row /\ Template' = Template
            /\ UNCHANGED <<opcode, arguments, insn, internal>>
        BY <3>2, RowStays DEF NoAlias, Answer, result
      <4>. QED
        BY <4>1 DEF Fitted, Tried
    <3>3. CASE Ended \/ UNCHANGED vars
      <4>1. /\ UNCHANGED <<opcode, arguments, insn, internal, loc, ret>> /\ Row' = Row
            /\ Template' = Template
        BY <3>3, RowStays DEF Ended, vars, result
      <4>. QED
        BY <4>1 DEF Fitted, Tried, Returned
    <3>. QED
      BY <1>6, <3>1, <3>2, <3>3
  <2>2. \A i \in 1..Len(arguments) :
          (ShowsBitfield(i)' <=> ShowsBitfield(i)) /\ (LsbIsKept(i)' <=> LsbIsKept(i))
    BY <2>1, BitfieldStays
  <2>. QED
    BY <1>0, <2>1, <2>2 DEF Bitfields
<1>. QED
  BY <1>1, <1>2, <1>3, <1>4, <1>5, <1>6 DEF Next, Loop, DecodeInsn

\* A row the lookup finds is not an alias.
LEMMA FoundIsBase ==
  ASSUME NEW code, Lookup(code) # 0
  PROVE  Encodings[Lookup(code)].isa = "A64"
<1>. DEFINE found == {e \in DOMAIN Encodings \ {0} :
                        /\ Encodings[e].isa = "A64"
                        /\ LET key == Encodings[e].key
                           IN code \cap key = Encodings[e].bits \cap key}
<1>1. found # {} /\ Lookup(code) = CHOOSE e \in found : TRUE
  BY DEF Lookup
<1>2. Lookup(code) \in found
  <2>. HIDE DEF found
  <2>. QED
    BY <1>1
<1>. QED
  BY <1>2

\* An alias condition holds as long as the word is the same.
LEMMA ConditionStays ==
  ASSUME opcode' = opcode
  PROVE  is_alias_condition_ok(Row.aliascond)' <=> is_alias_condition_ok(Row'.aliascond)
BY DEF is_alias_condition_ok

\* An alias is decoded only where its condition holds.
LEMMA PreferredStep ==
  ASSUME IInv, [Next]_vars
  PROVE  Preferred'
<1>0. Preferred
  BY DEF IInv
<1>1. CASE RejectEmpty \/ Undefined
  <2>1. loc' = "done" /\ ret' = FALSE
    BY <1>1 DEF RejectEmpty, Undefined, Answer
  <2>. QED
    BY <2>1 DEF Preferred, Decoding, Returned
<1>2. CASE NextInsn
  <2>1. loc' = "call"
    BY <1>2, NextStep
  <2>. QED
    BY <2>1 DEF Preferred, Decoding, Returned
<1>3. CASE Fetch
  <2>1. PICK word \in Words : internal'.encoding = Lookup(word)
    BY <1>3, FetchStep
  <2>2. Row' = Encodings[Lookup(word)]
    BY <2>1 DEF Row
  <2>. QED
    BY <2>1, <2>2, FoundIsBase DEF Preferred
<1>4. CASE TakeAlias
  <2>1. /\ FirstAlias(Row) # 0 /\ opcode' = opcode
        /\ internal' = [internal EXCEPT !.encoding = FirstAlias(Row), !.k = 1, !.alias = TRUE]
    BY <1>4 DEF TakeAlias
  <2>2. internal'.encoding = FirstAlias(Row)
    BY <2>1 DEF IInv, Shapes, InternalFields
  <2>3. is_alias_condition_ok(Encodings[FirstAlias(Row)].aliascond)
    BY <2>1, FirstAliasType DEF IInv, Shapes, Row
  <2>4. Row' = Encodings[FirstAlias(Row)]
    BY <2>2 DEF Row
  <2>. QED
    BY <2>1, <2>3, <2>4, ConditionStays DEF Preferred
<1>5. CASE \/ FirstTemplate \/ SkipTemplate \/ EnterTemplate \/ NoTemplate \/ DecodeNode
           \/ RefuseNode \/ AcceptTemplate \/ NoAlias \/ Ended \/ UNCHANGED vars
  <2>1. /\ UNCHANGED <<opcode, internal.encoding>> /\ Row' = Row
        /\ Decoding' \/ Returned' => Decoding \/ Returned
    <3>1. CASE FirstTemplate \/ NoAlias \/ Ended \/ UNCHANGED vars
      <4>1. /\ UNCHANGED <<opcode, internal>>
            /\ loc \in {"encoding", "alias"} \/ UNCHANGED <<loc, ret>>
        BY <3>1 DEF FirstTemplate, NoAlias, Ended, vars
      <4>. QED
        BY <4>1, RowStays DEF Decoding, Returned
    <3>2. CASE SkipTemplate \/ EnterTemplate \/ NoTemplate
      BY <3>2, SkipStep, EnterStep, NoTemplateStep DEF Decoding
    <3>3. CASE DecodeNode \/ RefuseNode \/ AcceptTemplate
      BY <3>3, NodeStep, AcceptStep DEF Decoding
    <3>. QED
      BY <1>5, <3>1, <3>2, <3>3
  <2>. QED
    BY <1>0, <2>1, ConditionStays DEF Preferred
<1>. QED
  BY <1>1, <1>2, <1>3, <1>4, <1>5 DEF Next, Loop, DecodeInsn

\* A template has a condition exactly if the word is a B.cond.
LEMMA ConditionalIsBCond ==
  ASSUME IInv, loc = "template", internal.k \in 1..Len(Row.templates)
  PROVE  Template.cond = "COND" <=> opcode \cap 24..31 = BCond
<1>1. /\ internal.encoding \in DOMAIN Encodings /\ Template \in TemplatesOf(Row)
      /\ opcode \cap Row.mask = Row.bits
      /\ internal.encoding = 0 => opcode \cap 24..31 # BCond
  BY TemplateType DEF IInv, Shapes, Places, RowIsFound, Decoding, Under
<1>2. IF Template.cond = "COND"
      THEN /\ internal.encoding # 0 /\ 24..31 \subseteq Row.mask
           /\ Row.bits \cap 24..31 = BCond
      ELSE \/ internal.encoding = 0
           \/ \E b \in Row.mask \cap 24..31 : (b \in Row.bits) # (b \in BCond)
  BY <1>1, ConditionAssumption DEF Row
<1>3. CASE Template.cond = "COND"
  <2>1. opcode \cap 24..31 = Row.bits \cap 24..31
    BY <1>1, <1>2, <1>3
  <2>. QED
    BY <1>2, <1>3, <2>1
<1>4. CASE Template.cond # "COND" /\ internal.encoding # 0
  <2>1. PICK b \in Row.mask \cap 24..31 : (b \in Row.bits) # (b \in BCond)
    BY <1>2, <1>4
  <2>2. b \in opcode <=> b \in Row.bits
    BY <1>1, <2>1
  <2>3. b \in 24..31 /\ ~(b \in opcode <=> b \in BCond)
    BY <2>1, <2>2
  <2>4. opcode \cap 24..31 # BCond
    BY <2>3
  <2>. QED
    BY <1>4, <2>4
<1>. QED
  BY <1>1, <1>2, <1>3, <1>4

\* The condition of the instruction is the one its word encodes.
LEMMA ConditionsStep ==
  ASSUME IInv, [Next]_vars
  PROVE  Conditions'
<1>0. Conditions
  BY DEF IInv
<1>1. CASE RejectEmpty \/ Undefined
  <2>1. loc' = "done" /\ ret' = FALSE
    BY <1>1 DEF RejectEmpty, Undefined, Answer
  <2>. QED
    BY <2>1 DEF Conditions, Fitted, Tried, Decoding, Returned
<1>2. CASE NoAlias
  <2>1. /\ loc = "alias" /\ loc' = "done" /\ Row' = Row
        /\ UNCHANGED <<opcode, insn, flags, internal>>
    BY <1>2, RowStays DEF NoAlias, Answer, result
  <2>. QED
    BY <1>0, <2>1 DEF Conditions, CondField, Fitted, Tried, Decoding, Returned
<1>3. CASE Fetch
  <2>1. loc' = "encoding" /\ flags' = {}
    BY <1>3, FetchStep
  <2>. QED
    BY <2>1 DEF Conditions, Fitted, Tried, Decoding, Returned
<1>4. CASE FirstTemplate \/ SkipTemplate \/ TakeAlias
  <2>1. Decoding /\ loc' \in {"template", "encoding"} /\ UNCHANGED <<opcode, flags>>
    BY <1>4, SkipStep, AliasStep DEF FirstTemplate, result, Decoding
  <2>. QED
    BY <1>0, <2>1 DEF Conditions, CondField, Fitted, Tried, Decoding, Returned
<1>5. CASE EnterTemplate
  <2>1. /\ loc = "template" /\ loc' = "node" /\ internal.k \in 1..Len(Row.templates)
        /\ insn'.condition = Condition(Template) /\ opcode' = opcode
        /\ flags' = flags \union Only(Template.cond = "COND" /\ Condition(Template) < AL,
                                      {"conditional"})
    BY <1>5, EnterStep
  <2>2. Condition(Template) = IF opcode \cap 24..31 = BCond THEN CondField ELSE AL
    BY <2>1, ConditionalIsBCond DEF Condition, CondField
  <2>3. /\ "conditional" \in flags => opcode \cap 24..31 = BCond /\ CondField < AL
        /\ CondField' = CondField
    BY <1>0, <2>1 DEF Conditions, CondField, Decoding
  <2>4. "conditional" \in flags' <=> opcode \cap 24..31 = BCond /\ CondField < AL
    BY <2>1, <2>2, <2>3, ConditionalIsBCond DEF Only
  <2>. QED
    BY <2>1, <2>2, <2>3, <2>4 DEF Conditions, Fitted, Tried, Decoding, Returned
<1>6. CASE DecodeNode \/ RefuseNode
  <2>1. /\ loc = "node" /\ loc' \in {"node", "template"} /\ flags \subseteq flags'
        /\ flags' \subseteq flags \union OperandFlags /\ UNCHANGED <<opcode, insn>>
    BY <1>6, NodeStep
  <2>2. "conditional" \in flags' <=> "conditional" \in flags
    BY <2>1 DEF OperandFlags
  <2>. QED
    BY <1>0, <2>1, <2>2 DEF Conditions, CondField, Fitted, Tried, Decoding, Returned
<1>7. CASE NoTemplate
  <2>1. /\ loc = "template" /\ internal.k = Len(Row.templates) + 1 /\ Row' = Row
        /\ UNCHANGED <<opcode, internal>> /\ loc' \in {"done", "alias"}
        /\ flags' \ {"is_alias"} = flags
    BY <1>7, NoTemplateStep
  <2>2. ~(internal'.k <= Len(Row'.templates))
    BY <2>1, CounterType DEF IInv
  <2>3. "conditional" \in flags' <=> "conditional" \in flags
    BY <2>1
  <2>. QED
    BY <1>0, <2>1, <2>2, <2>3 DEF Conditions, CondField, Fitted, Tried, Decoding, Returned
<1>8. CASE AcceptTemplate
  <2>1. /\ loc = "node" /\ loc' \in {"done", "alias"} /\ opcode' = opcode
        /\ insn'.condition = insn.condition /\ flags \subseteq flags'
        /\ flags' \subseteq flags \union {"is_alias", "may_branch", "constructive"}
    BY <1>8, AcceptStep DEF InsnFields
  <2>2. "conditional" \in flags' <=> "conditional" \in flags
    BY <2>1
  <2>. QED
    BY <1>0, <2>1, <2>2 DEF Conditions, CondField, Fitted, Tried, Decoding, Returned
<1>9. CASE NextInsn
  <2>1. loc' = "call"
    BY <1>9, NextStep
  <2>. QED
    BY <2>1 DEF Conditions, Fitted, Tried, Decoding, Returned
<1>10. CASE Ended \/ UNCHANGED vars
  <2>1. UNCHANGED <<opcode, insn, flags, internal, loc, ret>> /\ Row' = Row
    BY <1>10, RowStays DEF Ended, vars, result
  <2>. QED
    BY <1>0, <2>1 DEF Conditions, CondField, Fitted, Tried, Decoding, Returned
<1>. QED
  BY <1>1, <1>2, <1>3, <1>4, <1>5, <1>6, <1>7, <1>8, <1>9, <1>10
     DEF Next, Loop, DecodeInsn
-----------------------------------------------------------------------------
(* The invariant.                                                          *)

\* Nothing has been read yet.
LEMMA InitIInv == Init => IInv
<1>. SUFFICES ASSUME Init PROVE IInv
  OBVIOUS
<1>1. Shapes
  BY InitShapes
<1>2. loc = "call" /\ ret = TRUE /\ internal.alias = FALSE
  BY BlankType DEF Init
<1>. QED
  BY <1>1, <1>2
     DEF IInv, Places, RowIsFound, Fitting, Showing, Conditions, Expanding, Bitfields,
         Preferred, Fitted, Tried, Decoding, Returned

\* The decoder keeps its shape, its place, and what it has shown so far.
THEOREM Invariant == Spec => []IInv
<1>1. IInv /\ [Next]_vars => IInv'
  BY ShapesStep, PlacesStep, RowIsFoundStep, FittingStep, ShowingStep, ConditionsStep,
     ExpandingStep, BitfieldsStep, PreferredStep DEF IInv
<1>. QED
  BY <1>1, InitIInv, PTL DEF Spec

-----------------------------------------------------------------------------
(* What follows.                                                           *)

\* The decoder's state keeps its shape: however many templates fail, one that is tried has
\* its own slots only, and no more than 8 (decode_template, decode_nodes).
THEOREM TypeCorrect == Spec => []AArch64TypeOK
<1>1. IInv => AArch64TypeOK
  BY DEF IInv, Shapes, Places, AArch64TypeOK
<1>. QED
  BY <1>1, Invariant, PTL

\* A template fails exactly if it is refused, whatever the decoder works on.
LEMMA FailsIsRefused ==
  ASSUME IInv, NEW k \in 1..Len(Row.templates)
  PROVE  Fails(k) <=> Refused(k)
<1>. DEFINE t == Templates[Row.templates[k]]
            w == Fresh(internal, t.mnemonic, Row.datasize, {})
            n == Len(t.arguments)
<1>1. Row.templates[k] \in DOMAIN Templates
  BY RowType DEF IInv, Shapes, Row
<1>2. n \in 0..8 /\ DOMAIN t.arguments = 1..n /\ \A i \in 1..n : IsNode(t.arguments[i])
  BY <1>1, TemplatesAssumption
<1>3. IsWork(w) /\ w.ok
  BY FreshWork
<1>. HIDE DEF w
<1>4. \A i \in 1..n : decode_node(w, t.arguments[i]).ok <=> NodeFits(opcode, t.arguments[i])
  BY <1>2, <1>3, NodeBuilds DEF NodeShows
<1>5. Fails(k) <=> Skipped(t) \/ \E i \in 1..n : ~decode_node(w, t.arguments[i]).ok
  BY <1>2 DEF Fails, w
<1>6. Refused(k) <=> Skipped(t) \/ \E i \in 1..n : ~NodeFits(opcode, t.arguments[i])
  BY DEF Refused, Refuses, Skipped
<1>. QED
  BY <1>4, <1>5, <1>6

\* What an accepted instruction is known to be.
LEMMA AcceptedType ==
  ASSUME IInv, Accepted
  PROVE  /\ internal.k \in 1..Len(Row.templates)
         /\ Row.templates[internal.k] \in DOMAIN Templates
         /\ TemplateShows /\ insn.encoding = internal.encoding
         /\ insn.argument_count = Len(arguments)
         /\ Len(arguments) = Len(Template.arguments) /\ Len(arguments) \in Nat
         /\ DOMAIN arguments = 1..Len(arguments)
         /\ DOMAIN Template.arguments = 1..Len(arguments)
<1>1. Fitted
  BY DEF Accepted, Fitted, Tried
<1>2. /\ internal.k \in 1..Len(Row.templates)
      /\ TemplateShows /\ insn.encoding = internal.encoding
      /\ insn.argument_count = Len(arguments) /\ Len(arguments) = Len(Template.arguments)
  BY <1>1 DEF IInv, Showing, Shapes, Fitted
<1>3. Row.templates[internal.k] \in DOMAIN Templates
  BY <1>2, TemplateType DEF IInv
<1>4. Len(arguments) \in Nat /\ DOMAIN arguments = 1..Len(arguments)
  BY DEF IInv, Shapes, IsSequence
<1>5. DOMAIN Template.arguments = 1..Len(Template.arguments)
  BY <1>3, TemplatesAssumption DEF Template
<1>. QED
  BY <1>2, <1>3, <1>4, <1>5

\* What amed_aarch64_decode_insn returns is the first template that fits, and nothing is
\* left of those that failed half-way or of the base of an alias (decode_encoding).
THEOREM FirstFitCorrect == Spec => []AcceptedIsFirstFit
<1>1. IInv => AcceptedIsFirstFit
  <2>. SUFFICES ASSUME IInv, Returned PROVE AcceptedIsFirstFit
    BY DEF AcceptedIsFirstFit
  <2>1. \A k \in DOMAIN Row.templates : k <= internal.k => (Fails(k) <=> k < internal.k)
    <3>1. DOMAIN Row.templates = 1..Len(Row.templates)
      BY RowType DEF IInv, Shapes, Row
    <3>2. \A k \in 1..Len(Row.templates) : k <= internal.k => (Refused(k) <=> k < internal.k)
      BY DEF IInv, Fitting, Tried
    <3>. QED
      BY <3>1, <3>2, FailsIsRefused
  <2>2. "is_alias" \in flags <=> internal.encoding # internal.base
    BY DEF IInv, RowIsFound, Showing, Tried
  <2>3. ASSUME Accepted
        PROVE  /\ insn.iform = Template.iform /\ insn.mnemonic = Template.mnemonic
               /\ insn.encoding = internal.encoding
               /\ insn.argument_count = Len(Template.arguments)
               /\ \A i \in DOMAIN Template.arguments :
                    arguments[i].type = ArgumentOf(Template.arguments[i].type)
    BY <2>3, AcceptedType DEF TemplateShows, Shows
  <2>. QED
    BY <2>1, <2>2, <2>3 DEF AcceptedIsFirstFit
<1>. QED
  BY <1>1, Invariant, PTL
\* The bits by which the property knows B.cond are those of the tables.
LEMMA BCondIsField == Field(opcode, 31, 24) = {2, 4, 6} <=> opcode \cap 24..31 = BCond
<1>1. \A b \in 24..31 : b \in opcode <=> b - 24 \in Field(opcode, 31, 24)
  <2>. SUFFICES ASSUME NEW b \in 24..31
                PROVE  b \in opcode <=> b - 24 \in Field(opcode, 31, 24)
    OBVIOUS
  <2>1. ASSUME b - 24 \in Field(opcode, 31, 24)
        PROVE  b \in opcode
    <3>1. PICK c \in opcode \cap 24..31 : b - 24 = c - 24
      BY <2>1 DEF Field
    <3>. QED
      BY <3>1
  <2>2. b \in opcode => b - 24 \in Field(opcode, 31, 24)
    BY DEF Field
  <2>. QED
    BY <2>1, <2>2
<1>2. Field(opcode, 31, 24) \subseteq 0..7
  <2>1. \A c \in opcode \cap 24..31 : c - 24 \in 0..7
    OBVIOUS
  <2>. QED
    BY <2>1 DEF Field
<1>. DEFINE f == Field(opcode, 31, 24)
<1>3. ASSUME f = {2, 4, 6}
      PROVE  opcode \cap 24..31 = BCond
  <2>1. \A b \in 24..31 : b \in opcode <=> b \in {26, 28, 30}
    BY <1>1, <1>3
  <2>. QED
    BY <2>1 DEF BCond
<1>4. ASSUME opcode \cap 24..31 = BCond
      PROVE  f = {2, 4, 6}
  <2>1. \A b \in 24..31 : b - 24 \in f <=> b \in {26, 28, 30}
    BY <1>1, <1>4 DEF BCond
  <2>. HIDE DEF f
  <2>2. \A c \in 0..7 : c \in f <=> c \in {2, 4, 6}
    <3>1. \A c \in 0..7 : c + 24 \in 24..31 /\ (c + 24) - 24 = c
      OBVIOUS
    <3>. QED
      BY <2>1, <3>1
  <2>3. \A c \in f : c \in {2, 4, 6}
    BY <1>2, <2>2 DEF f
  <2>4. 2 \in f /\ 4 \in f /\ 6 \in f
    BY <2>2
  <2>. QED
    BY <2>3, <2>4
<1>. QED
  BY <1>3, <1>4

\* The last node of CINC and CSET inverts the condition of its field.
LEMMA InvertedIsOpposite ==
  ASSUME NEW node, node.enc = Span(15, 12)
  PROVE  LET opposite == {b \in 0..3 : (b + 12 \in opcode) # (b = 0)}
         IN  Num(Inverted(ReadEncodedin(opcode, node.enc))) = UInt(opposite)
<1>. DEFINE opposite == {b \in 0..3 : (b + 12 \in opcode) # (b = 0)}
            f == ReadEncodedin(opcode, node.enc)
<1>1. Len(node.enc) = 4 /\ \A i \in 1..4 : node.enc[i] = 16 - i
  <2>1. Span(15, 12) = [i \in 1..4 |-> 16 - i]
    BY DEF Span
  <2>. QED
    BY <2>1
<1>2. f = {i \in 0..3 : i + 12 \in opcode}
  <2>1. f = {i \in Low(4) : node.enc[4 - i] \in opcode}
    BY <1>1 DEF ReadEncodedin
  <2>2. \A i \in 0..3 : node.enc[4 - i] = i + 12
    BY <1>1
  <2>3. Low(4) = 0..3
    BY DEF Low
  <2>. QED
    BY <2>1, <2>2, <2>3
<1>3. Inverted(f) = opposite
  BY <1>2 DEF Inverted
<1>4. opposite \cap Low(31) = opposite
  BY DEF Low
<1>. QED
  BY <1>3, <1>4, UIntIsNum

\* The condition of an accepted instruction is the one its word encodes, and CINC and CSET
\* have the opposite one of the instruction they stand for (decode_condition,
\* decode_arg_invcond).
THEOREM ConditionsCorrect == Spec => []ConditionsAreEncoded
<1>1. IInv => ConditionsAreEncoded
  <2>. SUFFICES ASSUME IInv, Accepted PROVE ConditionsAreEncoded
    BY DEF ConditionsAreEncoded
  <2>. DEFINE isBCond == Field(opcode, 31, 24) = {2, 4, 6}
              opposite == {b \in 0..3 : (b + 12 \in opcode) # (b = 0)}
  <2>1. isBCond <=> opcode \cap 24..31 = BCond
    BY BCondIsField
  <2>2. CondField = UInt(Field(opcode, 3, 0)) + 1
    <3>1. Num(Slice(opcode, 0 + 3, 0)) = UInt(Field(opcode, 0 + 3, 0)) /\ 0 + 3 = 3
      <4>1. 0 \in Nat /\ 0 + 3 = 3
        OBVIOUS
      <4>. QED
        BY <4>1, NibbleIsField, Zenon
    <3>. QED
      BY <3>1 DEF CondField
  <2>3. /\ insn.condition = IF opcode \cap 24..31 = BCond THEN CondField ELSE AL
        /\ opcode \cap 24..31 = BCond /\ CondField < AL => "conditional" \in flags
        /\ "conditional" \in flags => opcode \cap 24..31 = BCond /\ CondField < AL
    BY DEF IInv, Conditions, Accepted, Fitted, Tried
  <2>4. "conditional" \in flags <=> insn.condition < AL
    <3>1. ~(AL < AL)
      BY DEF AL
    <3>. QED
      BY <2>3, <3>1
  <2>5. ASSUME insn.iform \in {"CINCr", "CSETr"}
        PROVE  Final.token = UInt(opposite) + 1
    <3>. DEFINE n == Len(arguments)
                node == Template.arguments[n]
    <3>1. /\ Row.templates[internal.k] \in DOMAIN Templates /\ TemplateShows
          /\ n = Len(Template.arguments) /\ n \in Nat
      BY AcceptedType
    <3>2. n > 0 /\ node.type = "INVCOND" /\ node.enc = Span(15, 12)
      BY <2>5, <3>1, ConditionAssumption DEF Template, TemplateShows
    <3>3. n \in 1..Len(arguments)
      BY <3>1, <3>2
    <3>4. arguments[n].token = Num(Inverted(ReadEncodedin(opcode, node.enc))) + 1
      BY <3>1, <3>2, <3>3 DEF TemplateShows, Shows
    <3>. HIDE DEF node
    <3>5. Num(Inverted(ReadEncodedin(opcode, node.enc))) = UInt(opposite)
      BY <3>2, InvertedIsOpposite
    <3>. QED
      BY <3>4, <3>5 DEF Final
  <2>. HIDE DEF isBCond, opposite
  <2>6. insn.condition = IF isBCond THEN UInt(Field(opcode, 3, 0)) + 1 ELSE AL
    BY <2>1, <2>2, <2>3
  <2>. QED
    BY <2>4, <2>5, <2>6 DEF ConditionsAreEncoded, isBCond, opposite
<1>. QED
  BY <1>1, Invariant, PTL

\* The halves of a pair, unless the instruction is unpredictable.
LEMMA HalvesArePair ==
  ASSUME IInv, Sound, NEW i \in 1..Len(arguments), i + 1 \in 1..Len(arguments),
         AreHalves(Template.arguments[i], Template.arguments[i + 1])
  PROVE  IsPair(arguments[i], arguments[i + 1])
<1>. DEFINE even == Template.arguments[i]
            odd == Template.arguments[i + 1]
            raw == ReadEncodedin(opcode, even.enc)
            first == Encodes(opcode, even)
<1>1. /\ even.type = "REG" /\ odd.type = "REG"
      /\ odd.enc = even.enc /\ even.enc \in Seq(Nat) /\ Len(even.enc) = 5
      /\ odd.symbol = even.symbol /\ even.symbol \in {"GPR32", "GPR64"}
      /\ even.attrs \cap {"even", "pair", "sp"} = {"even"}
      /\ odd.attrs \cap {"pair", "sp"} = {"pair"}
  BY DEF AreHalves
<1>2. even.enc # <<>>
  <2>1. even.enc = <<>> => Len(even.enc) = 0
    OBVIOUS
  <2>. QED
    BY <1>1, <2>1
<1>3. Accepted /\ "unpredictable" \notin flags
  BY DEF Sound
<1>4. /\ Shows(arguments[i], flags, opcode, even)
      /\ Shows(arguments[i + 1], flags, opcode, odd)
  BY <1>3, AcceptedType DEF TemplateShows
<1>5. Encodes(opcode, odd) = first
  BY <1>1 DEF Encodes
<1>. HIDE DEF even, odd
<1>6. IsEncoded(even) /\ IsEncoded(odd)
  BY <1>1, <1>2 DEF IsEncoded
<1>7. first \notin BankEnds /\ 0 \notin raw
  BY <1>1, <1>3, <1>4, <1>5, <1>6 DEF Shows, BreaksPair
<1>8. NextTo(even, first) = 0 /\ NextTo(odd, first) = 1
  BY <1>1, <1>7 DEF NextTo
<1>9. StackPointer(opcode, even) = 0 /\ StackPointer(opcode, odd) = 0
  BY <1>1 DEF StackPointer
<1>10. arguments[i].reg = first + 0 + 0 /\ arguments[i + 1].reg = first + 1 + 0
  BY <1>4, <1>5, <1>6, <1>8, <1>9 DEF Shows
<1>11. raw \in SUBSET Low(5) /\ raw \cap Low(5) = raw
  BY <1>1 DEF ReadEncodedin
<1>12. first = (IF even.symbol = "GPR32" THEN 1 ELSE 34) + Num(raw)
  <2>1. first = decode_register_value(raw, even.symbol)
    BY DEF Encodes
  <2>2. "GPR32" \in DOMAIN Bank /\ "GPR64" \in DOMAIN Bank /\ Bank.GPR32 = 1 /\ Bank.GPR64 = 34
    BY DEF Bank
  <2>. HIDE DEF raw, first
  <2>. QED
    BY <1>1, <1>11, <2>1, <2>2 DEF decode_register_value
<1>. HIDE DEF raw, first
<1>13. Num(raw) \in 0..31 /\ Num(raw) % 2 = 0
  BY <1>7, <1>11, FiveBitsType
<1>. DEFINE n == Num(raw)
<1>14. n \in 0..31 /\ n % 2 = 0 /\ (first = 1 + n \/ first = 34 + n)
  BY <1>12, <1>13
<1>. HIDE DEF n
<1>. DEFINE reg == arguments[i].reg
            next == arguments[i + 1].reg
<1>15. reg = first + 0 + 0 /\ next = first + 1 + 0
  BY <1>10
<1>. HIDE DEF reg, next
<1>16. Bank.GPR64 = 34 /\ Bank.GPR32 = 1
  BY DEF Bank
<1>17. reg - (IF reg >= 34 THEN 34 ELSE 1) = n /\ next = reg + 1
  BY <1>14, <1>15
<1>. QED
  BY <1>14, <1>16, <1>17 DEF IsPair, reg, next

\* The lists wrap in their bank, and an instruction with half a pair is unpredictable
\* (decode_arg_vlist, decode_arg_reg).
THEOREM RegistersCorrect == Spec => []RegistersFollow
<1>1. IInv => RegistersFollow
  <2>. SUFFICES ASSUME IInv PROVE RegistersFollow
    OBVIOUS
  <2>1. ASSUME Accepted, NEW i \in DOMAIN arguments, arguments[i].type = "LIST"
        PROVE  ListFollows(arguments[i].list)
    BY <2>1, AcceptedType DEF TemplateShows, Shows
  <2>2. ASSUME Sound, insn.iform \in CASP
        PROVE  IsPair(arguments[1], arguments[2]) /\ IsPair(arguments[3], arguments[4])
    <3>1. /\ Accepted /\ Row.templates[internal.k] \in DOMAIN Templates
          /\ Template.iform = insn.iform /\ Len(arguments) = Len(Template.arguments)
          /\ Len(arguments) \in Nat
      BY <2>2, AcceptedType DEF Sound, TemplateShows
    <3>2. /\ Len(Template.arguments) >= 4
          /\ AreHalves(Template.arguments[1], Template.arguments[2])
          /\ AreHalves(Template.arguments[3], Template.arguments[4])
      BY <2>2, <3>1, PairAssumption DEF Template
    <3>3. /\ 1 \in 1..Len(arguments) /\ 2 \in 1..Len(arguments) /\ 3 \in 1..Len(arguments)
          /\ 4 \in 1..Len(arguments) /\ 1 + 1 = 2 /\ 3 + 1 = 4
      BY <3>1, <3>2
    <3>. QED
      BY <2>2, <3>2, <3>3, HalvesArePair
  <2>. QED
    BY <2>1, <2>2 DEF RegistersFollow
<1>. QED
  BY <1>1, Invariant, PTL

-----------------------------------------------------------------------------
(* Offsets and immediates.                                                 *)

\* The argument of a node that is an offset, a logical or a wide immediate.
LEMMA AcceptedExpands ==
  ASSUME IInv, Accepted, NEW i \in 1..Len(arguments), IsExpanded(Template.arguments[i])
  PROVE  arguments[i].imm = Expansion(opcode, Row.datasize, Template.arguments[i])
<1>1. Fitted
  BY DEF Accepted, Fitted, Tried
<1>. QED
  BY <1>1 DEF IInv, Expanding, Expands

\* The last argument, where it is an offset.
LEMMA FinalIsOffset ==
  ASSUME IInv, Accepted, NEW enc, enc # <<>>, NEW scale,
         Len(Template.arguments) > 0,
         IsOffset(Template.arguments[Len(Template.arguments)], enc, scale)
  PROVE  LET extended == sign_extend64(ReadEncodedin(opcode, enc), Len(enc) - 1)
         IN  Final.imm = IF scale = 0 THEN extended ELSE Scaled(extended, scale)
<1>. DEFINE n == Len(arguments)
            node == Template.arguments[n]
<1>1. n = Len(Template.arguments) /\ n \in Nat
  BY AcceptedType
<1>2. n \in 1..Len(arguments)
  BY <1>1
<1>3. IsOffset(node, enc, scale)
  BY <1>1
<1>4. IsExpanded(node)
  BY <1>3 DEF IsOffset, IsExpanded
<1>5. Final.imm = Expansion(opcode, Row.datasize, node)
  BY <1>2, <1>4, AcceptedExpands DEF Final
<1>. HIDE DEF node
<1>. QED
  BY <1>3, <1>5 DEF IsOffset, Expansion, Wide

\* The offset of a branch, of ADR and of ADRP is what the manual makes of the field: no
\* bit is lost when it is extended first and scaled then (decode_arg_label,
\* decode_arg_imm).
THEOREM OffsetCorrect == Spec => []OffsetIsField
<1>1. IInv => OffsetIsField
  <2>. SUFFICES ASSUME IInv, Accepted PROVE OffsetIsField
    BY DEF OffsetIsField
  <2>. DEFINE immhi == Shifted(Field(opcode, 23, 5), 2)
              imm21 == immhi \union Field(opcode, 30, 29)
              split == Span(23, 5) \o Span(30, 29)
              nodes == Template.arguments
              EndsIn(enc, scale) == Len(nodes) > 0 /\ IsOffset(nodes[Len(nodes)], enc, scale)
  <2>1. /\ Row.templates[internal.k] \in DOMAIN Templates
        /\ insn.iform = Template.iform
    BY AcceptedType DEF TemplateShows
  <2>2. /\ insn.iform = "B" =>
             EndsIn(IF Template.cond = "COND" THEN Span(23, 5) ELSE Span(25, 0), 4)
        /\ insn.iform = "TBZri" => EndsIn(Span(18, 5), 4)
        /\ insn.iform = "ADRr"  => EndsIn(split, 0)
        /\ insn.iform = "ADRPr" => EndsIn(split, 4096)
    <3>. DEFINE t == Row.templates[internal.k]
    <3>1. t \in DOMAIN Templates /\ Template = Templates[t] /\ insn.iform = Templates[t].iform
      BY <2>1 DEF Template
    <3>. HIDE DEF t
    <3>2. LET last == Templates[t].arguments
              Ends(enc, scale) == Len(last) > 0 /\ IsOffset(last[Len(last)], enc, scale)
          IN  /\ Templates[t].iform = "B" =>
                   Ends(IF Templates[t].cond = "COND" THEN Span(23, 5) ELSE Span(25, 0), 4)
              /\ Templates[t].iform = "TBZri" => Ends(Span(18, 5), 4)
              /\ Templates[t].iform = "ADRr"  => Ends(split, 0)
              /\ Templates[t].iform = "ADRPr" => Ends(split, 4096)
      BY <3>1, OffsetAssumption
    <3>. QED
      BY <3>1, <3>2
  <2>3. ASSUME NEW hi \in 0..31, NEW lo \in 0..31, lo <= hi, EndsIn(Span(hi, lo), 4)
        PROVE  Final.imm = SignExtend(Shifted(Field(opcode, hi, lo), 2), hi - lo + 3, 64)
    <3>. DEFINE field == Field(opcode, hi, lo)
                n == hi - lo + 1
    <3>1. /\ Len(Span(hi, lo)) = n /\ Span(hi, lo) # <<>>
          /\ ReadEncodedin(opcode, Span(hi, lo)) = field /\ field \in SUBSET (0..hi - lo)
      <4>1. hi \in Nat /\ lo \in Nat /\ lo <= hi
        BY <2>3
      <4>. QED
        BY <4>1, SpanIsField
    <3>2. Final.imm = Scaled(sign_extend64(field, n - 1), 4)
      BY <2>3, <3>1, FinalIsOffset
    <3>3. n \in 1..63 /\ n - 1 = hi - lo /\ n + 2 = hi - lo + 3 /\ n + 2 <= 64
      BY <2>3
    <3>. HIDE DEF n, field
    <3>4. Lsl(sign_extend64(field, n - 1), 2, 64) = SignExtend(Shifted(field, 2), n + 2, 64)
      <4>1. 2 \in 0..63 /\ field \in SUBSET (0..n - 1)
        BY <3>1, <3>3
      <4>. QED
        BY <3>3, <4>1, ExtensionShifts
    <3>. QED
      BY <3>2, <3>3, <3>4, ScaledIsShifted DEF field
  <2>4. /\ Len(split) = 21 /\ split # <<>> /\ ReadEncodedin(opcode, split) = imm21
        /\ imm21 \in SUBSET (0..20)
    BY OffsetIsSplit
  <2>. HIDE DEF split, imm21
  <2>5. ASSUME NEW scale, EndsIn(split, scale)
        PROVE  LET extended == sign_extend64(imm21, 21 - 1)
               IN  Final.imm = IF scale = 0 THEN extended ELSE Scaled(extended, scale)
    <3>1. LET extended == sign_extend64(ReadEncodedin(opcode, split), Len(split) - 1)
          IN  Final.imm = IF scale = 0 THEN extended ELSE Scaled(extended, scale)
      BY <2>4, <2>5, FinalIsOffset
    <3>. QED
      BY <2>4, <3>1
  <2>. HIDE DEF EndsIn
  <2>6. ASSUME insn.iform = "ADRr"
        PROVE  Final.imm = SignExtend(imm21, 21, 64)
    <3>1. 21 - 1 = 20 /\ 21 \in 1..63
      OBVIOUS
    <3>2. Final.imm = sign_extend64(imm21, 21 - 1)
      BY <2>2, <2>6, <2>5
    <3>. QED
      BY <2>4, <3>1, <3>2, ExtensionIsManual
  <2>7. ASSUME insn.iform = "ADRPr"
        PROVE  Final.imm = SignExtend(Shifted(imm21, 12), 33, 64)
    <3>1. 21 - 1 = 20 /\ 21 \in 1..63 /\ 12 \in 0..63 /\ 21 + 12 = 33 /\ 33 <= 64
      OBVIOUS
    <3>2. Final.imm = Scaled(sign_extend64(imm21, 21 - 1), 4096)
      BY <2>2, <2>7, <2>5
    <3>3. Lsl(sign_extend64(imm21, 21 - 1), 12, 64) = SignExtend(Shifted(imm21, 12), 21 + 12, 64)
      BY <2>4, <3>1, ExtensionShifts
    <3>. QED
      BY <3>1, <3>2, <3>3, ScaledIsShifted
  <2>8. ASSUME insn.iform = "B"
        PROVE  Final.imm = IF Template.cond = "COND" THEN SignExtend(immhi, 21, 64)
                           ELSE SignExtend(Shifted(Field(opcode, 25, 0), 2), 28, 64)
    <3>1. /\ 23 \in 0..31 /\ 5 \in 0..31 /\ 5 <= 23 /\ 23 - 5 + 3 = 21
          /\ 25 \in 0..31 /\ 0 \in 0..31 /\ 0 <= 25 /\ 25 - 0 + 3 = 28
      OBVIOUS
    <3>2. CASE Template.cond = "COND"
      <4>1. EndsIn(Span(23, 5), 4)
        BY <2>2, <2>8, <3>2
      <4>2. Final.imm = SignExtend(Shifted(Field(opcode, 23, 5), 2), 23 - 5 + 3, 64)
        BY <2>3, <3>1, <4>1
      <4>. QED
        BY <3>1, <3>2, <4>2
    <3>3. CASE Template.cond # "COND"
      <4>1. EndsIn(Span(25, 0), 4)
        BY <2>2, <2>8, <3>3
      <4>2. Final.imm = SignExtend(Shifted(Field(opcode, 25, 0), 2), 25 - 0 + 3, 64)
        BY <2>3, <3>1, <4>1
      <4>. QED
        BY <3>1, <3>3, <4>2
    <3>. QED
      BY <3>2, <3>3
  <2>9. ASSUME insn.iform = "TBZri"
        PROVE  Final.imm = SignExtend(Shifted(Field(opcode, 18, 5), 2), 16, 64)
    <3>1. 18 \in 0..31 /\ 5 \in 0..31 /\ 5 <= 18 /\ 18 - 5 + 3 = 16
      OBVIOUS
    <3>2. EndsIn(Span(18, 5), 4)
      BY <2>2, <2>9
    <3>3. Final.imm = SignExtend(Shifted(Field(opcode, 18, 5), 2), 18 - 5 + 3, 64)
      BY <2>3, <3>1, <3>2
    <3>. QED
      BY <3>1, <3>3
  <2>. QED
    BY <2>6, <2>7, <2>8, <2>9 DEF OffsetIsField, imm21
<1>. QED
  BY <1>1, Invariant, PTL

\* A logical immediate is the manual's DecodeBitMasks of its field, in as many bits as the
\* decoder keeps (decode_logimm).
THEOREM LogicalImmediateCorrect == Spec => []LogicalImmediateIsManual
<1>1. IInv => LogicalImmediateIsManual
  <2>. SUFFICES ASSUME IInv, Accepted, NEW i \in DOMAIN Template.arguments,
                       Template.arguments[i].symbol = "aimm",
                       DecodeBitMasks(Raw(Template.arguments[i])) # <<>>
                PROVE  LET imm13 == Raw(Template.arguments[i])
                           kept  == IF Row.datasize = 32 \/ (Row.datasize = 0 /\ 12 \notin imm13)
                                    THEN 32 ELSE 64
                       IN  arguments[i].imm = DecodeBitMasks(imm13)[1] \cap 0..kept - 1
    BY DEF LogicalImmediateIsManual
  <2>. DEFINE node  == Template.arguments[i]
              imm13 == Raw(node)
              kept  == IF Row.datasize = 32 \/ (Row.datasize = 0 /\ 12 \notin imm13)
                       THEN 32 ELSE 64
  <2>1. /\ internal.k \in 1..Len(Row.templates) /\ i \in 1..Len(arguments)
        /\ Len(arguments) = Len(Template.arguments)
    BY AcceptedType
  <2>2. Template \in TemplatesOf(Row) /\ internal.encoding \in DOMAIN Encodings
    BY <2>1, TemplateType DEF IInv, Shapes
  <2>3. /\ node.type = "IMM" /\ node.table = <<>> /\ node.symbol = "aimm"
        /\ node.enc \in Seq(Nat) /\ Len(node.enc) = 13
        /\ Row.datasize \in {0, 32, 64}
        /\ Row.datasize = 32 => node.enc[1] \in Row.mask \ Row.bits
    BY <2>1, <2>2, LogicalAssumption DEF Row
  <2>4. IsExpanded(node)
    <3>1. node.enc # <<>>
      <4>1. Len(node.enc) = 13 /\ 13 # 0
        BY <2>3
      <4>. QED
        BY <4>1, EmptySequence, Zenon
    <3>. QED
      BY <2>3, <3>1 DEF IsExpanded
  <2>5. arguments[i].imm = decode_logimm(imm13, Row.datasize).imm
    <3>1. arguments[i].imm = Expansion(opcode, Row.datasize, node)
      BY <2>1, <2>4, AcceptedExpands
    <3>. HIDE DEF node
    <3>. QED
      BY <2>3, <3>1 DEF Expansion, Raw, Wide
  <2>. HIDE DEF node
  <2>6. imm13 = {b \in 0..12 : node.enc[13 - b] \in opcode}
    BY <2>3 DEF Raw, ReadEncodedin, Low
  <2>7. imm13 \in SUBSET Low(13)
    BY <2>6 DEF Low
  <2>8. Row.datasize = 32 => 12 \notin imm13
    <3>1. Under(opcode, Row)
      BY DEF IInv, RowIsFound, Accepted, Tried
    <3>2. 13 - 12 = 1
      OBVIOUS
    <3>. QED
      BY <2>3, <2>6, <3>1, <3>2 DEF Under
  <2>9. DecodeBitMasks(imm13) # <<>>
    BY DEF node
  <2>. HIDE DEF imm13
  <2>10. decode_logimm(imm13, Row.datasize) =
           [ok |-> TRUE, imm |-> DecodeBitMasks(imm13)[1] \cap 0..kept - 1]
    <3>. DEFINE datasize == Row.datasize
    <3>1. datasize \in {0, 32, 64} /\ (datasize = 32 => 12 \notin imm13)
      BY <2>3, <2>8
    <3>. HIDE DEF datasize
    <3>2. LET bits == IF datasize = 32 \/ (datasize = 0 /\ 12 \notin imm13) THEN 32 ELSE 64
          IN  decode_logimm(imm13, datasize) =
                [ok |-> TRUE, imm |-> DecodeBitMasks(imm13)[1] \cap 0..bits - 1]
      BY <2>7, <2>9, <3>1, LogicalImmediateIsMasks, ZenonT(60)
    <3>. QED
      BY <3>2, Zenon DEF datasize
  <2>11. arguments[i].imm = DecodeBitMasks(imm13)[1] \cap 0..kept - 1
    BY <2>5, <2>10
  <2>. QED
    BY <2>11 DEF imm13, node
<1>. QED
  BY <1>1, Invariant, PTL

\* MOV of a wide immediate loads what MOVZ or MOVN does, in the bits its register has
\* (decode_wide_imm_alias).
THEOREM WideImmediateCorrect == Spec => []MovLoadsWideImmediate
<1>1. IInv => MovLoadsWideImmediate
  <2>. SUFFICES ASSUME IInv, Accepted, insn.iform = "MOVri",
                       Field(opcode, 28, 23) = {0, 2, 5}
                PROVE  Final.imm \cap 0..Row.datasize - 1 =
                         MoveWide(UInt(Field(opcode, 22, 21)), Field(opcode, 20, 5),
                                  30 \notin opcode, Row.datasize)
    BY DEF MovLoadsWideImmediate
  <2>. DEFINE n == Len(arguments)
              node == Template.arguments[n]
              inverted == node.symbol = "WideImmInverted"
  <2>1. /\ internal.k \in 1..Len(Row.templates) /\ n = Len(Template.arguments) /\ n \in Nat
        /\ Template.iform = "MOVri"
    BY AcceptedType DEF TemplateShows
  <2>2. Template \in TemplatesOf(Row) /\ internal.encoding \in DOMAIN Encodings
    BY <2>1, TemplateType DEF IInv, Shapes
  <2>3. Under(opcode, Row)
    BY DEF IInv, RowIsFound, Accepted, Tried
  <2>4. 23 \notin Row.mask \ Row.bits
    <3>1. 23 \in opcode
      <4>1. PICK b \in opcode \cap 23..28 : 0 = b - 23
        BY DEF Field
      <4>. QED
        BY <4>1
    <3>. QED
      BY <2>3, <3>1 DEF Under
  <2>5. /\ n > 0
        /\ node.type = "IMM" /\ node.symbol \in Wide /\ node.table = <<>>
        /\ node.enc = Span(22, 5) /\ Row.datasize \in {32, 64}
        /\ 30 \in Row.mask /\ (30 \in Row.bits <=> node.symbol = "WideImmAlias")
        /\ Row.datasize = 32 => 22 \in Row.mask \ Row.bits
    BY <2>1, <2>2, <2>4, WideAssumption DEF Row
  <2>6. n \in 1..Len(arguments)
    BY <2>1, <2>5
  <2>7. Span(22, 5) # <<>>
    <3>1. 5 <= 22
      OBVIOUS
    <3>. QED
      BY <3>1, SpanIsField
  <2>8. IsExpanded(node)
    BY <2>5, <2>7 DEF IsExpanded
  <2>9. Final.imm = Expansion(opcode, Row.datasize, node)
    BY <2>6, <2>8, AcceptedExpands DEF Final
  <2>. HIDE DEF node
  <2>10. Final.imm = decode_wide_imm_alias(ReadEncodedin(opcode, Span(22, 5)), Row.datasize,
                                           inverted)
    BY <2>5, <2>9 DEF Expansion, Wide
  <2>11. (30 \notin opcode) = inverted /\ inverted \in BOOLEAN
    <3>1. 30 \in opcode <=> node.symbol = "WideImmAlias"
      BY <2>3, <2>5 DEF Under
    <3>. QED
      BY <2>5, <3>1 DEF Wide
  <2>12. Row.datasize = 32 => 22 \notin opcode
    BY <2>3, <2>5 DEF Under
  <2>. HIDE DEF inverted
  <2>13. decode_wide_imm_alias(ReadEncodedin(opcode, Span(22, 5)), Row.datasize, inverted)
             \cap 0..Row.datasize - 1
           = MoveWide(UInt(Field(opcode, 22, 21)), Field(opcode, 20, 5), inverted, Row.datasize)
    <3>. DEFINE datasize == Row.datasize
    <3>1. datasize \in {32, 64} /\ (datasize = 32 => 22 \notin opcode)
      BY <2>5, <2>12
    <3>. HIDE DEF datasize
    <3>2. ASSUME NEW flag \in BOOLEAN
          PROVE  decode_wide_imm_alias(ReadEncodedin(opcode, Span(22, 5)), datasize, flag)
                     \cap 0..datasize - 1
                   = MoveWide(UInt(Field(opcode, 22, 21)), Field(opcode, 20, 5), flag, datasize)
      BY <3>1, WideIsManual
    <3>3. decode_wide_imm_alias(ReadEncodedin(opcode, Span(22, 5)), datasize, inverted)
              \cap 0..datasize - 1
            = MoveWide(UInt(Field(opcode, 22, 21)), Field(opcode, 20, 5), inverted, datasize)
      BY <2>11, <3>2, Zenon
    <3>. QED
      BY <3>3 DEF datasize
  <2>. QED
    BY <2>10, <2>11, <2>13
<1>. QED
  BY <1>1, Invariant, PTL

-----------------------------------------------------------------------------
(* Bit fields.                                                             *)

\* A field of six bits, and one that is all ones.
ReadsSix(word, hi, lo) ==
  LET field == Field(word, hi, lo)
  IN  /\ Span(hi, lo) # <<>> /\ ReadEncodedin(word, Span(hi, lo)) = field
      /\ Num(field) = UInt(field) /\ Num(Slice(word, hi, lo)) = UInt(field)
      /\ UInt(field) \in 0..63
      /\ lo..hi \subseteq word => UInt(field) = 63

LEMMA SixBits ==
  ASSUME NEW word, NEW hi \in Nat, NEW lo \in Nat, hi = lo + 5
  PROVE  ReadsSix(word, hi, lo)
<1>. DEFINE field == Field(word, hi, lo)
<1>1. IsRun(hi, lo, 5, 6) /\ Run(hi, lo) = Span(hi, lo)
  BY DEF IsRun, Run, Span
<1>2. /\ Span(hi, lo) # <<>> /\ ReadEncodedin(word, Span(hi, lo)) = field
      /\ Num(field) = UInt(field) /\ Num(Slice(word, hi, lo)) = UInt(field)
      /\ field \in SUBSET Low(6)
  BY <1>1, RunOf, FieldValue
<1>3. Num(field) \in 0..63
  <2>1. Num(field) \in 0..2 ^ 6 - 1
    BY <1>2, NumBound
  <2>. QED
    BY <2>1, BytePowers
<1>4. ASSUME lo..hi \subseteq word
      PROVE  Num(field) = 63
  <2>1. field = 0..5
    <3>1. ASSUME NEW b \in 0..5 PROVE b \in field
      <4>1. b + lo \in word \cap lo..hi /\ b = (b + lo) - lo
        BY <1>4
      <4>. QED
        BY <4>1 DEF Field
    <3>. QED
      BY <1>2, <3>1 DEF Low
  <2>. HIDE DEF field
  <2>2. field \in SUBSET Low(8)
    BY <2>1 DEF Low
  <2>3. /\ 0 \in field /\ 1 \in field /\ 2 \in field /\ 3 \in field /\ 4 \in field
        /\ 5 \in field /\ 6 \notin field /\ 7 \notin field
    BY <2>1
  <2>. QED
    BY <2>2, <2>3, ByteValue DEF Weighs
<1>. QED
  BY <1>2, <1>3, <1>4 DEF ReadsSix

\* The fields of immr and imms.
LEMMA ImmrImms ==
  ASSUME NEW word
  PROVE  ReadsSix(word, 21, 16) /\ ReadsSix(word, 15, 10)
<1>1. /\ 21 \in Nat /\ 16 \in Nat /\ 21 = 16 + 5
      /\ 15 \in Nat /\ 10 \in Nat /\ 15 = 10 + 5
  OBVIOUS
<1>2. ReadsSix(word, 21, 16)
  BY <1>1, SixBits
<1>3. ReadsSix(word, 15, 10)
  BY <1>1, SixBits
<1>. QED
  BY <1>2, <1>3

\* Where a bit field begins and how wide it is, as immr and imms tell.
HasParts(mnemonic, immr, imms, begin, wide) ==
  /\ mnemonic \in Insertions /\ imms < immr => begin = 64 - immr /\ wide = imms + 1
  /\ mnemonic \in Extractions /\ imms >= immr => begin = immr /\ wide = imms + 1 - immr

LEMMA FieldParts ==
  ASSUME NEW mnemonic, NEW immr \in 0..63, NEW imms \in 0..63
  PROVE  LET begin == decode_imm_lsb(mnemonic, immr, 64)
         IN  HasParts(mnemonic, immr, imms, begin, decode_imm_width(mnemonic, imms, begin))
<1>1. ASSUME mnemonic \in Insertions, imms < immr
      PROVE  /\ decode_imm_lsb(mnemonic, immr, 64) = 64 - immr
             /\ \A lsb : decode_imm_width(mnemonic, imms, lsb) = imms + 1
  <2>1. 64 - immr \in 1..63 /\ (64 - immr) % 64 = 64 - immr
    BY <1>1
  <2>2. mnemonic \notin Extractions
    BY <1>1 DEF Insertions, Extractions
  <2>. QED
    BY <1>1, <2>1, <2>2 DEF decode_imm_lsb, decode_imm_width
<1>2. ASSUME mnemonic \in Extractions
      PROVE  /\ decode_imm_lsb(mnemonic, immr, 64) = immr
             /\ decode_imm_width(mnemonic, imms, immr) = imms + 1 - immr
  <2>1. mnemonic \notin Insertions
    BY <1>2 DEF Insertions, Extractions
  <2>. QED
    BY <1>2, <2>1 DEF decode_imm_lsb, decode_imm_width
<1>. QED
  BY <1>1, <1>2 DEF HasParts

\* What an accepted instruction shows of a bit field.
LEMMA AcceptedBitfield ==
  ASSUME IInv, Accepted, NEW i \in 1..Len(arguments)
  PROVE  ShowsBitfield(i)
<1>1. Fitted
  BY DEF Accepted, Fitted, Tried
<1>. QED
  BY <1>1 DEF IInv, Bitfields

\* Field and width of an alias of UBFM, SBFM and BFM in 64 bits lie within the register,
\* and encode back into the immr and imms of the word (decode_imm_lsb, decode_imm_width,
\* is_alias_condition_ok).
THEOREM BitfieldsCorrect == Spec => []BitfieldEncodesBack
<1>1. IInv => BitfieldEncodesBack
  <2>. SUFFICES ASSUME IInv, Accepted, Row.datasize = 64 PROVE BitfieldEncodesBack
    BY DEF BitfieldEncodesBack
  <2>. DEFINE immr  == UInt(Field(opcode, 21, 16))
              imms  == UInt(Field(opcode, 15, 10))
              n     == Len(arguments)
              nodes == Template.arguments
              begin == decode_imm_lsb(insn.mnemonic, immr, 64)
              wide  == decode_imm_width(insn.mnemonic, imms, begin)
              lsb   == UInt(arguments[n - 1].imm)
              width == UInt(Final.imm)
  <2>1. /\ internal.k \in 1..Len(Row.templates) /\ n = Len(nodes) /\ n \in Nat
        /\ insn.iform = Template.iform /\ insn.mnemonic = Template.mnemonic
    BY AcceptedType DEF TemplateShows
  <2>2. Template \in TemplatesOf(Row) /\ internal.encoding \in DOMAIN Encodings
    BY <2>1, TemplateType DEF IInv, Shapes
  <2>3. /\ insn.iform \in Inserts \union Extracts =>
             /\ internal.encoding # 0 /\ Row.isa = "alias" /\ n > 1
             /\ IsField(nodes[n - 1], "lsb", Span(21, 16))
             /\ IsField(nodes[n], "width", Span(15, 10))
        /\ insn.iform \in Inserts =>
             insn.mnemonic \in Insertions /\ Row.aliascond = "imms < immr"
        /\ insn.iform \in Extracts =>
             insn.mnemonic \in Extractions /\ Row.aliascond \in {"imms >= immr", "BFXPreferred"}
        /\ insn.iform \in {"LSRri", "ASRri"} =>
             /\ n > 0 /\ IsField(nodes[n], "other", Span(21, 16))
             /\ "signpos" \notin nodes[n].attrs /\ nodes[n].scale = 0
             /\ 10..15 \subseteq Row.mask \cap Row.bits
    <3>. DEFINE e == internal.encoding
                t == Template
                m == Len(t.arguments)
    <3>1. /\ e \in DOMAIN Encodings /\ t \in TemplatesOf(Encodings[e])
          /\ Encodings[e].datasize = 64 /\ Row = Encodings[e]
      BY <2>2 DEF Row
    <3>2. m = n /\ t.iform = insn.iform /\ t.mnemonic = insn.mnemonic
      BY <2>1
    <3>. HIDE DEF e, t
    <3>3. /\ t.iform \in Inserts \union Extracts =>
               /\ e # 0 /\ Encodings[e].isa = "alias" /\ m > 1
               /\ IsField(t.arguments[m - 1], "lsb", Span(21, 16))
               /\ IsField(t.arguments[m], "width", Span(15, 10))
          /\ t.iform \in Inserts =>
               t.mnemonic \in Insertions /\ Encodings[e].aliascond = "imms < immr"
          /\ t.iform \in Extracts =>
               /\ t.mnemonic \in Extractions
               /\ Encodings[e].aliascond \in {"imms >= immr", "BFXPreferred"}
          /\ t.iform \in {"LSRri", "ASRri"} =>
               /\ m > 0 /\ IsField(t.arguments[m], "other", Span(21, 16))
               /\ "signpos" \notin t.arguments[m].attrs /\ t.arguments[m].scale = 0
               /\ 10..15 \subseteq Encodings[e].mask \cap Encodings[e].bits
      BY <3>1, BitfieldAssumption
    <3>. HIDE DEF m, n
    <3>. QED
      BY <3>1, <3>2, <3>3 DEF e, t
  <2>4. /\ Span(21, 16) # <<>> /\ ReadEncodedin(opcode, Span(21, 16)) = Field(opcode, 21, 16)
        /\ Num(Field(opcode, 21, 16)) = immr /\ Num(Slice(opcode, 21, 16)) = immr
        /\ immr \in 0..63 /\ (16..21 \subseteq opcode => immr = 63)
    BY ImmrImms, Zenon DEF ReadsSix
  <2>5. /\ Span(15, 10) # <<>> /\ ReadEncodedin(opcode, Span(15, 10)) = Field(opcode, 15, 10)
        /\ Num(Field(opcode, 15, 10)) = imms /\ Num(Slice(opcode, 15, 10)) = imms
        /\ imms \in 0..63 /\ (10..15 \subseteq opcode => imms = 63)
    BY ImmrImms, Zenon DEF ReadsSix
  <2>. HIDE DEF immr, imms, nodes
  <2>6. ASSUME insn.iform \in Inserts \union Extracts
        PROVE  arguments[n - 1].imm = Word32Of(begin) /\ Final.imm = Word32Of(wide)
    <3>1. /\ IsPart(nodes[n - 1], "lsb") /\ IsPart(nodes[n], "width")
          /\ FieldOf(opcode, nodes[n - 1]) = immr /\ FieldOf(opcode, nodes[n]) = imms
      <4>1. /\ IsField(nodes[n - 1], "lsb", Span(21, 16))
            /\ IsField(nodes[n], "width", Span(15, 10))
        BY <2>3, <2>6
      <4>2. IsPart(nodes[n - 1], "lsb") /\ IsPart(nodes[n], "width")
        BY <2>4, <2>5, <4>1 DEF IsField, IsPart
      <4>3. nodes[n - 1].enc = Span(21, 16) /\ nodes[n].enc = Span(15, 10)
        BY <4>1 DEF IsField
      <4>. QED
        BY <2>4, <2>5, <4>2, <4>3 DEF FieldOf
    <3>2. LsbOf(nodes[n - 1]) = begin
      BY <3>1 DEF LsbOf
    <3>3. WidthOf(nodes[n], LsbOf(nodes[n - 1])) = wide
      BY <3>1, <3>2 DEF WidthOf
    <3>4. n - 1 \in 1..n /\ n \in 1..n /\ n > 1
      <4>1. n \in Nat /\ n > 1
        BY <2>1, <2>3, <2>6
      <4>. HIDE DEF n
      <4>. QED
        BY <4>1
    <3>5. ShowsBitfield(n - 1) /\ ShowsBitfield(n)
      BY <3>4, AcceptedBitfield
    <3>. QED
      BY <3>1, <3>2, <3>3, <3>4, <3>5 DEF ShowsBitfield, Final, nodes
  <2>7. ASSUME insn.iform \in Inserts \union Extracts
        PROVE  is_alias_condition_ok(Row.aliascond)
    BY <2>3, <2>7 DEF IInv, Preferred, Accepted, Returned
  <2>8. HasParts(insn.mnemonic, immr, imms, begin, wide)
    <3>1. immr \in 0..63 /\ imms \in 0..63
      BY <2>4, <2>5
    <3>. QED
      BY <3>1, FieldParts, Zenon
  <2>. HIDE DEF begin, wide
  <2>9. ASSUME insn.iform \in Inserts
        PROVE  /\ width >= 1 /\ lsb + width <= 64
               /\ immr = (64 - lsb) % 64 /\ imms = width - 1
    <3>1. imms < immr
      <4>1. is_alias_condition_ok("imms < immr")
        BY <2>3, <2>7, <2>9
      <4>. QED
        BY <2>4, <2>5, <4>1 DEF is_alias_condition_ok
    <3>2. begin = 64 - immr /\ wide = imms + 1
      BY <2>3, <2>8, <2>9, <3>1 DEF HasParts
    <3>3. begin \in 0..255 /\ wide \in 0..255
      BY <2>4, <2>5, <3>1, <3>2
    <3>4. lsb = 64 - immr /\ width = imms + 1
      <4>1. UInt(Word32Of(begin)) = begin /\ UInt(Word32Of(wide)) = wide
        BY <3>3, SmallWord
      <4>2. arguments[n - 1].imm = Word32Of(begin) /\ Final.imm = Word32Of(wide)
        BY <2>6, <2>9
      <4>3. lsb = begin /\ width = wide
        BY <4>1, <4>2
      <4>. QED
        BY <3>2, <4>3
    <3>. QED
      BY <2>4, <2>5, <3>1, <3>4
  <2>10. ASSUME insn.iform \in Extracts
        PROVE  /\ width >= 1 /\ lsb + width <= 64
               /\ immr = lsb /\ imms = lsb + width - 1
    <3>1. imms >= immr
      BY <2>3, <2>4, <2>5, <2>7, <2>10 DEF is_alias_condition_ok, BFXPreferred
    <3>2. begin = immr /\ wide = imms + 1 - immr
      BY <2>3, <2>8, <2>10, <3>1 DEF HasParts
    <3>3. begin \in 0..255 /\ wide \in 0..255
      BY <2>4, <2>5, <3>1, <3>2
    <3>4. lsb = immr /\ width = imms + 1 - immr
      <4>1. UInt(Word32Of(begin)) = begin /\ UInt(Word32Of(wide)) = wide
        BY <3>3, SmallWord
      <4>2. arguments[n - 1].imm = Word32Of(begin) /\ Final.imm = Word32Of(wide)
        BY <2>6, <2>10
      <4>3. lsb = begin /\ width = wide
        BY <4>1, <4>2
      <4>. QED
        BY <3>2, <4>3
    <3>. QED
      BY <2>4, <2>5, <3>1, <3>4
  <2>11. ASSUME insn.iform \in {"LSRri", "ASRri"}
         PROVE  immr = width /\ imms = 63
    <3>1. n \in 1..n /\ IsPlain(nodes[n]) /\ nodes[n].enc = Span(21, 16)
      <4>1. n \in Nat /\ n > 0
        BY <2>1, <2>3, <2>11
      <4>. HIDE DEF n
      <4>2. n \in 1..n
        BY <4>1
      <4>. QED
        BY <2>3, <2>4, <2>11, <4>2 DEF IsField, IsPlain, IsPart
    <3>2. ShowsBitfield(n)
      BY <3>1, AcceptedBitfield
    <3>3. Final.imm = Field(opcode, 21, 16)
      BY <2>4, <3>1, <3>2 DEF ShowsBitfield, Final, nodes
    <3>4. 10..15 \subseteq opcode
      <4>1. Under(opcode, Row)
        BY DEF IInv, RowIsFound, Accepted, Tried
      <4>. QED
        BY <2>3, <2>11, <4>1 DEF Under
    <3>. QED
      BY <2>5, <3>3, <3>4 DEF immr
  <2>. QED
    BY <2>9, <2>10, <2>11 DEF BitfieldEncodesBack, immr, imms
<1>. QED
  BY <1>1, Invariant, PTL

-----------------------------------------------------------------------------
(* The loop is a cursor.                                                   *)

\* The loop starts where the cursor does.
LEMMA StartsAsCursor == Init => Cursor!Init
BY DEF Init, Cursor!Init

\* Every step of the loop moves the cursor by four bytes, stops it, or leaves it alone.
LEMMA MovesAsCursor ==
  ASSUME IInv, [Next]_vars
  PROVE  [Cursor!Next]_(Cursor!cursor)
<1>. DEFINE running == ~(loc = "done" /\ ~ret)
<1>1. CASE UNCHANGED context /\ running /\ ~running'
  BY <1>1 DEF Cursor!Next, Cursor!Stop
<1>2. CASE UNCHANGED context /\ running' = running
  BY <1>2 DEF Cursor!cursor
<1>3. CASE NextInsn
  <2>1. /\ running /\ running' = running /\ context.length \in Int
        /\ context'.address = context.address + 4 /\ context'.length = context.length - 4
    BY <1>3, NextStep DEF Returned, IInv, Shapes
  <2>2. Cursor!Move(4)
    BY <2>1 DEF Cursor!Move
  <2>3. context.length # 0
    BY <1>3 DEF NextInsn, IInv, Places, Returned
  <2>4. CASE context.length >= 4
    BY <2>1, <2>2, <2>4 DEF Cursor!Next, Cursor!Step
  <2>5. CASE context.length \in 1..3
    <3>1. 4 \in context.length + 1..context.length + 3
      BY <2>5
    <3>. QED
      BY <2>1, <2>2, <2>5, <3>1 DEF Cursor!Next, Cursor!Overrun
  <2>6. CASE context.length < 0
    BY <2>1, <2>2, <2>6 DEF Cursor!Next, Cursor!Astray
  <2>. QED
    BY <2>1, <2>3, <2>4, <2>5, <2>6
<1>4. CASE RejectEmpty \/ Undefined
  <2>1. loc # "done" /\ UNCHANGED context
    BY <1>4 DEF RejectEmpty, Undefined
  <2>. QED
    BY <1>1, <1>2, <2>1
<1>5. CASE \/ Fetch \/ FirstTemplate \/ SkipTemplate \/ EnterTemplate \/ DecodeNode
           \/ RefuseNode \/ NoTemplate \/ AcceptTemplate \/ NoAlias \/ TakeAlias
  <2>1. UNCHANGED context /\ loc # "done"
    BY <1>5, FetchStep, SkipStep, EnterStep, NodeStep, NoTemplateStep, AcceptStep, AliasStep
       DEF FirstTemplate, NoAlias
  <2>2. running' = running
    <3>1. CASE loc' = "done"
      BY <1>5, <2>1, <3>1, FetchStep, SkipStep, EnterStep, NodeStep, NoTemplateStep,
         AcceptStep, AliasStep DEF FirstTemplate, NoAlias, Answer
    <3>. QED
      BY <2>1, <3>1
  <2>. QED
    BY <1>2, <2>1, <2>2
<1>6. CASE Ended \/ UNCHANGED vars
  BY <1>2, <1>6 DEF Ended, vars
<1>. QED
  BY <1>3, <1>4, <1>5, <1>6 DEF Next, Loop, DecodeInsn

\* The safety of StreamIsCursor: the loop over the decoder is a cursor that leaves its
\* buffer by three bytes at most, at its last instruction.
THEOREM LoopIsCursor == Spec => Cursor!Init /\ [][Cursor!Next]_(Cursor!cursor)
BY StartsAsCursor, MovesAsCursor, Invariant, PTL DEF Spec
=============================================================================
