---------------------------- MODULE AArch32Proofs ----------------------------
(***************************************************************************)
(* What is proved of amed_aarch32_decode_insn and the loop around it, for  *)
(* all tables that keep to the assumptions of AArch32Decoder.tla and all   *)
(* buffers: IInv is an invariant, and what follows from it.                *)
(***************************************************************************)
EXTENDS AArch32OperandProofs

-----------------------------------------------------------------------------
(* The tables.                                                             *)

\* A row has templates, and its aliases are rows.
LEMMA RowType ==
  ASSUME NEW e \in DOMAIN Encodings
  PROVE  /\ Len(Encodings[e].templates) \in Nat
         /\ DOMAIN Encodings[e].templates = 1..Len(Encodings[e].templates)
         /\ \A k \in 1..Len(Encodings[e].templates) :
              Encodings[e].templates[k] \in DOMAIN Templates
         /\ DOMAIN Encodings[e].aliases \subseteq Nat
         /\ \A i \in DOMAIN Encodings[e].aliases :
              Encodings[e].aliases[i] \in DOMAIN Encodings \ {0, e}
<1>. DEFINE t == Encodings[e].templates
            a == Encodings[e].aliases
<1>1. t \in Seq(DOMAIN Templates) /\ a \in Seq(DOMAIN Encodings \ {0, e})
  BY AArch32Assumption
<1>. HIDE DEF t, a
<1>2. /\ Len(t) \in Nat /\ DOMAIN t = 1..Len(t) /\ \A k \in 1..Len(t) : t[k] \in DOMAIN Templates
      /\ DOMAIN a = 1..Len(a) /\ \A i \in DOMAIN a : a[i] \in DOMAIN Encodings \ {0, e}
  BY <1>1
<1>. QED
  BY <1>2 DEF t, a

\* The lookup ends in a row of the word's instruction set that the word has the key of.
LEMMA LookupType ==
  ASSUME NEW isa, NEW code
  PROVE  Lookup(isa, code) \in DOMAIN Encodings /\
         (Lookup(isa, code) # 0 => Encodings[Lookup(isa, code)].isa = isa)
BY AArch32Assumption DEF Lookup

\* An alias is one of the row's, and one whose bits and condition the word meets.
LEMMA FirstAliasType ==
  ASSUME NEW e \in DOMAIN Encodings, FirstAlias(Encodings[e]) # 0
  PROVE  \E i \in DOMAIN Encodings[e].aliases :
           /\ FirstAlias(Encodings[e]) = Encodings[e].aliases[i]
           /\ Under(opcode, Encodings[FirstAlias(Encodings[e])])
           /\ AliasConditionOk(Encodings[FirstAlias(Encodings[e])].aliascond)
<1>. DEFINE a == Encodings[e].aliases
            taken == {i \in DOMAIN a : /\ Under(opcode, Encodings[a[i]])
                                       /\ AliasConditionOk(Encodings[a[i]].aliascond)}
            first == CHOOSE i \in taken : \A j \in taken : i <= j
<1>1. taken # {} /\ FirstAlias(Encodings[e]) = a[first]
  BY DEF FirstAlias
<1>2. taken \in SUBSET Nat
  BY RowType
<1>3. first \in taken
  <2>. HIDE DEF taken
  <2>. QED
    BY <1>1, <1>2, LeastNat
<1>. HIDE DEF first
<1>. QED
  BY <1>1, <1>3

\* What memory holds is a word of 32 bits, as it is fetched.
LEMMA FetchedType ==
  ASSUME NEW word, word \subseteq Low(32)
  PROVE  Fetched(word) \subseteq Low(32)
<1>1. word \cap Low(16) \subseteq Low(32)
  OBVIOUS
<1>2. ASSUME NEW b \in word
      PROVE  (b + 16) % 32 \in Low(32)
  BY DEF Low
<1>. QED
  BY <1>1, <1>2 DEF Fetched

-----------------------------------------------------------------------------
(* What the actions have in common.                                        *)

\* The template at hand is one of the tables, with nodes and slots enough.
LEMMA TemplateType ==
  ASSUME Shapes, internal.k \in 1..Len(Row.templates)
  PROVE  /\ Row.templates[internal.k] \in DOMAIN Templates /\ Template \in TemplatesOf(Row)
         /\ Len(Template.arguments) \in 0..8
         /\ \A i \in 1..Len(Template.arguments) : /\ IsNode(Template.arguments[i])
                                                   /\ IsListed(Template.arguments[i])
<1>1. /\ Row.templates[internal.k] \in DOMAIN Templates
      /\ internal.k \in DOMAIN Row.templates
  BY RowType DEF Shapes, Row
<1>2. Template \in TemplatesOf(Row)
  BY <1>1 DEF Template, TemplatesOf
<1>. QED
  <2>1. \A i \in 1..Len(Template.arguments) : IsListed(Template.arguments[i])
    BY <1>1, ListAssumption DEF Template, IsListed
  <2>. QED
    BY <1>1, <1>2, <2>1, TemplatesAssumption DEF Template

\* What the handler of the next node makes of the argument.
LEMMA DecodedType ==
  ASSUME IInv, loc = "node", Slot <= Len(Template.arguments)
  PROVE  /\ Slot \in 1..Len(Template.arguments) /\ Slot = Len(arguments) + 1 /\ Slot <= 8
         /\ IsWork(Decoded) /\ flags \subseteq Decoded.flags
         /\ Decoded.flags \subseteq flags \union OperandFlags
         /\ Decoded.ok =>
              /\ Decoded.arg.type = ArgumentOf(Template.arguments[Slot].type)
              /\ Decoded.arg.type = "REGISTER" => PcBranches(Decoded)
              /\ Means(Decoded.arg, opcode, Template.arguments[Slot])
<1>. DEFINE old == IF Slot = 1 THEN token ELSE 0
            w   == Fresh(internal, insn.mnemonic, old, flags)
<1>1. Len(arguments) \in Nat
  BY AppendSequence DEF IInv, Shapes
<1>2. /\ Slot \in 1..Len(Template.arguments) /\ Slot <= 8
      /\ IsNode(Template.arguments[Slot]) /\ IsListed(Template.arguments[Slot])
  <2>1. Shapes /\ internal.k \in 1..Len(Row.templates)
    BY DEF IInv, Shapes, Places, Decoding
  <2>2. /\ Len(Template.arguments) \in 0..8
        /\ \A i \in 1..Len(Template.arguments) : /\ IsNode(Template.arguments[i])
                                                  /\ IsListed(Template.arguments[i])
    BY <2>1, TemplateType
  <2>. QED
    BY <1>1, <2>2 DEF Slot
<1>3. old \in Int /\ flags \subseteq FlagNames
  <2>1. token \in 0..255 /\ flags \subseteq FlagNames
    BY DEF IInv, Shapes
  <2>. QED
    BY <2>1
<1>. HIDE DEF old
<1>4. /\ IsWork(w) /\ w.flags = flags /\ w.arg.type = "NONE" /\ w.arg.reg # PC
      /\ "write_back" \notin w.arg.attrs
  BY <1>3, FreshWork, FreshShows
<1>. HIDE DEF w
<1>5. Decoded = decode_node(w, Template.arguments[Slot])
  BY DEF Decoded, w, old
<1>6. Builds(w, Decoded)
  BY <1>2, <1>4, <1>5, NodeBuilds
<1>7. Decoded.ok => /\ Decoded.arg.type = ArgumentOf(Template.arguments[Slot].type)
                    /\ Decoded.arg.type = "REGISTER" => PcBranches(Decoded)
  BY <1>2, <1>4, <1>5, NodeShows
<1>8. Decoded.ok => Means(Decoded.arg, opcode, Template.arguments[Slot])
  BY <1>2, <1>4, <1>5, NodeMeans
<1>. QED
  BY <1>2, <1>4, <1>6, <1>7, <1>8 DEF Builds, Slot

\* What all ways to accept a template do.
LEMMA AcceptStep ==
  ASSUME IInv, NEW fields, NEW raised, raised \subseteq FlagNames \ {"is_alias"},
         DOMAIN fields = InsnFields, Complete, Accept(fields, raised)
  PROVE  /\ loc = "node" /\ Len(arguments) = Len(Template.arguments)
         /\ UNCHANGED <<context, opcode, arguments, token, internal>>
         /\ insn' = [fields EXCEPT !.encoding = internal.encoding,
                                   !.argument_count = Len(arguments)]
         /\ DOMAIN insn' = InsnFields
         /\ flags' \subseteq FlagNames /\ flags \ {"conditional"} \subseteq flags'
         /\ raised \subseteq flags'
         /\ \A f \in {"undefined", "conditional"} :
              f \in flags' => f \in raised \/ (f = "undefined" /\ f \in flags)
         /\ "is_alias" \in flags' <=> internal.alias
         /\ \/ loc' = "done" /\ ret'
            \/ /\ loc' = "alias" /\ ret' = ret /\ ~internal.alias /\ Row.aliases # <<>>
               /\ "undefined" \notin flags'
<1>1. loc = "node" /\ Len(arguments) = Len(Template.arguments)
  <2>1. Len(arguments) \in Nat
    BY AppendSequence DEF IInv, Shapes
  <2>2. Len(Template.arguments) \in Nat
    BY TemplateType DEF IInv, Shapes, Places, Complete
  <2>. QED
    BY <2>1, <2>2 DEF Complete, Slot, IInv, Places
<1>2. flags \subseteq FlagNames /\ "is_alias" \notin flags
  BY <1>1 DEF IInv, Shapes, Showing, Decoding
<1>3. flags' = AcceptedFlags(raised)
  BY DEF Accept
<1>4. /\ flags' \subseteq FlagNames /\ flags \ {"conditional"} \subseteq flags'
      /\ raised \subseteq flags'
      /\ \A f \in {"undefined", "conditional"} :
           f \in flags' => f \in raised \/ (f = "undefined" /\ f \in flags)
      /\ "is_alias" \in flags' <=> internal.alias
  BY <1>2, <1>3 DEF AcceptedFlags, Only, FlagNames
<1>. QED
  BY <1>1, <1>4 DEF Accept, Answer, ArgumentCount, InsnFields
\* The lowest bit of a mask, and with it the number of instructions in a block.
LEMMA MaskType ==
  ASSUME NEW mask, mask \subseteq Low(4)
  PROVE  /\ ItCount(mask) \in 0..4
         /\ mask # {} => LET last == CHOOSE b \in mask : \A x \in mask : b <= x
                        IN  /\ last \in mask /\ last \in 0..3 /\ \A b \in mask : last <= b
                            /\ ItCount(mask) = 4 - last
<1>1. mask \in SUBSET Nat /\ mask \subseteq 0..3
  BY DEF Low
<1>. DEFINE last == CHOOSE b \in mask : \A x \in mask : b <= x
<1>2. ASSUME mask # {}
      PROVE  last \in mask /\ \A b \in mask : last <= b
  BY <1>1, <1>2, LeastNat
<1>3. mask # {} => last \in 0..3
  BY <1>1, <1>2
<1>. HIDE DEF last
<1>4. ItCount(mask) = IF mask = {} THEN 0 ELSE 4 - last
  BY DEF ItCount, last
<1>5. ItCount(mask) \in 0..4 /\ (mask # {} => ItCount(mask) = 4 - last)
  BY <1>3, <1>4
<1>. QED
  BY <1>2, <1>3, <1>5 DEF last

\* The three ways to accept a template keep to what AcceptStep needs.
LEMMA CompleteStep ==
  ASSUME IInv, ArmCondition \/ ThumbCondition \/ ItInstruction
  PROVE  \E fields, raised :
           /\ raised \subseteq FlagNames \ {"is_alias"} /\ DOMAIN fields = InsnFields
           /\ Complete /\ Accept(fields, raised)
           /\ fields.length = insn.length /\ fields.iform = insn.iform
           /\ fields.mnemonic = insn.mnemonic
<1>1. DOMAIN insn = InsnFields
  BY DEF IInv, Shapes
<1>2. ASSUME NEW condition, Complete, UnderCondition(condition)
      PROVE  \E fields, raised :
               /\ raised \subseteq FlagNames \ {"is_alias"} /\ DOMAIN fields = InsnFields
               /\ Complete /\ Accept(fields, raised)
               /\ fields.length = insn.length /\ fields.iform = insn.iform
               /\ fields.mnemonic = insn.mnemonic
  <2>. DEFINE c == decode_conditional_execution(Template.cond, condition)
              fields == [insn EXCEPT !.condition = c.condition]
              raised == Only(~c.ok, {"undefined"}) \union Only(c.unpredictable, {"unpredictable"})
                          \union Only(c.condition < AL, {"conditional"})
  <2>. HIDE DEF c
  <2>1. Accept(fields, raised)
    BY <1>2 DEF UnderCondition, c
  <2>2. raised \subseteq FlagNames \ {"is_alias"}
    BY DEF Only, FlagNames
  <2>. HIDE DEF raised
  <2>3. /\ DOMAIN fields = InsnFields /\ fields.length = insn.length
        /\ fields.iform = insn.iform /\ fields.mnemonic = insn.mnemonic
    BY <1>1 DEF InsnFields
  <2>. QED
    BY <1>2, <2>1, <2>2, <2>3
<1>3. CASE ArmCondition
  BY <1>2, <1>3 DEF ArmCondition
<1>4. CASE ThumbCondition
  BY <1>2, <1>4 DEF ThumbCondition
<1>5. CASE ItInstruction
  <2>. DEFINE mask == opcode \cap Low(4)
              fields == [insn EXCEPT !.condition = IF itblock.is_in THEN 0 ELSE AL,
                                     !.it_op = get_it_op_from_mask(mask),
                                     !.it_insn_count = ItCount(mask)]
              raised == Only(itblock.is_in, {"unpredictable"})
  <2>1. Complete /\ Accept(fields, raised)
    BY <1>5 DEF ItInstruction
  <2>2. raised \subseteq FlagNames \ {"is_alias"}
    BY DEF Only, FlagNames
  <2>. HIDE DEF raised
  <2>3. /\ DOMAIN fields = InsnFields /\ fields.length = insn.length
        /\ fields.iform = insn.iform /\ fields.mnemonic = insn.mnemonic
    BY <1>1 DEF InsnFields
  <2>. QED
    BY <2>1, <2>2, <2>3
<1>. QED
  BY <1>3, <1>4, <1>5

-----------------------------------------------------------------------------
(* Shapes.                                                                 *)

\* The first state.
LEMMA InitShapes == Init => Shapes
<1>. SUFFICES ASSUME Init
              PROVE  Shapes
  OBVIOUS
<1>1. /\ context.machine_mode \in DOMAIN Words
      /\ context \in [machine_mode : DOMAIN Words, address : Nat, length : Nat,
                      decode_aliases : BOOLEAN]
  <2>1. context \in [machine_mode : DOMAIN Words, address : {0}, length : Lengths,
                      decode_aliases : BOOLEAN]
    BY DEF Init
  <2>2. Lengths \subseteq Nat
    BY BufferAssumption
  <2>3. /\ context = [machine_mode |-> context.machine_mode, address |-> context.address,
                      length |-> context.length, decode_aliases |-> context.decode_aliases]
        /\ context.machine_mode \in DOMAIN Words /\ context.address = 0
        /\ context.length \in Lengths /\ context.decode_aliases \in BOOLEAN
    BY <2>1
  <2>4. context.length \in Nat /\ context.address \in Nat
    BY <2>2, <2>3
  <2>. QED
    BY <2>3, <2>4
<1>2. itblock \in [is_in : BOOLEAN, index : {0}, count : 0..4, conditions : [1..4 -> 0..255]]
  <2>1. <<0, 0, 0, 0>> \in [1..4 -> 0..255]
    OBVIOUS
  <2>. QED
    BY <2>1 DEF Init, NoBlock
<1>3. DOMAIN insn = InsnFields /\ DOMAIN internal = InternalFields
  BY DEF Init, StaleInsn, InsnFields, BlankInternal, InternalFields
<1>4. internal.encoding = 0 /\ internal.alias = FALSE /\ internal.k = 0
  BY DEF Init, BlankInternal
<1>5. 0 \in DOMAIN Encodings /\ Len(Row.templates) \in Nat
  BY <1>4, RowType, AArch32Assumption DEF Row
<1>6. IsSequence(arguments) /\ Len(arguments) <= 8
  BY EmptySequence DEF Init
<1>7. token \in 0..255 /\ opcode = {} /\ flags = {} /\ loc = "call" /\ ret = TRUE
  BY BufferAssumption DEF Init
<1>8. /\ internal.encoding \in DOMAIN Encodings /\ internal.alias \in BOOLEAN
      /\ internal.k \in 0..Len(Row.templates) + 1
  BY <1>4, <1>5
<1>9. /\ opcode \subseteq Low(32) /\ flags \subseteq FlagNames /\ ret \in BOOLEAN
      /\ loc \in {"call", "encoding", "template", "node", "alias", "done"}
  BY <1>7
<1>. QED
  BY <1>1, <1>2, <1>3, <1>6, <1>7, <1>8, <1>9 DEF Shapes

\* What Shapes says of the decoder's own state, apart from the caller's.
CallShape ==
  /\ DOMAIN insn = InsnFields /\ DOMAIN internal = InternalFields
  /\ internal.encoding \in DOMAIN Encodings /\ internal.alias \in BOOLEAN
  /\ internal.k \in 0..Len(Row.templates) + 1
  /\ opcode \subseteq Low(32) /\ flags \subseteq FlagNames /\ token \in 0..255
  /\ IsSequence(arguments) /\ Len(arguments) <= 8
  /\ loc \in {"call", "encoding", "template", "node", "alias", "done"} /\ ret \in BOOLEAN

\* A step that leaves the caller's state alone.
LEMMA ShapesKept ==
  ASSUME Shapes, UNCHANGED <<context, itblock>>, CallShape'
  PROVE  Shapes'
BY DEF Shapes, CallShape

\* A step of the state that Shapes speaks of, as far as a step changes it.
LEMMA ShapesStep ==
  ASSUME IInv, [Next]_vars
  PROVE  Shapes'
<1>0. Shapes
  BY DEF IInv
<1>13. CallShape /\ (loc # "done" => ret) /\ (Decoding => internal.k >= 1)
  BY DEF IInv, Shapes, CallShape, Places
<1>1. CASE RejectEmpty \/ NoTemplate \/ NoAlias
  <2>1. /\ UNCHANGED <<context, itblock, opcode, insn, arguments, flags, token, internal>>
        /\ loc' = "done" /\ ret' \in BOOLEAN
    <3>1. CASE RejectEmpty
      BY <3>1 DEF RejectEmpty, Answer, result
    <3>2. CASE NoTemplate
      BY <1>13, <3>2 DEF NoTemplate, Answer, result, CallShape
    <3>3. CASE NoAlias
      BY <3>3 DEF NoAlias, Answer, result
    <3>. QED
      BY <1>1, <3>1, <3>2, <3>3
  <2>2. CallShape'
    BY <1>13, <2>1 DEF CallShape, Row
  <2>. QED
    BY <1>0, <2>1, <2>2, ShapesKept
<1>2. CASE Reject
  <2>1. DOMAIN insn' = InsnFields /\ flags' = {}
    BY <1>2 DEF Reject, StaleInsn, InsnFields
  <2>2. /\ UNCHANGED <<context, itblock, opcode, arguments, token, internal>>
        /\ loc' = "done" /\ ret' \in BOOLEAN
    BY <1>2 DEF Reject, Answer
  <2>3. CallShape'
    BY <1>13, <2>1, <2>2 DEF CallShape, Row
  <2>. QED
    BY <1>0, <2>2, <2>3, ShapesKept
<1>3. CASE Fetch
  <2>1. PICK word \in Words[context.machine_mode], dst \in Garbage :
          /\ opcode' = Fetched(word)
          /\ insn' = [StaleInsn EXCEPT !.length = Size(word)]
          /\ internal' = [BlankInternal EXCEPT
                             !.encoding = Lookup(InstructionSet(word), Fetched(word)),
                             !.k = 1, !.dst_reg = dst]
    BY <1>3 DEF Fetch
  <2>2. opcode' \subseteq Low(32)
    BY <1>0, <2>1, BufferAssumption, FetchedType DEF Shapes, Word32
  <2>3. DOMAIN insn' = InsnFields
    BY <2>1 DEF StaleInsn, InsnFields
  <2>4. /\ DOMAIN internal' = InternalFields /\ internal'.alias = FALSE /\ internal'.k = 1
        /\ internal'.encoding = Lookup(InstructionSet(word), Fetched(word))
    BY <2>1 DEF BlankInternal, InternalFields
  <2>5. internal'.encoding \in DOMAIN Encodings /\ Len(Row'.templates) \in Nat
    BY <2>4, LookupType, RowType DEF Row
  <2>6. IsSequence(arguments') /\ Len(arguments') <= 8 /\ flags' = {} /\ loc' = "encoding"
        /\ UNCHANGED <<context, itblock, token, ret>>
    BY <1>3, EmptySequence DEF Fetch
  <2>7. internal'.k \in 0..Len(Row'.templates) + 1
    BY <2>4, <2>5
  <2>8. internal'.alias \in BOOLEAN /\ flags' \subseteq FlagNames
    BY <2>4, <2>6, Zenon
  <2>9. CallShape'
    BY <1>13, <2>2, <2>3, <2>4, <2>5, <2>6, <2>7, <2>8 DEF CallShape
  <2>. QED
    BY <1>0, <2>6, <2>9, ShapesKept
<1>4. CASE Undefined
  <2>1. /\ UNCHANGED <<context, itblock, opcode, insn, arguments, token, internal>>
        /\ loc' = "done" /\ ret' \in BOOLEAN /\ flags' \subseteq flags \union FlagNames
    BY <1>4 DEF Undefined, Answer, FlagNames
  <2>2. CallShape'
    BY <1>13, <2>1 DEF CallShape, Row
  <2>. QED
    BY <1>0, <2>1, <2>2, ShapesKept
<1>5. CASE FirstTemplate
  <2>1. /\ UNCHANGED <<context, itblock, opcode, insn, arguments, flags, token, internal>>
        /\ loc' = "template" /\ UNCHANGED ret
    BY <1>5 DEF FirstTemplate, result
  <2>2. CallShape'
    BY <1>13, <2>1 DEF CallShape, Row
  <2>. QED
    BY <1>0, <2>1, <2>2, ShapesKept
<1>6. CASE SkipTemplate
  <2>1. /\ internal' = [internal EXCEPT !.k = @ + 1] /\ internal.k <= Len(Row.templates)
        /\ UNCHANGED <<context, itblock, opcode, result, loc, ret>>
    BY <1>6 DEF SkipTemplate, MoreTemplates
  <2>2. /\ DOMAIN internal' = InternalFields /\ internal'.encoding = internal.encoding
        /\ internal'.alias = internal.alias /\ internal'.k = internal.k + 1
    BY <1>13, <2>1 DEF CallShape, InternalFields
  <2>3. Row' = Row /\ Len(Row.templates) \in Nat
    BY <1>13, <2>2, RowType DEF CallShape, Row
  <2>4. CallShape'
    BY <1>13, <2>1, <2>2, <2>3 DEF CallShape, result
  <2>. QED
    BY <1>0, <2>1, <2>4, ShapesKept
<1>7. CASE EnterTemplate
  <2>1. DOMAIN insn' = InsnFields
    BY <1>13, <1>7 DEF EnterTemplate, CallShape, InsnFields
  <2>2. IsSequence(arguments') /\ Len(arguments') = 0
    BY <1>7, EmptySequence DEF EnterTemplate
  <2>3. /\ UNCHANGED <<context, itblock, opcode, token, internal, ret>>
        /\ flags' \subseteq flags /\ loc' = "node"
    BY <1>7 DEF EnterTemplate
  <2>4. CallShape'
    BY <1>13, <2>1, <2>2, <2>3 DEF CallShape, Row
  <2>. QED
    BY <1>0, <2>3, <2>4, ShapesKept
<1>8. CASE DecodeNode \/ RefuseNode
  <2>1. /\ loc = "node" /\ Slot <= Len(Template.arguments) /\ Written(Decoded)
        /\ UNCHANGED <<context, itblock, opcode, insn, ret>>
        /\ loc' \in {"node", "template"}
    BY <1>8 DEF DecodeNode, RefuseNode
  <2>2. IsWork(Decoded) /\ Slot = Len(arguments) + 1 /\ Slot <= 8
    BY <2>1, DecodedType
  <2>3. /\ DOMAIN internal' = InternalFields /\ internal'.encoding = internal.encoding
        /\ internal'.alias = internal.alias /\ internal'.k \in {internal.k, internal.k + 1}
    BY <1>13, <1>8 DEF DecodeNode, RefuseNode, CallShape, InternalFields
  <2>4. internal'.k \in 0..Len(Row'.templates) + 1
    <3>1. internal.k + 1 <= Len(Row.templates) + 1 /\ Row' = Row /\ Len(Row.templates) \in Nat
      BY <1>13, <2>1, <2>3, RowType DEF IInv, Places, CallShape, Row
    <3>. QED
      BY <1>13, <2>3, <3>1 DEF CallShape
  <2>5. IsSequence(arguments') /\ Len(arguments') <= 8
    BY <1>13, <2>1, <2>2, AppendSequence DEF Written, CallShape
  <2>6. flags' \subseteq FlagNames /\ token' \in 0..255
    <3>1. Decoded.flags \subseteq FlagNames /\ Decoded.arg.token \in Int
      BY <2>2 DEF IsWork
    <3>2. \A n \in Int : n % 256 \in 0..255
      OBVIOUS
    <3>. QED
      BY <1>13, <2>1, <3>1, <3>2 DEF Written, CallShape
  <2>7. CallShape'
    BY <1>13, <2>1, <2>3, <2>4, <2>5, <2>6 DEF CallShape
  <2>. QED
    BY <1>0, <2>1, <2>7, ShapesKept
<1>9. CASE ArmCondition \/ ThumbCondition \/ ItInstruction
  <2>1. PICK fields, raised : /\ raised \subseteq FlagNames \ {"is_alias"}
                              /\ DOMAIN fields = InsnFields
                              /\ Complete /\ Accept(fields, raised)
    BY <1>9, CompleteStep
  <2>2. /\ UNCHANGED <<context, opcode, arguments, token, internal>>
        /\ DOMAIN insn' = InsnFields /\ flags' \subseteq FlagNames
        /\ loc' \in {"done", "alias"} /\ ret' \in BOOLEAN
    <3>1. (loc' = "done" /\ ret') \/ (loc' = "alias" /\ ret' = ret)
      BY <2>1, AcceptStep
    <3>2. ret' \in BOOLEAN
      BY <1>13, <2>1 DEF Accept, Answer, CallShape
    <3>. QED
      BY <2>1, <3>1, <3>2, AcceptStep
  <2>3. itblock' \in [is_in : BOOLEAN, index : {0}, count : 0..4, conditions : [1..4 -> 0..255]]
    <3>1. CASE ItInstruction
      <4>. DEFINE mask == opcode \cap Low(4)
                  other(i) == IF 5 - i \in mask THEN Flipped(token) ELSE token
                  conditions == [i \in 1..4 |-> IF i = 1 THEN token
                                                ELSE IF i <= ItCount(mask) THEN other(i)
                                                ELSE AL]
      <4>1. token \in 0..255 /\ Flipped(token) \in 0..255 /\ AL \in 0..255
        <5>1. token \in 0..255
          BY <1>13 DEF CallShape
        <5>. QED
          BY <5>1 DEF Flipped, AL
      <4>2. conditions \in [1..4 -> 0..255]
        BY <4>1
      <4>3. ItCount(mask) \in 0..4
        BY MaskType
      <4>4. itblock' = [is_in |-> TRUE, index |-> 0, count |-> ItCount(mask),
                        conditions |-> conditions]
        BY <3>1 DEF ItInstruction
      <4>. HIDE DEF conditions, mask
      <4>. QED
        BY <4>2, <4>3, <4>4
    <3>2. CASE ArmCondition \/ ThumbCondition
      BY <1>0, <3>2 DEF ArmCondition, ThumbCondition, Shapes
    <3>. QED
      BY <1>9, <3>1, <3>2
  <2>4. CallShape'
    BY <1>13, <2>2 DEF CallShape, Row
  <2>. QED
    BY <1>0, <2>2, <2>3, <2>4 DEF Shapes, CallShape
<1>10. CASE TakeAlias
  <2>1. /\ internal' = [internal EXCEPT !.encoding = FirstAlias(Row), !.k = 1, !.alias = TRUE]
        /\ FirstAlias(Row) # 0 /\ loc' = "encoding"
        /\ UNCHANGED <<context, itblock, opcode, result, ret>>
    BY <1>10 DEF TakeAlias
  <2>2. FirstAlias(Row) \in DOMAIN Encodings
    BY <1>13, <2>1, FirstAliasType, RowType DEF CallShape, Row
  <2>3. /\ DOMAIN internal' = InternalFields /\ internal'.encoding = FirstAlias(Row)
        /\ internal'.alias = TRUE /\ internal'.k = 1
    BY <1>13, <2>1 DEF CallShape, InternalFields
  <2>4. Len(Row'.templates) \in Nat
    BY <2>2, <2>3, RowType DEF Row
  <2>5. internal'.k \in 0..Len(Row'.templates) + 1 /\ internal'.alias \in BOOLEAN
    <3>1. \A n \in Nat : 1 \in 0..n + 1
      OBVIOUS
    <3>2. 1 \in 0..Len(Row'.templates) + 1
      BY <2>4, <3>1, Zenon
    <3>. QED
      BY <2>3, <3>2, Zenon
  <2>6. UNCHANGED <<context, itblock, opcode, insn, arguments, flags, token, ret>>
    BY <2>1 DEF result
  <2>7. internal'.encoding \in DOMAIN Encodings /\ DOMAIN internal' = InternalFields
    BY <2>2, <2>3
  <2>8. loc' = "encoding"
    BY <2>1
  <2>9. CallShape'
    BY <1>13, <2>5, <2>6, <2>7, <2>8 DEF CallShape
  <2>. QED
    BY <1>0, <2>6, <2>9, ShapesKept
<1>11. CASE NextInsn
  <2>1. /\ context' = Advanced(insn.length) /\ insn' = StaleInsn /\ flags' = {}
        /\ arguments' = <<>> /\ opcode' = {} /\ internal' = BlankInternal /\ loc' = "call"
        /\ loc = "done" /\ ret /\ UNCHANGED <<itblock, token, ret>>
    BY <1>11 DEF NextInsn
  <2>2. insn.length \in {2, 4} /\ insn.length <= context.length
    BY <2>1 DEF IInv, Read, Returned
  <2>3. context' \in [machine_mode : DOMAIN Words, address : Nat, length : Nat,
                      decode_aliases : BOOLEAN]
    <3>1. /\ context' = [context EXCEPT !.address = @ + insn.length,
                                        !.length = @ - insn.length]
          /\ context.length - insn.length \in Nat /\ context.address + insn.length \in Nat
      BY <1>0, <2>1, <2>2 DEF Advanced, Shapes
    <3>. QED
      BY <1>0, <3>1 DEF Shapes
  <2>4. /\ DOMAIN insn' = InsnFields /\ DOMAIN internal' = InternalFields
        /\ internal'.encoding = 0 /\ internal'.alias = FALSE /\ internal'.k = 0
    BY <2>1 DEF StaleInsn, InsnFields, BlankInternal, InternalFields
  <2>5. 0 \in DOMAIN Encodings /\ Len(Row'.templates) \in Nat
    BY <2>4, RowType, AArch32Assumption DEF Row
  <2>6. IsSequence(arguments') /\ Len(arguments') <= 8
    BY <2>1, EmptySequence
  <2>7. /\ internal'.k \in 0..Len(Row'.templates) + 1 /\ internal'.alias \in BOOLEAN
        /\ flags' \subseteq FlagNames /\ opcode' \subseteq Low(32)
    BY <2>1, <2>4, <2>5
  <2>8. CallShape'
    BY <1>13, <2>1, <2>4, <2>5, <2>6, <2>7 DEF CallShape
  <2>. QED
    BY <1>0, <2>1, <2>3, <2>8 DEF Shapes, CallShape
<1>12. CASE Ended \/ UNCHANGED vars
  <2>1. /\ UNCHANGED <<context, itblock, opcode, insn, arguments, flags, token, internal>>
        /\ UNCHANGED <<loc, ret>>
    BY <1>12 DEF Ended, vars, result
  <2>2. CallShape'
    BY <1>13, <2>1 DEF CallShape, Row
  <2>. QED
    BY <1>0, <2>1, <2>2, ShapesKept
<1>. QED
  BY <1>1, <1>2, <1>3, <1>4, <1>5, <1>6, <1>7, <1>8, <1>9, <1>10, <1>11, <1>12
     DEF Next, Loop, DecodeInsn
-----------------------------------------------------------------------------
(* What the actions do to the row and the template at hand.                *)

\* The row stays where the encoding does, and the template where its index does.
LEMMA RowStays ==
  ASSUME UNCHANGED internal.encoding
  PROVE  Row' = Row /\ (UNCHANGED internal.k => Template' = Template)
BY DEF Row, Template

\* The base encoding stays where the word, its length and the mode do.
LEMMA BaseStays ==
  ASSUME UNCHANGED <<context, opcode, insn.length>>
  PROVE  BaseEncoding' = BaseEncoding /\ BaseRow' = BaseRow /\ InA32' = InA32
BY DEF BaseEncoding, BaseRow, InA32

\* A call reads a word.
LEMMA FetchStep ==
  ASSUME IInv, Fetch
  PROVE  \E word \in Words[context.machine_mode] :
           /\ context.machine_mode \in {A32, THUMB}
           /\ Size(word) \in {2, 4} /\ Size(word) <= context.length
           /\ Size(word) = 4 <=> context.machine_mode = A32 \/ ~is_thumb16(word)
           /\ opcode' = Fetched(word) /\ insn'.length = Size(word)
           /\ internal'.encoding = Lookup(InstructionSet(word), Fetched(word))
           /\ internal'.k = 1 /\ internal'.alias = FALSE
           /\ loc' = "encoding" /\ flags' = {} /\ arguments' = <<>>
           /\ UNCHANGED <<context, itblock, token, ret>> /\ loc = "call"
<1>1. PICK word \in Words[context.machine_mode], dst \in Garbage :
        /\ ~TooShort(Size(word))
        /\ opcode' = Fetched(word)
        /\ insn' = [StaleInsn EXCEPT !.length = Size(word)]
        /\ internal' = [BlankInternal EXCEPT
                          !.encoding = Lookup(InstructionSet(word), Fetched(word)),
                          !.k = 1, !.dst_reg = dst]
  BY DEF Fetch
<1>2. insn'.length = Size(word)
  BY <1>1 DEF StaleInsn
<1>3. /\ internal'.encoding = Lookup(InstructionSet(word), Fetched(word))
      /\ internal'.k = 1 /\ internal'.alias = FALSE
  BY <1>1 DEF BlankInternal
<1>4. /\ Size(word) \in {2, 4}
      /\ Size(word) = 4 <=> context.machine_mode = A32 \/ ~is_thumb16(word)
  BY DEF Size
<1>5. Size(word) <= context.length
  <2>1. context.length \in Nat
    BY DEF IInv, Shapes
  <2>. QED
    BY <1>1, <1>4, <2>1 DEF TooShort
<1>. QED
  BY <1>1, <1>2, <1>3, <1>4, <1>5 DEF Fetch

\* A template that is not for this word or this place is passed over.
LEMMA SkipStep ==
  ASSUME IInv, SkipTemplate
  PROVE  /\ loc = "template" /\ internal.k \in 1..Len(Row.templates)
         /\ internal'.encoding = internal.encoding /\ internal'.alias = internal.alias
         /\ internal'.k = internal.k + 1 /\ Row' = Row
         /\ UNCHANGED <<context, itblock, opcode, insn, flags, arguments, token, loc, ret>>
<1>1. /\ loc = "template" /\ internal.k <= Len(Row.templates)
      /\ internal' = [internal EXCEPT !.k = @ + 1]
      /\ UNCHANGED <<context, itblock, opcode, insn, flags, arguments, token, loc, ret>>
  BY DEF SkipTemplate, MoreTemplates, result
<1>2. DOMAIN internal = InternalFields /\ internal.k \in Nat /\ Len(Row.templates) \in Nat
  BY RowType DEF IInv, Shapes, Row
<1>3. internal.k >= 1
  BY <1>1 DEF IInv, Places, Decoding
<1>4. /\ internal'.encoding = internal.encoding /\ internal'.alias = internal.alias
      /\ internal'.k = internal.k + 1
  BY <1>1, <1>2 DEF InternalFields
<1>. QED
  BY <1>1, <1>2, <1>3, <1>4, RowStays

\* A template is begun with no arguments.
LEMMA EnterStep ==
  ASSUME IInv, EnterTemplate
  PROVE  /\ loc = "template" /\ loc' = "node" /\ internal.k \in 1..Len(Row.templates)
         /\ Under(opcode, Template) /\ arguments' = <<>>
         /\ insn'.iform = Template.iform /\ insn'.mnemonic = Template.mnemonic
         /\ \A f \in InsnFields \ {"iform", "mnemonic"} : insn'[f] = insn[f]
         /\ Row' = Row /\ Template' = Template
         /\ UNCHANGED <<context, itblock, opcode, flags, token, internal, ret>>
<1>1. /\ loc = "template" /\ internal.k <= Len(Row.templates) /\ Under(opcode, Template)
      /\ insn' = [insn EXCEPT !.iform = Template.iform, !.mnemonic = Template.mnemonic]
      /\ arguments' = <<>> /\ loc' = "node"
      /\ UNCHANGED <<context, itblock, opcode, flags, token, internal, ret>>
  BY DEF EnterTemplate, MoreTemplates, Fits
<1>2. DOMAIN insn = InsnFields /\ internal.k \in Nat /\ Len(Row.templates) \in Nat
  BY RowType DEF IInv, Shapes, Row
<1>3. internal.k >= 1
  BY <1>1 DEF IInv, Places, Decoding
<1>4. /\ insn'.iform = Template.iform /\ insn'.mnemonic = Template.mnemonic
      /\ \A f \in InsnFields \ {"iform", "mnemonic"} : insn'[f] = insn[f]
  BY <1>1, <1>2 DEF InsnFields
<1>. QED
  BY <1>1, <1>2, <1>3, <1>4, RowStays

\* A node is decoded, and its template goes on or is given up.
LEMMA NodeStep ==
  ASSUME IInv, DecodeNode \/ RefuseNode
  PROVE  /\ loc = "node" /\ Slot \in 1..Len(Template.arguments) /\ Slot = Len(arguments) + 1
         /\ IsWork(Decoded) /\ flags' = Decoded.flags
         /\ flags \subseteq flags' /\ flags' \subseteq flags \union OperandFlags
         /\ arguments' = Append(arguments, Decoded.arg)
         /\ internal'.encoding = internal.encoding /\ internal'.alias = internal.alias
         /\ Row' = Row /\ UNCHANGED <<context, itblock, opcode, insn, ret>>
         /\ \/ /\ loc' = "node" /\ Decoded.ok /\ internal'.k = internal.k
               /\ Template' = Template
            \/ loc' = "template" /\ internal'.k = internal.k + 1
<1>1. /\ loc = "node" /\ Slot <= Len(Template.arguments) /\ Written(Decoded)
      /\ UNCHANGED <<context, itblock, opcode, insn, ret>>
      /\ \/ /\ loc' = "node" /\ Decoded.ok
            /\ internal' = [internal EXCEPT !.lsb = Decoded.lsb, !.dst_reg = Decoded.dst_reg]
         \/ /\ loc' = "template"
            /\ internal' = [internal EXCEPT !.k = @ + 1, !.lsb = Decoded.lsb,
                                            !.dst_reg = Decoded.dst_reg]
  BY DEF DecodeNode, RefuseNode
<1>2. DOMAIN internal = InternalFields /\ internal.k \in Nat
  BY RowType DEF IInv, Shapes, Row
<1>3. /\ internal'.encoding = internal.encoding /\ internal'.alias = internal.alias
      /\ \/ loc' = "node" /\ Decoded.ok /\ internal'.k = internal.k
         \/ loc' = "template" /\ internal'.k = internal.k + 1
  BY <1>1, <1>2 DEF InternalFields
<1>4. Row' = Row /\ (internal'.k = internal.k => Template' = Template)
  BY <1>3, RowStays
<1>5. /\ Slot \in 1..Len(Template.arguments) /\ Slot = Len(arguments) + 1
      /\ IsWork(Decoded) /\ flags \subseteq Decoded.flags
      /\ Decoded.flags \subseteq flags \union OperandFlags
  BY <1>1, DecodedType
<1>6. flags' = Decoded.flags /\ arguments' = Append(arguments, Decoded.arg)
  BY <1>1 DEF Written
<1>. QED
  BY <1>1, <1>3, <1>4, <1>5, <1>6

\* An alias is decoded over the instruction.
LEMMA AliasStep ==
  ASSUME IInv, TakeAlias
  PROVE  /\ loc = "alias" /\ loc' = "encoding" /\ internal'.k = 1 /\ internal'.alias = TRUE
         /\ \E i \in DOMAIN Row.aliases : internal'.encoding = Row.aliases[i]
         /\ UNCHANGED <<context, itblock, opcode, insn, flags, arguments, token, ret>>
<1>1. /\ loc = "alias" /\ loc' = "encoding" /\ FirstAlias(Row) # 0
      /\ internal' = [internal EXCEPT !.encoding = FirstAlias(Row), !.k = 1, !.alias = TRUE]
      /\ UNCHANGED <<context, itblock, opcode, insn, flags, arguments, token, ret>>
  BY DEF TakeAlias, result
<1>2. DOMAIN internal = InternalFields /\ internal.encoding \in DOMAIN Encodings
  BY DEF IInv, Shapes
<1>3. \E i \in DOMAIN Row.aliases : FirstAlias(Row) = Row.aliases[i]
  BY <1>1, <1>2, FirstAliasType DEF Row
<1>4. internal'.encoding = FirstAlias(Row) /\ internal'.k = 1 /\ internal'.alias = TRUE
  BY <1>1, <1>2 DEF InternalFields
<1>. QED
  BY <1>1, <1>3, <1>4

\* What a way to accept a template keeps, and where it leads.
LEMMA AcceptedStep ==
  ASSUME IInv, ArmCondition \/ ThumbCondition \/ ItInstruction
  PROVE  /\ loc = "node" /\ Len(arguments) = Len(Template.arguments)
         /\ UNCHANGED <<context, opcode, arguments, token, internal>>
         /\ Row' = Row /\ Template' = Template
         /\ insn'.length = insn.length /\ insn'.iform = insn.iform
         /\ insn'.mnemonic = insn.mnemonic
         /\ insn'.encoding = internal.encoding /\ insn'.argument_count = Len(arguments)
         /\ flags \ {"conditional"} \subseteq flags'
         /\ "is_alias" \in flags' <=> internal.alias
         /\ \/ loc' = "done" /\ ret'
            \/ loc' = "alias" /\ ret' = ret /\ ~internal.alias /\ Row.aliases # <<>>
<1>1. PICK fields, raised : /\ raised \subseteq FlagNames \ {"is_alias"}
                            /\ DOMAIN fields = InsnFields
                            /\ Complete /\ Accept(fields, raised)
                            /\ fields.length = insn.length /\ fields.iform = insn.iform
                            /\ fields.mnemonic = insn.mnemonic
  BY CompleteStep
<1>2. /\ loc = "node" /\ Len(arguments) = Len(Template.arguments)
      /\ UNCHANGED <<context, opcode, arguments, token, internal>>
      /\ insn' = [fields EXCEPT !.encoding = internal.encoding,
                                !.argument_count = Len(arguments)]
      /\ flags \ {"conditional"} \subseteq flags'
      /\ "is_alias" \in flags' <=> internal.alias
  BY <1>1, AcceptStep
<1>3. \/ loc' = "done" /\ ret'
      \/ loc' = "alias" /\ ret' = ret /\ ~internal.alias /\ Row.aliases # <<>>
  BY <1>1, AcceptStep
<1>4. /\ insn'.length = insn.length /\ insn'.iform = insn.iform
      /\ insn'.mnemonic = insn.mnemonic
      /\ insn'.encoding = internal.encoding /\ insn'.argument_count = Len(arguments)
  BY <1>1, <1>2 DEF InsnFields
<1>. QED
  BY <1>2, <1>3, <1>4, RowStays
-----------------------------------------------------------------------------
(* Places.                                                                 *)

\* Each place is reached with the row and the template it relies on.
LEMMA PlacesStep ==
  ASSUME IInv, [Next]_vars
  PROVE  Places'
<1>0. Places
  BY DEF IInv
<1>1. CASE RejectEmpty \/ NoTemplate \/ NoAlias \/ Reject \/ Undefined
  <2>1. loc' = "done"
    BY <1>1 DEF RejectEmpty, NoTemplate, NoAlias, Reject, Undefined, Answer
  <2>. QED
    BY <2>1 DEF Places, Decoding
<1>2. CASE Fetch
  <2>1. internal'.k = 1 /\ loc' = "encoding" /\ UNCHANGED ret /\ loc = "call"
    BY <1>2, FetchStep
  <2>. QED
    BY <1>0, <2>1 DEF Places, Decoding
<1>3. CASE FirstTemplate
  <2>1. /\ loc = "encoding" /\ Under(opcode, Row) /\ loc' = "template"
        /\ UNCHANGED <<opcode, internal, ret>> /\ Row' = Row
    BY <1>3, RowStays DEF FirstTemplate
  <2>. QED
    BY <1>0, <2>1 DEF Places, Decoding
<1>4. CASE SkipTemplate
  <2>1. /\ loc = "template" /\ internal.k \in 1..Len(Row.templates)
        /\ internal'.k = internal.k + 1 /\ Row' = Row /\ UNCHANGED <<opcode, loc, ret>>
    BY <1>4, SkipStep
  <2>. QED
    BY <1>0, <2>1 DEF Places, Decoding
<1>5. CASE EnterTemplate
  <2>1. /\ loc = "template" /\ loc' = "node" /\ internal.k \in 1..Len(Row.templates)
        /\ Under(opcode, Template) /\ arguments' = <<>> /\ Row' = Row /\ Template' = Template
        /\ UNCHANGED <<opcode, internal, ret>>
    BY <1>5, EnterStep
  <2>2. Len(arguments') <= Len(Template.arguments)
    BY <2>1, EmptySequence, TemplateType DEF IInv
  <2>. QED
    BY <1>0, <2>1, <2>2 DEF Places, Decoding
<1>6. CASE DecodeNode \/ RefuseNode
  <2>1. /\ loc = "node" /\ Slot \in 1..Len(Template.arguments) /\ Slot = Len(arguments) + 1
        /\ arguments' = Append(arguments, Decoded.arg) /\ Row' = Row
        /\ UNCHANGED <<opcode, ret>>
        /\ \/ loc' = "node" /\ internal'.k = internal.k /\ Template' = Template
           \/ loc' = "template" /\ internal'.k = internal.k + 1
    BY <1>6, NodeStep
  <2>2. Len(arguments') = Slot
    BY <2>1, AppendSequence DEF IInv, Shapes
  <2>3. internal.k \in Nat
    BY RowType DEF IInv, Shapes, Row
  <2>. QED
    BY <1>0, <2>1, <2>2, <2>3 DEF Places, Decoding
<1>7. CASE ArmCondition \/ ThumbCondition \/ ItInstruction
  <2>1. /\ loc = "node" /\ UNCHANGED <<opcode, internal>> /\ Row' = Row
        /\ \/ loc' = "done"
           \/ loc' = "alias" /\ ret' = ret
    BY <1>7, AcceptedStep
  <2>. QED
    BY <1>0, <2>1 DEF Places, Decoding
<1>8. CASE TakeAlias
  <2>1. loc = "alias" /\ loc' = "encoding" /\ internal'.k = 1 /\ UNCHANGED ret
    BY <1>8, AliasStep
  <2>. QED
    BY <1>0, <2>1 DEF Places, Decoding
<1>9. CASE NextInsn
  <2>1. loc' = "call" /\ ret /\ UNCHANGED ret /\ internal'.alias = FALSE
    BY <1>9 DEF NextInsn, BlankInternal
  <2>. QED
    BY <2>1 DEF Places, Decoding
<1>10. CASE Ended \/ UNCHANGED vars
  BY <1>0, <1>10, RowStays DEF Ended, vars, result, Places, Decoding
<1>. QED
  BY <1>1, <1>2, <1>3, <1>4, <1>5, <1>6, <1>7, <1>8, <1>9, <1>10 DEF Next, Loop, DecodeInsn

-----------------------------------------------------------------------------
(* The word and its row.                                                   *)

\* A word that was read lies in the buffer until the next call.
LEMMA ReadStep ==
  ASSUME IInv, [Next]_vars
  PROVE  Read'
<1>0. Read /\ Places
  BY DEF IInv
<1>1. CASE RejectEmpty \/ Reject \/ Undefined
  <2>1. loc' = "done" /\ ret' = FALSE
    BY <1>1 DEF RejectEmpty, Reject, Undefined, Answer
  <2>. QED
    BY <2>1 DEF Read, Decoding, Returned
<1>2. CASE Fetch
  <2>1. PICK word \in Words[context.machine_mode] :
          /\ context.machine_mode \in {A32, THUMB}
          /\ Size(word) \in {2, 4} /\ Size(word) <= context.length
          /\ Size(word) = 4 <=> context.machine_mode = A32 \/ ~is_thumb16(word)
          /\ insn'.length = Size(word) /\ UNCHANGED context
    BY <1>2, FetchStep
  <2>. QED
    BY <2>1 DEF Read, InA32
<1>3. CASE FirstTemplate \/ NoTemplate \/ NoAlias \/ SkipTemplate \/ DecodeNode \/ RefuseNode
           \/ TakeAlias
  <2>1. Decoding /\ UNCHANGED <<context, insn>>
    BY <1>3, SkipStep, NodeStep, AliasStep
       DEF FirstTemplate, NoTemplate, NoAlias, Decoding, result
  <2>. QED
    BY <1>0, <2>1 DEF Read, InA32
<1>4. CASE EnterTemplate
  <2>1. Decoding /\ UNCHANGED context /\ insn'.length = insn.length
    BY <1>4, EnterStep DEF Decoding, InsnFields
  <2>. QED
    BY <1>0, <2>1 DEF Read, InA32
<1>5. CASE ArmCondition \/ ThumbCondition \/ ItInstruction
  <2>1. Decoding /\ UNCHANGED context /\ insn'.length = insn.length
    BY <1>5, AcceptedStep DEF Decoding
  <2>. QED
    BY <1>0, <2>1 DEF Read, InA32
<1>6. CASE NextInsn
  <2>1. loc' = "call"
    BY <1>6 DEF NextInsn
  <2>. QED
    BY <2>1 DEF Read, Decoding, Returned
<1>7. CASE Ended \/ UNCHANGED vars
  BY <1>0, <1>7 DEF Ended, vars, result, Read, InA32, Decoding, Returned
<1>. QED
  BY <1>1, <1>2, <1>3, <1>4, <1>5, <1>6, <1>7 DEF Next, Loop, DecodeInsn

\* The row is the one the lookup finds, or an alias of it.
LEMMA RowIsFoundStep ==
  ASSUME IInv, [Next]_vars
  PROVE  RowIsFound'
<1>0. RowIsFound /\ Places /\ Read
  BY DEF IInv
<1>1. CASE RejectEmpty \/ Reject \/ Undefined
  <2>1. loc' = "done" /\ ret' = FALSE
    BY <1>1 DEF RejectEmpty, Reject, Undefined, Answer
  <2>. QED
    BY <2>1 DEF RowIsFound, Decoding, Returned
<1>2. CASE Fetch
  <2>1. PICK word \in Words[context.machine_mode] :
          /\ context.machine_mode \in {A32, THUMB} /\ Size(word) \in {2, 4}
          /\ Size(word) = 4 <=> context.machine_mode = A32 \/ ~is_thumb16(word)
          /\ opcode' = Fetched(word) /\ insn'.length = Size(word)
          /\ internal'.encoding = Lookup(InstructionSet(word), Fetched(word))
          /\ internal'.alias = FALSE /\ loc' = "encoding" /\ UNCHANGED context
    BY <1>2, FetchStep
  <2>2. InstructionSet(word) =
          IF InA32' THEN "A32" ELSE IF insn'.length = 2 THEN "T16" ELSE "T32"
    BY <2>1 DEF InstructionSet, InA32
  <2>3. BaseEncoding' = internal'.encoding
    BY <2>1, <2>2 DEF BaseEncoding
  <2>. QED
    BY <2>1, <2>3 DEF RowIsFound
<1>3. CASE FirstTemplate \/ SkipTemplate \/ DecodeNode \/ RefuseNode \/ EnterTemplate
  <2>1. /\ Decoding /\ internal'.encoding = internal.encoding /\ loc' # "alias"
        /\ internal'.alias = internal.alias /\ UNCHANGED <<context, opcode, insn.length>>
    BY <1>3, SkipStep, NodeStep, EnterStep DEF FirstTemplate, Decoding, result, InsnFields
  <2>2. BaseEncoding' = BaseEncoding /\ BaseRow' = BaseRow
    BY <2>1, BaseStays
  <2>. QED
    BY <1>0, <2>1, <2>2 DEF RowIsFound
<1>4. CASE ArmCondition \/ ThumbCondition \/ ItInstruction
  <2>1. /\ Decoding /\ UNCHANGED <<context, opcode, internal, insn.length>>
        /\ loc' = "alias" => ~internal.alias
    BY <1>4, AcceptedStep DEF Decoding
  <2>2. BaseEncoding' = BaseEncoding /\ BaseRow' = BaseRow
    BY <2>1, BaseStays
  <2>. QED
    BY <1>0, <2>1, <2>2 DEF RowIsFound
<1>5. CASE TakeAlias
  <2>1. /\ loc = "alias" /\ loc' = "encoding" /\ internal'.alias = TRUE
        /\ \E i \in DOMAIN Row.aliases : internal'.encoding = Row.aliases[i]
        /\ UNCHANGED <<context, opcode, insn>>
    BY <1>5, AliasStep
  <2>2. BaseRow' = BaseRow /\ BaseRow = Row
    BY <1>0, <2>1, BaseStays DEF RowIsFound, Decoding, BaseRow, Row
  <2>. QED
    BY <2>1, <2>2 DEF RowIsFound
<1>6. CASE NextInsn
  <2>1. loc' = "call"
    BY <1>6 DEF NextInsn
  <2>. QED
    BY <2>1 DEF RowIsFound, Decoding, Returned
<1>7. CASE NoTemplate \/ NoAlias
  <2>1. /\ Decoding /\ loc' # "alias" /\ UNCHANGED <<context, opcode, internal, insn>>
    BY <1>7 DEF NoTemplate, NoAlias, result, Decoding, Answer
  <2>2. BaseEncoding' = BaseEncoding /\ BaseRow' = BaseRow
    BY <2>1, BaseStays
  <2>. QED
    BY <1>0, <2>1, <2>2 DEF RowIsFound
<1>8. CASE Ended \/ UNCHANGED vars
  <2>1. UNCHANGED <<context, opcode, internal, insn, loc, ret>>
    BY <1>8 DEF Ended, vars, result
  <2>2. BaseEncoding' = BaseEncoding /\ BaseRow' = BaseRow
    BY <2>1, BaseStays
  <2>. QED
    BY <1>0, <2>1, <2>2 DEF RowIsFound, Decoding, Returned
<1>. QED
  BY <1>1, <1>2, <1>3, <1>4, <1>5, <1>6, <1>7, <1>8 DEF Next, Loop, DecodeInsn
-----------------------------------------------------------------------------
(* The template shows.                                                     *)

\* What shows of a template stays where the instruction and its arguments do.
LEMMA ShowsStays ==
  ASSUME TemplateShows, Template' = Template, flags \ {"conditional"} \subseteq flags',
         UNCHANGED <<arguments, insn.iform, insn.mnemonic>>
  PROVE  TemplateShows'
BY DEF TemplateShows, PcShows

\* One node more.
LEMMA ShowsNode ==
  ASSUME IInv, DecodeNode, loc' = "node"
  PROVE  TemplateShows'
<1>1. /\ loc = "node" /\ Slot \in 1..Len(Template.arguments) /\ Slot = Len(arguments) + 1
      /\ flags' = Decoded.flags /\ flags \subseteq flags'
      /\ arguments' = Append(arguments, Decoded.arg) /\ UNCHANGED insn
  BY NodeStep
<1>2. Decoded.ok /\ Template' = Template
  <2>1. Decoded.ok /\ internal' = [internal EXCEPT !.lsb = Decoded.lsb,
                                                   !.dst_reg = Decoded.dst_reg]
    BY DEF DecodeNode
  <2>2. DOMAIN internal = InternalFields
    BY DEF IInv, Shapes
  <2>3. internal'.encoding = internal.encoding /\ internal'.k = internal.k
    BY <2>1, <2>2 DEF InternalFields
  <2>. QED
    BY <2>1, <2>3, RowStays
<1>3. TemplateShows
  BY <1>1 DEF IInv, Showing
<1>4. /\ Len(arguments) \in Nat /\ Len(arguments') = Len(arguments) + 1
      /\ arguments'[Len(arguments) + 1] = Decoded.arg
      /\ \A i \in 1..Len(arguments) : arguments'[i] = arguments[i]
  BY <1>1, AppendSequence DEF IInv, Shapes
<1>5. /\ Decoded.arg.type = ArgumentOf(Template.arguments[Slot].type)
      /\ Decoded.arg.type = "REGISTER" => PcBranches(Decoded)
  BY <1>1, <1>2, DecodedType
<1>6. ASSUME NEW i \in 1..Len(arguments')
      PROVE  /\ arguments'[i].type = ArgumentOf(Template.arguments[i].type)
             /\ PcShows(arguments'[i], flags')
  <2>1. CASE i = Len(arguments) + 1
    <3>1. arguments'[i] = Decoded.arg /\ i = Slot
      BY <1>1, <1>4, <2>1
    <3>. QED
      BY <1>1, <1>5, <3>1 DEF PcShows, PcBranches
  <2>2. CASE i # Len(arguments) + 1
    <3>1. i \in 1..Len(arguments)
      BY <1>4, <2>2
    <3>. QED
      BY <1>1, <1>3, <1>4, <3>1 DEF TemplateShows, PcShows
  <2>. QED
    BY <2>1, <2>2
<1>. QED
  BY <1>1, <1>2, <1>3, <1>6 DEF TemplateShows

\* The instruction is what its template says, and an alias only where one is decoded.
LEMMA ShowingStep ==
  ASSUME IInv, [Next]_vars
  PROVE  Showing'
<1>0. Showing /\ Places /\ RowIsFound
  BY DEF IInv
<1>1. CASE RejectEmpty \/ Reject \/ Undefined
  <2>1. loc' = "done" /\ ret' = FALSE
    BY <1>1 DEF RejectEmpty, Reject, Undefined, Answer
  <2>. QED
    BY <2>1 DEF Showing, Decoding, TemplateAccepted, Returned
<1>2. CASE Fetch
  <2>1. loc' = "encoding" /\ flags' = {}
    BY <1>2, FetchStep
  <2>. QED
    BY <2>1 DEF Showing, TemplateAccepted, Returned
<1>3. CASE FirstTemplate \/ SkipTemplate \/ RefuseNode
  <2>1. /\ loc' = "template" /\ "is_alias" \notin flags'
    <3>1. Decoding /\ loc # "alias" /\ loc' = "template"
      BY <1>3, SkipStep DEF FirstTemplate, Decoding, RefuseNode
    <3>2. flags' \subseteq flags \union OperandFlags
      BY <1>3, SkipStep, NodeStep DEF FirstTemplate, result
    <3>. QED
      BY <1>0, <3>1, <3>2 DEF Showing, OperandFlags
  <2>. QED
    BY <2>1 DEF Showing, TemplateAccepted, Returned
<1>4. CASE EnterTemplate
  <2>1. /\ loc = "template" /\ loc' = "node" /\ arguments' = <<>>
        /\ insn'.iform = Template.iform /\ insn'.mnemonic = Template.mnemonic
        /\ Template' = Template /\ UNCHANGED flags
    BY <1>4, EnterStep
  <2>2. TemplateShows'
    <3>1. 1..Len(arguments') = {}
      BY <2>1, EmptySequence
    <3>. QED
      BY <2>1, <3>1 DEF TemplateShows
  <2>. QED
    BY <1>0, <2>1, <2>2 DEF Showing, Decoding, TemplateAccepted, Returned
<1>5. CASE DecodeNode
  <2>1. loc = "node" /\ loc' = "node" /\ flags' \subseteq flags \union OperandFlags
    BY <1>5, NodeStep DEF DecodeNode
  <2>2. "is_alias" \notin flags'
    BY <1>0, <2>1 DEF Showing, Decoding, OperandFlags
  <2>3. TemplateShows'
    BY <1>5, <2>1, ShowsNode
  <2>. QED
    BY <2>1, <2>2, <2>3 DEF Showing, TemplateAccepted, Returned
<1>6. CASE ArmCondition \/ ThumbCondition \/ ItInstruction
  <2>1. /\ loc = "node" /\ Len(arguments) = Len(Template.arguments)
        /\ UNCHANGED <<opcode, arguments, internal>> /\ Row' = Row /\ Template' = Template
        /\ insn'.iform = insn.iform /\ insn'.mnemonic = insn.mnemonic
        /\ insn'.encoding = internal.encoding /\ insn'.argument_count = Len(arguments)
        /\ flags \ {"conditional"} \subseteq flags'
        /\ "is_alias" \in flags' <=> internal.alias
        /\ loc' \in {"done", "alias"}
    BY <1>6, AcceptedStep
  <2>2. TemplateShows
    BY <1>0, <2>1 DEF Showing
  <2>3. TemplateShows'
    BY <2>1, <2>2, ShowsStays
  <2>4. internal.k \in 1..Len(Row.templates) /\ Under(opcode, Row) /\ Under(opcode, Template)
    BY <2>1 DEF IInv, Shapes, Places, Decoding
  <2>. QED
    BY <2>1, <2>3, <2>4 DEF Showing, Decoding
<1>7. CASE TakeAlias
  <2>1. loc = "alias" /\ loc' = "encoding" /\ UNCHANGED flags
    BY <1>7, AliasStep
  <2>2. "is_alias" \notin flags
    BY <1>0, <2>1 DEF Showing, RowIsFound, Decoding
  <2>. QED
    BY <2>1, <2>2 DEF Showing, TemplateAccepted, Returned
<1>8. CASE NoTemplate
  <2>1. loc' = "done" /\ internal'.k > Len(Row'.templates)
    BY <1>8, RowStays DEF NoTemplate, Answer
  <2>2. internal'.k \in Nat /\ Len(Row'.templates) \in Nat
    <3>1. internal.k \in Nat /\ Len(Row.templates) \in Nat
      BY RowType DEF IInv, Shapes, Row
    <3>. QED
      BY <1>8, <3>1, RowStays DEF NoTemplate
  <2>. QED
    BY <2>1, <2>2 DEF Showing, TemplateAccepted, Decoding
<1>9. CASE NoAlias
  <2>1. /\ loc = "alias" /\ loc' = "done" /\ Row' = Row /\ Template' = Template
        /\ UNCHANGED <<opcode, insn, flags, arguments, internal>>
    BY <1>9, RowStays DEF NoAlias, Answer, result
  <2>2. TemplateShows'
    BY <1>0, <2>1, ShowsStays DEF Showing
  <2>. QED
    BY <1>0, <2>1, <2>2 DEF Showing, Decoding
<1>10. CASE NextInsn
  <2>1. loc' = "call"
    BY <1>10 DEF NextInsn
  <2>. QED
    BY <2>1 DEF Showing, Decoding, TemplateAccepted, Returned
<1>11. CASE Ended \/ UNCHANGED vars
  <2>1. /\ UNCHANGED <<opcode, insn, flags, arguments, internal, loc, ret>>
        /\ Row' = Row /\ Template' = Template
    BY <1>11, RowStays DEF Ended, vars, result
  <2>2. TemplateShows => TemplateShows'
    BY <2>1, ShowsStays
  <2>3. TemplateAccepted' = TemplateAccepted
    BY <2>1 DEF TemplateAccepted, Returned
  <2>. QED
    BY <1>0, <2>1, <2>2, <2>3 DEF Showing, Decoding
<1>. QED
  BY <1>1, <1>2, <1>3, <1>4, <1>5, <1>6, <1>7, <1>8, <1>9, <1>10, <1>11
     DEF Next, Loop, DecodeInsn
-----------------------------------------------------------------------------
(* The condition.                                                          *)

\* Row 0 is no alias and has none: whatever may be decoded as an alias was found.
LEMMA FoundRow ==
  ASSUME IInv, Decoding \/ Returned, internal.encoding # 0
  PROVE  /\ BaseEncoding \in DOMAIN Encodings \ {0}
         /\ InA32 => BaseRow.isa = "A32"
         /\ Row = BaseRow \/ \E i \in DOMAIN BaseRow.aliases : Row = Encodings[BaseRow.aliases[i]]
         /\ internal.alias => \E i \in DOMAIN BaseRow.aliases : Row = Encodings[BaseRow.aliases[i]]
<1>1. /\ ~internal.alias => internal.encoding = BaseEncoding
      /\ internal.alias =>
           \E i \in DOMAIN BaseRow.aliases : internal.encoding = BaseRow.aliases[i]
  BY DEF IInv, RowIsFound
<1>2. BaseEncoding # 0
  <2>1. internal.alias => BaseRow.aliases # <<>>
    BY <1>1
  <2>. QED
    BY <1>1, <2>1, AArch32Assumption DEF BaseRow
<1>3. BaseEncoding \in DOMAIN Encodings /\ (InA32 => BaseRow.isa = "A32")
  BY <1>2, LookupType DEF BaseEncoding, BaseRow
<1>4. internal.alias \in BOOLEAN
  BY DEF IInv, Shapes
<1>. QED
  BY <1>1, <1>2, <1>3, <1>4 DEF Row, BaseRow

\* In A32 no template lets a word with the condition field 1111 run.
LEMMA NotUnderNV ==
  ASSUME IInv, Complete, InA32, internal.encoding # 0
  PROVE  NeverUnderNV(Row, Template)
<1>1. loc = "node" /\ internal.k \in 1..Len(Row.templates)
  BY DEF Complete, IInv, Places, Shapes, Decoding
<1>2. Template \in TemplatesOf(Row)
  BY <1>1, TemplateType DEF IInv
<1>3. /\ BaseEncoding \in DOMAIN Encodings \ {0} /\ BaseRow.isa = "A32"
      /\ Row = BaseRow \/ \E i \in DOMAIN BaseRow.aliases : Row = Encodings[BaseRow.aliases[i]]
  BY <1>1, FoundRow DEF Decoding
<1>4. \A x \in {BaseRow} \union {Encodings[BaseRow.aliases[i]] : i \in DOMAIN BaseRow.aliases} :
        \A t \in TemplatesOf(x) : NeverUnderNV(x, t)
  BY <1>3, ConditionAssumption DEF BaseRow
<1>. QED
  BY <1>2, <1>3, <1>4

\* What the condition of an accepted template is made of.
LEMMA UnderConditionStep ==
  ASSUME IInv, Complete, NEW condition, UnderCondition(condition)
  PROVE  LET c == decode_conditional_execution(Template.cond, condition)
         IN  /\ insn'.condition = c.condition /\ insn'.encoding = internal.encoding
             /\ "undefined" \notin flags' => c.ok
             /\ "conditional" \in flags' <=> c.condition < AL
<1>. DEFINE c == decode_conditional_execution(Template.cond, condition)
            fields == [insn EXCEPT !.condition = c.condition]
            raised == Only(~c.ok, {"undefined"}) \union Only(c.unpredictable, {"unpredictable"})
                        \union Only(c.condition < AL, {"conditional"})
<1>. HIDE DEF c
<1>1. Accept(fields, raised)
  BY DEF UnderCondition, c
<1>2. /\ raised \subseteq FlagNames \ {"is_alias"}
      /\ ~c.ok => "undefined" \in raised
      /\ "conditional" \in raised <=> c.condition < AL
  BY DEF Only, FlagNames
<1>. HIDE DEF raised
<1>3. DOMAIN insn = InsnFields
  BY DEF IInv, Shapes
<1>4. DOMAIN fields = InsnFields /\ fields.condition = c.condition
  BY <1>3 DEF InsnFields
<1>. HIDE DEF fields
<1>5. /\ insn' = [fields EXCEPT !.encoding = internal.encoding,
                                !.argument_count = Len(arguments)]
      /\ raised \subseteq flags' /\ ("conditional" \in flags' => "conditional" \in raised)
  BY <1>1, <1>2, <1>4, AcceptStep
<1>6. insn'.condition = c.condition /\ insn'.encoding = internal.encoding
  BY <1>4, <1>5 DEF InsnFields
<1>. QED
  BY <1>2, <1>5, <1>6 DEF c

\* A32: the condition is that of the field, or AL for a field of ones.
LEMMA ArmConditionShows ==
  ASSUME IInv, ArmCondition
  PROVE  ConditionShows'
<1>. DEFINE n == UInt(Field(opcode, 31, 28))
            c == decode_conditional_execution(Template.cond, n + 1)
<1>1. Complete /\ InA32 /\ UnderCondition(EQ + Num(Slice(opcode, 31, 28)))
  BY DEF ArmCondition, InA32
<1>2. n \in 0..15 /\ Num(Slice(opcode, 31, 28)) = n /\ (28..31 \subseteq opcode => n = 15)
  <2>1. 28 + 3 = 31 /\ 28 \in Nat
    OBVIOUS
  <2>. QED
    BY <2>1, NibbleIsField
<1>3. /\ opcode' = opcode /\ InA32' = InA32
      /\ Under(opcode, Row) /\ Under(opcode, Template)
  BY AcceptedStep DEF IInv, Places, Decoding, InA32
<1>. HIDE DEF n
<1>4. UnderCondition(n + 1)
  BY <1>1, <1>2 DEF EQ
<1>5. /\ insn'.condition = c.condition /\ insn'.encoding = internal.encoding
      /\ "undefined" \notin flags' => c.ok
      /\ "conditional" \in flags' <=> c.condition < AL
  BY <1>1, <1>4, UnderConditionStep
<1>6. ASSUME internal.encoding # 0, c.ok
      PROVE  c.condition = IF n = 15 THEN AL ELSE n + 1
  <2>1. NeverUnderNV(Row, Template)
    BY <1>1, <1>6, NotUnderNV
  <2>2. CASE Template.cond \in {"MUST_AL", "MUST_NV", "NO_NV", "NO_NV_UNP_COND"}
    <3>1. CASE Template.cond = "MUST_AL"
      BY <1>2, <1>6, <3>1 DEF decode_conditional_execution, AL, NV
    <3>2. CASE Template.cond = "MUST_NV"
      BY <1>2, <1>6, <3>2 DEF decode_conditional_execution, AL, NV
    <3>3. CASE Template.cond \in {"NO_NV", "NO_NV_UNP_COND"}
      <4>1. c.condition = n + 1
        BY <3>3 DEF decode_conditional_execution
      <4>2. n + 1 # NV
        <5>1. CASE Template.cond = "NO_NV"
          BY <1>6, <5>1 DEF decode_conditional_execution
        <5>2. CASE Template.cond = "NO_NV_UNP_COND"
          BY <1>6, <5>2 DEF decode_conditional_execution
        <5>. QED
          BY <3>3, <5>1, <5>2
      <4>. QED
        BY <1>2, <4>1, <4>2 DEF NV
    <3>. QED
      BY <2>2, <3>1, <3>2, <3>3
  <2>3. CASE Template.cond = "UNCOND" /\
             28..31 \subseteq (Row.mask \cap Row.bits) \union (Template.mask \cap Template.bits)
    <3>1. 28..31 \subseteq opcode
      BY <1>3, <2>3 DEF Under
    <3>. QED
      BY <1>2, <2>3, <3>1 DEF decode_conditional_execution
  <2>. QED
    BY <2>1, <2>2, <2>3 DEF NeverUnderNV
<1>. QED
  BY <1>3, <1>5, <1>6 DEF ConditionShows, n
\* The condition stays where the instruction does and the flags tell the same of it.
LEMMA ConditionStays ==
  ASSUME UNCHANGED <<context, opcode, insn.condition, insn.encoding>>,
         "undefined" \in flags => "undefined" \in flags',
         "conditional" \in flags' <=> "conditional" \in flags
  PROVE  ConditionShows => ConditionShows'
BY DEF ConditionShows, InA32

\* So does what the base has of its templates.
LEMMA BaseConditionStays ==
  ASSUME UNCHANGED <<context, opcode, itblock, insn.condition, insn.length>>
  PROVE  BaseCondition => BaseCondition'
<1>1. BaseRow' = BaseRow /\ InA32' = InA32
  BY BaseStays
<1>2. WordCondition' = WordCondition
  BY <1>1 DEF WordCondition
<1>. QED
  BY <1>1, <1>2 DEF BaseCondition

\* The row of IT is no alias and has none.
LEMMA ItRow ==
  ASSUME IInv, Decoding \/ Returned, IsIt(Row)
  PROVE  ~internal.alias /\ Row.isa = "T16" /\ Row.aliases = <<>>
<1>1. internal.encoding \in DOMAIN Encodings /\ BaseEncoding \in DOMAIN Encodings
  BY LookupType DEF IInv, Shapes, BaseEncoding
<1>2. internal.alias => \E i \in DOMAIN BaseRow.aliases : Row = Encodings[BaseRow.aliases[i]]
  BY DEF IInv, RowIsFound, Row
<1>3. internal.alias => ~IsIt(Row)
  BY <1>1, <1>2, ItAssumption DEF BaseRow
<1>4. Row.isa = "T16" /\ Row.aliases = <<>>
  BY <1>1, ItAssumption DEF Row
<1>. QED
  BY <1>3, <1>4

\* An IT is accepted and has no alias, and only the row of IT has one.
LEMMA ItStep ==
  ASSUME IInv, Complete
  PROVE  /\ Template \in TemplatesOf(Row) /\ loc = "node"
         /\ Template.iform = "IT" => IsIt(Row)
         /\ ItInstruction => loc' = "done" /\ ret' /\ ~internal.alias
<1>1. loc = "node" /\ internal.k \in 1..Len(Row.templates)
  BY DEF Complete, IInv, Places, Shapes, Decoding
<1>2. Template \in TemplatesOf(Row)
  BY <1>1, TemplateType DEF IInv
<1>3. Template.iform = "IT" => IsIt(Row)
  BY <1>2 DEF IsIt
<1>4. ASSUME ItInstruction
      PROVE  loc' = "done" /\ ret' /\ ~internal.alias
  <2>1. IsIt(Row)
    BY <1>3, <1>4 DEF ItInstruction
  <2>2. ~internal.alias /\ Row.aliases = <<>>
    BY <1>1, <2>1, ItRow DEF Decoding
  <2>. QED
    BY <1>4, <2>2, AcceptedStep
<1>. QED
  BY <1>1, <1>2, <1>3, <1>4

\* The condition counts from where the base instruction is accepted.
LEMMA ConditionsStep ==
  ASSUME IInv, [Next]_vars
  PROVE  Conditions'
<1>0. Conditions /\ Places /\ RowIsFound
  BY DEF IInv
<1>1. CASE RejectEmpty \/ Reject \/ Undefined
  <2>1. loc' = "done" /\ ret' = FALSE
    BY <1>1 DEF RejectEmpty, Reject, Undefined, Answer
  <2>. QED
    BY <2>1 DEF Conditions, BaseStands, Decoding, Returned
<1>2. CASE Fetch
  <2>1. loc' = "encoding" /\ internal'.alias = FALSE
    BY <1>2, FetchStep
  <2>. QED
    BY <2>1 DEF Conditions, BaseStands, Decoding, Returned
<1>3. CASE FirstTemplate \/ SkipTemplate \/ DecodeNode \/ RefuseNode \/ EnterTemplate
  <2>1. /\ Decoding /\ loc # "alias" /\ loc' \in {"template", "node"}
        /\ internal'.alias = internal.alias
        /\ flags \subseteq flags' /\ flags' \subseteq flags \union OperandFlags
        /\ UNCHANGED <<context, opcode, itblock, insn.condition, insn.length, insn.encoding>>
    BY <1>3, SkipStep, NodeStep, EnterStep DEF FirstTemplate, Decoding, result, InsnFields
  <2>2. /\ "undefined" \in flags => "undefined" \in flags'
        /\ "conditional" \in flags' <=> "conditional" \in flags
    BY <2>1 DEF OperandFlags
  <2>3. (ConditionShows => ConditionShows') /\ (BaseCondition => BaseCondition')
    BY <2>1, <2>2, ConditionStays, BaseConditionStays
  <2>. QED
    BY <1>0, <2>1, <2>3 DEF Conditions, BaseStands, Decoding, Returned
<1>4. CASE NoTemplate \/ NoAlias
  <2>1. /\ Decoding /\ loc' = "done" /\ (ret' => internal.alias \/ loc = "alias")
        /\ UNCHANGED <<context, opcode, insn, flags>>
    BY <1>4 DEF NoTemplate, NoAlias, Answer, result, Decoding
  <2>2. ConditionShows => ConditionShows'
    BY <2>1, ConditionStays
  <2>. QED
    BY <1>0, <2>1, <2>2 DEF Conditions, BaseStands, Decoding, Returned
<1>5. CASE ArmCondition \/ ThumbCondition \/ ItInstruction
  <2>1. /\ loc = "node" /\ UNCHANGED <<context, opcode, internal, insn.length>> /\ Row' = Row
        /\ (loc' = "done" \/ (loc' = "alias" /\ ~internal.alias)) /\ Complete
    BY <1>5, AcceptedStep DEF ArmCondition, ThumbCondition, ItInstruction
  <2>2. ConditionShows'
    <3>1. CASE ArmCondition
      BY <3>1, ArmConditionShows
    <3>2. CASE ThumbCondition \/ ItInstruction
      <4>1. ~InA32'
        BY <2>1, <3>2 DEF ThumbCondition, ItInstruction, InA32, A32, THUMB
      <4>. QED
        BY <4>1 DEF ConditionShows
    <3>. QED
      BY <1>5, <3>1, <3>2
  <2>3. ASSUME loc' = "alias"
        PROVE  BaseCondition'
    <3>1. ~internal.alias /\ Template \in TemplatesOf(Row) /\ ~ItInstruction
      BY <2>1, <2>3, ItStep
    <3>2. BaseRow = Row
      BY <1>0, <2>1, <3>1 DEF RowIsFound, Decoding, BaseRow, Row
    <3>3. BaseRow' = BaseRow /\ InA32' = InA32
      BY <2>1, BaseStays
    <3>4. UNCHANGED itblock /\ UnderCondition(WordCondition)
      <4>1. CASE ArmCondition
        BY <4>1 DEF ArmCondition, WordCondition, InA32
      <4>2. CASE ThumbCondition
        BY <4>2 DEF ThumbCondition, WordCondition, InA32, A32, THUMB
      <4>. QED
        BY <1>5, <3>1, <4>1, <4>2
    <3>5. WordCondition' = WordCondition
      BY <2>1, <3>3, <3>4 DEF WordCondition
    <3>6. insn'.condition = decode_conditional_execution(Template.cond, WordCondition).condition
      BY <2>1, <3>4, UnderConditionStep
    <3>. QED
      BY <3>1, <3>2, <3>3, <3>5, <3>6 DEF BaseCondition
  <2>. QED
    BY <2>1, <2>2, <2>3 DEF Conditions, BaseStands, Decoding
<1>6. CASE TakeAlias
  <2>1. /\ loc = "alias" /\ loc' = "encoding"
        /\ UNCHANGED <<context, opcode, itblock, insn, flags>>
    BY <1>6, AliasStep
  <2>2. (ConditionShows => ConditionShows') /\ (BaseCondition => BaseCondition')
    BY <2>1, ConditionStays, BaseConditionStays
  <2>. QED
    BY <1>0, <2>1, <2>2 DEF Conditions, BaseStands, Decoding, Returned
<1>7. CASE NextInsn
  <2>1. loc' = "call"
    BY <1>7 DEF NextInsn
  <2>. QED
    BY <2>1 DEF Conditions, BaseStands, Decoding, Returned
<1>8. CASE Ended \/ UNCHANGED vars
  <2>1. UNCHANGED <<context, opcode, itblock, insn, flags, internal, loc, ret>>
    BY <1>8 DEF Ended, vars, result
  <2>2. (ConditionShows => ConditionShows') /\ (BaseCondition => BaseCondition')
    BY <2>1, ConditionStays, BaseConditionStays
  <2>. QED
    BY <1>0, <2>1, <2>2 DEF Conditions, BaseStands, Decoding, Returned
<1>. QED
  BY <1>1, <1>2, <1>3, <1>4, <1>5, <1>6, <1>7, <1>8 DEF Next, Loop, DecodeInsn
-----------------------------------------------------------------------------
(* IT.                                                                     *)

\* The block an IT opens is the one ITAdvance walks through: the size of the block is 4
\* less the position of the lowest one, as only that shift leaves a single one at bit 3.
LEMMA ItOpensBlock ==
  ASSUME IInv, ItInstruction
  PROVE  ItBlockMatchesMask'
<1>. DEFINE mask == opcode \cap Low(4)
            last == CHOOSE b \in mask : \A x \in mask : b <= x
            field == Field(opcode', 3, 0)
            Moved(n) == {b + n - 1 : b \in field} \cap 0..3
            Other(i) == IF 5 - i \in mask THEN Flipped(token) ELSE token
            conditions == [i \in 1..4 |-> IF i = 1 THEN token
                                          ELSE IF i <= ItCount(mask) THEN Other(i) ELSE AL]
            op == get_it_op_from_mask(mask)
            raised == Only(itblock.is_in, {"unpredictable"})
            fields == [insn EXCEPT !.condition = IF itblock.is_in THEN 0 ELSE AL,
                                   !.it_op = op, !.it_insn_count = ItCount(mask)]
<1>1. /\ Complete /\ Template.iform = "IT" /\ ~InA32 /\ Accept(fields, raised)
      /\ itblock' = [is_in |-> TRUE, index |-> 0, count |-> ItCount(mask),
                     conditions |-> conditions]
  BY DEF ItInstruction, InA32, A32, THUMB
<1>2. mask # {}
  <2>1. loc = "node" /\ IsIt(Row) /\ ~internal.alias
    BY <1>1, ItStep
  <2>. QED
    BY <1>1, <2>1 DEF IInv, ItWords, Decoding
<1>3. opcode' = opcode
  BY <1>1, AcceptedStep
<1>4. field = mask
  <2>1. ASSUME NEW b \in opcode \cap 0..3
        PROVE  b - 0 = b /\ b \in Low(4)
    BY DEF Low
  <2>2. Low(4) = 0..3
    BY DEF Low
  <2>. QED
    BY <1>3, <2>1, <2>2 DEF Field
<1>5. mask \subseteq 0..3
  BY DEF Low
<1>6. last \in mask /\ last \in 0..3 /\ (\A b \in mask : last <= b) /\ ItCount(mask) = 4 - last
  <2>1. mask \subseteq Low(4)
    OBVIOUS
  <2>. HIDE DEF mask
  <2>. QED
    BY <1>2, <2>1, MaskType
<1>7. DOMAIN op = 1..3 - last /\ Len(op) = 3 - last
      /\ \A i \in 1..3 - last : op[i] = IF 4 - i \in mask THEN "E" ELSE "T"
  <2>1. op = [i \in 1..3 - last |-> IF 4 - i \in mask THEN "E" ELSE "T"]
    BY <1>2 DEF get_it_op_from_mask
  <2>. HIDE DEF op, last, mask
  <2>2. 3 - last \in Nat
    BY <1>6
  <2>. QED
    BY <2>1, <2>2
<1>8. insn'.it_op = op /\ insn'.it_insn_count = ItCount(mask)
  <2>1. DOMAIN insn = InsnFields
    BY DEF IInv, Shapes
  <2>. HIDE DEF op, mask
  <2>2. DOMAIN fields = InsnFields /\ fields.it_op = op /\ fields.it_insn_count = ItCount(mask)
    BY <2>1 DEF InsnFields
  <2>3. raised \subseteq FlagNames \ {"is_alias"}
    BY DEF Only, FlagNames
  <2>. HIDE DEF fields, raised
  <2>4. insn' = [fields EXCEPT !.encoding = internal.encoding,
                               !.argument_count = Len(arguments)]
    BY <1>1, <2>2, <2>3, AcceptStep
  <2>. QED
    BY <2>2, <2>4 DEF InsnFields
<1>9. Flipped(token) # token
  <2>1. token \in Int
    BY DEF IInv, Shapes
  <2>. QED
    BY <2>1 DEF Flipped
<1>. HIDE DEF last, op, fields, raised, field
<1>10. \A n \in 1..4 : Moved(n) = {3} <=> n = 4 - last
  <2>1. ASSUME NEW n \in 1..4, Moved(n) = {3}
        PROVE  n = 4 - last
    <3>1. PICK b \in mask : b + n - 1 = 3
      BY <1>4, <2>1
    <3>2. last <= b /\ b \in 0..3 /\ last \in mask
      BY <1>5, <1>6
    <3>3. last + n - 1 \in Moved(n)
      BY <1>4, <1>5, <1>6, <3>1, <3>2
    <3>. QED
      BY <1>6, <2>1, <3>3
  <2>2. Moved(4 - last) = {3}
    <3>1. 3 \in Moved(4 - last)
      <4>1. last + (4 - last) - 1 = 3
        BY <1>6
      <4>. QED
        BY <1>4, <1>6, <4>1
    <3>2. ASSUME NEW b \in mask, b + (4 - last) - 1 \in 0..3
          PROVE  b + (4 - last) - 1 = 3
      BY <1>5, <1>6, <3>2
    <3>. QED
      BY <1>4, <3>1, <3>2
  <2>. QED
    BY <2>1, <2>2
<1>11. (CHOOSE n \in 1..4 : Moved(n) = {3}) = 4 - last
  <2>. HIDE DEF Moved
  <2>1. 4 - last \in 1..4
    BY <1>6
  <2>. QED
    BY <1>10, <2>1
<1>12. \A i \in 1..3 - last : op[i] = "T" <=> conditions[i + 1] = conditions[1]
  <2>. SUFFICES ASSUME NEW i \in 1..3 - last
                PROVE  op[i] = "T" <=> conditions[i + 1] = conditions[1]
    OBVIOUS
  <2>1. i + 1 \in 2..4 /\ i + 1 <= ItCount(mask) /\ 5 - (i + 1) = 4 - i
    BY <1>6
  <2>2. conditions[1] = token /\ conditions[i + 1] = Other(i + 1)
    BY <2>1
  <2>3. Other(i + 1) = IF 4 - i \in mask THEN Flipped(token) ELSE token
    BY <2>1
  <2>. HIDE DEF conditions, Other, mask
  <2>. QED
    BY <1>7, <1>9, <2>2, <2>3
<1>13. \A i \in 5 - last..4 : conditions[i] = AL
  BY <1>6
<1>14. /\ itblock'.is_in /\ itblock'.count = 4 - last /\ itblock'.conditions = conditions
       /\ insn'.it_insn_count = 4 - last /\ insn'.it_op = op /\ Len(op) = (4 - last) - 1
  BY <1>1, <1>6, <1>7, <1>8
<1>. DEFINE size == CHOOSE n \in 1..4 : Moved(n) = {3}
<1>15. size = 4 - last
  BY <1>11
<1>. HIDE DEF conditions, mask, size
<1>16. size - 1 = 3 - last /\ size + 1 = 5 - last
  BY <1>6, <1>15
<1>17. \A i \in 1..size - 1 :
         insn'.it_op[i] = "T" <=> itblock'.conditions[i + 1] = itblock'.conditions[1]
  BY <1>12, <1>14, <1>16
<1>18. \A i \in size + 1..4 : itblock'.conditions[i] = AL
  BY <1>13, <1>14, <1>16
<1>19. /\ itblock'.is_in /\ itblock'.count = size /\ insn'.it_insn_count = size
       /\ Len(insn'.it_op) = size - 1
  BY <1>14, <1>15
<1>. QED
  BY <1>17, <1>18, <1>19 DEF ItBlockMatchesMask, BlockSize, size, Moved, field
\* A word that is read ends in the row of IT only with a mask.
LEMMA ItIsRead ==
  ASSUME IInv, Fetch, ~InA32', IsIt(Row')
  PROVE  opcode' \cap Low(4) # {}
<1>1. PICK word \in Words[context.machine_mode] :
        /\ context.machine_mode \in {A32, THUMB} /\ UNCHANGED context
        /\ opcode' = Fetched(word)
        /\ internal'.encoding = Lookup(InstructionSet(word), Fetched(word))
  BY FetchStep
<1>2. context.machine_mode = THUMB /\ THUMB # A32 /\ THUMB \in DOMAIN Words
  <2>1. context.machine_mode \in DOMAIN Words
    BY DEF IInv, Shapes
  <2>. QED
    BY <1>1, <2>1 DEF InA32, A32, THUMB
<1>3. internal'.encoding \in DOMAIN Encodings
  BY <1>1, LookupType
<1>4. Encodings[internal'.encoding].isa = "T16"
  BY <1>3, ItAssumption DEF Row
<1>5. InstructionSet(word) = "T16" /\ is_thumb16(word)
  <2>1. internal'.encoding # 0
    BY <1>4, AArch32Assumption
  <2>2. InstructionSet(word) = "T16"
    BY <1>1, <1>4, <2>1, LookupType
  <2>. QED
    BY <1>2, <2>2 DEF InstructionSet
<1>6. opcode' = word \cap Low(16)
  BY <1>1, <1>2, <1>5 DEF Fetched
<1>7. word \cap Low(4) # {}
  <2>1. IsIt(Encodings[Lookup("T16", word \cap Low(16))])
    BY <1>1, <1>5, <1>6 DEF Row
  <2>. QED
    BY <1>1, <1>2, <2>1, ItAssumption
<1>8. Low(4) \subseteq Low(16)
  BY DEF Low
<1>. QED
  BY <1>6, <1>7, <1>8

\* No word of A32, and no alias, shows as IT.
LEMMA NoOtherIt ==
  ASSUME IInv, loc \in {"template", "node"}, internal.k \in 1..Len(Row.templates),
         InA32 \/ internal.alias
  PROVE  Template.iform # "IT"
<1>. SUFFICES ASSUME Template.iform = "IT" PROVE FALSE
  OBVIOUS
<1>1. IsIt(Row) /\ Decoding
  BY TemplateType DEF IInv, IsIt, Decoding
<1>2. ~internal.alias /\ Row.isa = "T16"
  BY <1>1, ItRow
<1>3. internal.encoding # 0
  BY <1>2, AArch32Assumption DEF Row
<1>4. Row = BaseRow /\ BaseRow.isa = "A32"
  BY <1>1, <1>2, <1>3, FoundRow DEF IInv, RowIsFound, Row, BaseRow
<1>. QED
  BY <1>2, <1>4

\* What is said of IT is said from the reading of its word to the next call.
LEMMA ItWordsStep ==
  ASSUME IInv, [Next]_vars
  PROVE  ItWords'
<1>0. ItWords /\ Places /\ Showing
  BY DEF IInv
<1>1. CASE RejectEmpty \/ Reject \/ Undefined
  <2>1. loc' = "done" /\ ret' = FALSE
    BY <1>1 DEF RejectEmpty, Reject, Undefined, Answer
  <2>. QED
    BY <2>1 DEF ItWords, BaseStands, Decoding, Returned
<1>2. CASE Fetch
  <2>1. loc' = "encoding" /\ internal'.alias = FALSE
    BY <1>2, FetchStep
  <2>. QED
    BY <1>2, <2>1, ItIsRead DEF ItWords, BaseStands, Decoding, Returned
<1>3. CASE FirstTemplate \/ SkipTemplate \/ DecodeNode \/ RefuseNode
  <2>1. /\ Decoding /\ loc # "alias" /\ loc' \in {"template", "node"} /\ Row' = Row
        /\ internal'.alias = internal.alias /\ UNCHANGED <<context, opcode, insn>>
    BY <1>3, SkipStep, NodeStep, RowStays DEF FirstTemplate, Decoding, result
  <2>. QED
    BY <1>0, <2>1 DEF ItWords, BaseStands, Decoding, Returned, InA32
<1>4. CASE EnterTemplate
  <2>1. /\ loc = "template" /\ loc' = "node" /\ internal.k \in 1..Len(Row.templates)
        /\ insn'.iform = Template.iform /\ Row' = Row
        /\ UNCHANGED <<context, opcode, internal>>
    BY <1>4, EnterStep
  <2>2. internal.alias => Template.iform # "IT"
    BY <2>1, NoOtherIt
  <2>. QED
    BY <1>0, <2>1, <2>2 DEF ItWords, BaseStands, Decoding, Returned, InA32
<1>5. CASE NoTemplate \/ NoAlias
  <2>1. /\ loc' = "done" /\ (ret' => BaseStands) /\ UNCHANGED insn
    BY <1>5 DEF NoTemplate, NoAlias, Answer, result, BaseStands, Decoding
  <2>. QED
    BY <1>0, <2>1 DEF ItWords, BaseStands, Decoding, Returned, ItBlockMatchesMask
<1>6. CASE ArmCondition \/ ThumbCondition \/ ItInstruction
  <2>1. /\ loc = "node" /\ Row' = Row /\ insn'.iform = insn.iform
        /\ UNCHANGED <<context, opcode, internal>>
        /\ (loc' = "done" /\ ret') \/ (loc' = "alias" /\ Row.aliases # <<>>)
    BY <1>6, AcceptedStep
  <2>2. insn.iform = Template.iform
    BY <1>0, <2>1 DEF Showing, TemplateShows
  <2>3. internal.k \in 1..Len(Row.templates) /\ Complete
    BY <1>6, <2>1
       DEF IInv, Shapes, Places, Decoding, ArmCondition, ThumbCondition, ItInstruction
  <2>4. loc' = "alias" => insn'.iform # "IT"
    <3>1. Template.iform = "IT" => IsIt(Row)
      BY <2>3, ItStep
    <3>. QED
      BY <2>1, <2>2, <3>1, ItRow DEF Decoding
  <2>5. ItBlockMatchesMask'
    <3>1. CASE ArmCondition
      <4>1. Template.iform # "IT"
        BY <2>1, <2>3, <3>1, NoOtherIt DEF ArmCondition, InA32
      <4>. QED
        BY <2>1, <2>2, <4>1 DEF ItBlockMatchesMask
    <3>2. CASE ThumbCondition
      BY <2>1, <2>2, <3>2 DEF ThumbCondition, ItBlockMatchesMask
    <3>3. CASE ItInstruction
      BY <3>3, ItOpensBlock
    <3>. QED
      BY <1>6, <3>1, <3>2, <3>3
  <2>6. loc' = "alias" => Decoding
    BY <2>1 DEF Decoding
  <2>. QED
    BY <1>0, <2>1, <2>4, <2>5, <2>6 DEF ItWords, BaseStands, Decoding, Returned, InA32
<1>7. CASE TakeAlias
  <2>1. loc = "alias" /\ loc' = "encoding" /\ internal'.alias = TRUE /\ UNCHANGED insn
    BY <1>7, AliasStep
  <2>. QED
    BY <1>0, <2>1 DEF ItWords, BaseStands, Decoding, Returned
<1>8. CASE NextInsn
  <2>1. loc' = "call"
    BY <1>8 DEF NextInsn
  <2>. QED
    BY <2>1 DEF ItWords, BaseStands, Decoding, Returned
<1>9. CASE Ended \/ UNCHANGED vars
  <2>1. /\ UNCHANGED <<context, opcode, itblock, insn, internal, loc, ret>> /\ Row' = Row
    BY <1>9, RowStays DEF Ended, vars, result
  <2>. QED
    BY <1>0, <2>1
       DEF ItWords, BaseStands, Decoding, Returned, InA32, ItBlockMatchesMask
<1>. QED
  BY <1>1, <1>2, <1>3, <1>4, <1>5, <1>6, <1>7, <1>8, <1>9 DEF Next, Loop, DecodeInsn

-----------------------------------------------------------------------------
(* The values of operands.                                                 *)

\* Arguments mean the same while the word and the template stay.
LEMMA MeansStays ==
  ASSUME TemplateMeans, Template' = Template, UNCHANGED <<arguments, opcode>>
  PROVE  TemplateMeans'
BY DEF TemplateMeans

\* One node more.
LEMMA MeansNode ==
  ASSUME IInv, DecodeNode, loc' = "node"
  PROVE  TemplateMeans'
<1>1. /\ loc = "node" /\ Slot <= Len(Template.arguments) /\ Slot = Len(arguments) + 1
      /\ arguments' = Append(arguments, Decoded.arg) /\ UNCHANGED opcode
      /\ Decoded.ok /\ Template' = Template
  BY NodeStep DEF DecodeNode
<1>2. TemplateMeans
  BY <1>1 DEF IInv, Meaning
<1>3. /\ Len(arguments) \in Nat /\ Len(arguments') = Len(arguments) + 1
      /\ arguments'[Len(arguments) + 1] = Decoded.arg
      /\ \A i \in 1..Len(arguments) : arguments'[i] = arguments[i]
  BY <1>1, AppendSequence DEF IInv, Shapes
<1>4. Means(Decoded.arg, opcode, Template.arguments[Slot])
  BY <1>1, DecodedType
<1>5. ASSUME NEW i \in 1..Len(arguments')
      PROVE  Means(arguments'[i], opcode, Template.arguments[i])
  <2>1. CASE i = Len(arguments) + 1
    BY <1>1, <1>3, <1>4, <2>1
  <2>2. CASE i # Len(arguments) + 1
    <3>1. i \in 1..Len(arguments)
      BY <1>3, <2>2
    <3>. QED
      BY <1>2, <1>3, <3>1 DEF TemplateMeans
  <2>. QED
    BY <2>1, <2>2
<1>. QED
  BY <1>1, <1>5 DEF TemplateMeans

\* Every operand of a template that is tried means what its bits mean.
LEMMA MeaningStep ==
  ASSUME IInv, [Next]_vars
  PROVE  Meaning'
<1>0. Meaning
  BY DEF IInv
<1>1. CASE RejectEmpty \/ Reject \/ Undefined
  <2>1. loc' = "done" /\ ret' = FALSE
    BY <1>1 DEF RejectEmpty, Reject, Undefined, Answer
  <2>. QED
    BY <2>1 DEF Meaning, TemplateAccepted, Returned
<1>2. CASE Fetch \/ FirstTemplate \/ SkipTemplate \/ RefuseNode \/ TakeAlias \/ NextInsn
  <2>1. loc' \in {"call", "encoding", "template"}
    BY <1>2, SkipStep DEF Fetch, FirstTemplate, RefuseNode, TakeAlias, NextInsn
  <2>. QED
    BY <2>1 DEF Meaning, TemplateAccepted, Returned
<1>3. CASE EnterTemplate
  <2>1. arguments' = <<>>
    BY <1>3, EnterStep
  <2>2. 1..Len(arguments') = {}
    BY <2>1, EmptySequence
  <2>. QED
    BY <2>2 DEF Meaning, TemplateMeans
<1>4. CASE DecodeNode
  <2>1. loc' = "node"
    BY <1>4 DEF DecodeNode
  <2>. QED
    BY <1>4, <2>1, MeansNode DEF Meaning
<1>5. CASE ArmCondition \/ ThumbCondition \/ ItInstruction
  <2>1. loc = "node" /\ UNCHANGED <<opcode, arguments>> /\ Template' = Template
    BY <1>5, AcceptedStep
  <2>. QED
    BY <1>0, <2>1, MeansStays DEF Meaning
<1>6. CASE NoTemplate
  <2>1. loc' = "done" /\ internal'.k > Len(Row'.templates)
    BY <1>6, RowStays DEF NoTemplate, Answer
  <2>2. internal'.k \in Nat /\ Len(Row'.templates) \in Nat
    <3>1. internal.k \in Nat /\ Len(Row.templates) \in Nat
      BY RowType DEF IInv, Shapes, Row
    <3>. QED
      BY <1>6, <3>1, RowStays DEF NoTemplate
  <2>. QED
    BY <2>1, <2>2 DEF Meaning, TemplateAccepted
<1>7. CASE NoAlias
  <2>1. loc = "alias" /\ UNCHANGED <<opcode, arguments>> /\ Template' = Template
    BY <1>7, RowStays DEF NoAlias, result
  <2>. QED
    BY <1>0, <2>1, MeansStays DEF Meaning
<1>8. CASE Ended \/ UNCHANGED vars
  <2>1. /\ UNCHANGED <<opcode, arguments, internal, loc, ret>>
        /\ Row' = Row /\ Template' = Template
    BY <1>8, RowStays DEF Ended, vars, result
  <2>2. TemplateAccepted' = TemplateAccepted
    BY <2>1 DEF TemplateAccepted, Returned
  <2>. QED
    BY <1>0, <2>1, <2>2, MeansStays DEF Meaning
<1>. QED
  BY <1>1, <1>2, <1>3, <1>4, <1>5, <1>6, <1>7, <1>8 DEF Next, Loop, DecodeInsn

-----------------------------------------------------------------------------
(* The forms that follow the block.                                        *)

\* A form is not both, and IT is none.
LEMMA FormsDiffer ==
  PlainForms \cap SettingForms = {} /\ "IT" \notin PlainForms \union SettingForms
BY DEF PlainForms, SettingForms

\* A template that is entered has the form for the block.
LEMMA FormsEnter ==
  ASSUME IInv, EnterTemplate, DependsOnIT(BaseRow)
  PROVE  FormShows'
<1>1. /\ loc = "template" /\ internal.k \in 1..Len(Row.templates)
      /\ insn'.iform = Template.iform /\ UNCHANGED itblock
  BY EnterStep
<1>2. Fits(Template) /\ Template \in TemplatesOf(Row)
  BY <1>1, TemplateType DEF IInv, EnterTemplate
<1>3. BaseEncoding \in DOMAIN Encodings /\ internal.alias \in BOOLEAN /\ itblock.is_in \in BOOLEAN
  BY LookupType DEF BaseEncoding, IInv, Shapes
<1>4. \/ Template.iform \in PlainForms /\ itblock.is_in
      \/ Template.iform \in SettingForms /\ ~itblock.is_in
  <2>1. CASE ~internal.alias
    <3>1. Template \in TemplatesOf(BaseRow)
      BY <1>1, <1>2, <2>1 DEF IInv, RowIsFound, Decoding, Row, BaseRow
    <3>2. \/ "init" \in Template.attrs /\ Template.iform \in PlainForms
          \/ "outit" \in Template.attrs /\ Template.iform \in SettingForms
      BY <1>3, <3>1, FlagAssumption DEF BaseRow
    <3>. QED
      BY <1>2, <3>2 DEF Fits
  <2>2. CASE internal.alias
    <3>1. PICK i \in DOMAIN BaseRow.aliases : Row = Encodings[BaseRow.aliases[i]]
      BY <1>1, <2>2 DEF IInv, RowIsFound, Decoding, Row
    <3>2. \/ Row.aliascond = "InITBlock" /\ Template.iform \in PlainForms
          \/ Row.aliascond = "!InITBlock" /\ Template.iform \in SettingForms
      BY <1>2, <1>3, <3>1, FlagAssumption DEF BaseRow
    <3>3. AliasConditionOk(Row.aliascond)
      BY <1>1, <2>2 DEF IInv, Forms, Decoding
    <3>. QED
      BY <3>2, <3>3 DEF AliasConditionOk
  <2>. QED
    BY <1>3, <2>1, <2>2
<1>. QED
  BY <1>1, <1>4, FormsDiffer DEF FormShows

\* A step that leaves form and block alone, and makes none due that was not.
LEMMA FormsStay ==
  ASSUME Forms, UNCHANGED <<context, opcode, itblock, insn.iform>>, FormDue' => FormDue,
         Decoding' /\ internal'.alias => Decoding /\ internal.alias /\ Row' = Row
  PROVE  Forms'
<1>1. FormShows' = FormShows
  BY DEF FormShows
<1>2. Row' = Row => (AliasConditionOk(Row.aliascond) => AliasConditionOk(Row.aliascond)')
  BY DEF AliasConditionOk
<1>. QED
  BY <1>1, <1>2 DEF Forms

\* What depends on the block shows the form for it, the base instruction and its aliases.
LEMMA FormsStep ==
  ASSUME IInv, [Next]_vars
  PROVE  Forms'
<1>0. Forms /\ RowIsFound /\ internal.alias \in BOOLEAN
  BY DEF IInv, Shapes
<1>1. CASE RejectEmpty \/ Reject \/ Undefined
  <2>1. loc' = "done" /\ ret' = FALSE
    BY <1>1 DEF RejectEmpty, Reject, Undefined, Answer
  <2>. QED
    BY <2>1 DEF Forms, FormDue, Decoding, Returned
<1>2. CASE Fetch
  <2>1. loc' = "encoding" /\ internal'.alias = FALSE
    BY <1>2, FetchStep
  <2>. QED
    BY <2>1 DEF Forms, FormDue, Decoding, Returned
<1>3. CASE FirstTemplate \/ SkipTemplate \/ DecodeNode \/ RefuseNode
  <2>1. /\ Decoding /\ (loc' = "template" \/ (loc = "node" /\ loc' = "node")) /\ Row' = Row
        /\ internal'.alias = internal.alias /\ UNCHANGED <<context, opcode, itblock, insn>>
    BY <1>3, SkipStep, NodeStep, RowStays DEF FirstTemplate, Decoding, result
  <2>2. FormDue' => FormDue
    BY <2>1, BaseStays DEF FormDue, Decoding, Returned
  <2>. QED
    BY <1>0, <2>1, <2>2, FormsStay
<1>4. CASE EnterTemplate
  <2>1. /\ loc = "template" /\ loc' = "node" /\ Row' = Row /\ insn'.length = insn.length
        /\ UNCHANGED <<context, opcode, itblock, internal>>
    BY <1>4, EnterStep DEF InsnFields
  <2>2. FormDue' => FormShows'
    BY <1>4, <2>1, BaseStays, FormsEnter DEF FormDue
  <2>3. AliasConditionOk(Row.aliascond) => AliasConditionOk(Row.aliascond)'
    BY <2>1 DEF AliasConditionOk
  <2>. QED
    BY <1>0, <2>1, <2>2, <2>3 DEF Forms, Decoding
<1>5. CASE NoTemplate \/ NoAlias
  <2>1. /\ Decoding /\ loc' = "done" /\ (ret' => internal.alias \/ loc = "alias")
        /\ UNCHANGED <<context, opcode, itblock, insn, internal>>
    BY <1>5 DEF NoTemplate, NoAlias, Answer, result, Decoding
  <2>2. FormDue' => FormDue
    BY <2>1, BaseStays DEF FormDue, Decoding, Returned
  <2>. QED
    BY <1>0, <2>1, <2>2, FormsStay DEF Decoding
<1>6. CASE ArmCondition \/ ThumbCondition \/ ItInstruction
  <2>1. /\ loc = "node" /\ Row' = Row /\ insn'.iform = insn.iform /\ insn'.length = insn.length
        /\ UNCHANGED <<context, opcode, internal>> /\ loc' \in {"alias", "done"}
    BY <1>6, AcceptedStep
  <2>2. FormDue' => FormDue
    BY <2>1, BaseStays DEF FormDue, Decoding, Returned
  <2>3. CASE ~ItInstruction
    <3>1. UNCHANGED itblock
      BY <1>6, <2>3 DEF ArmCondition, ThumbCondition
    <3>2. Decoding' => Decoding
      BY <2>1 DEF Decoding
    <3>. QED
      BY <1>0, <2>1, <2>2, <3>1, <3>2, FormsStay
  <2>4. CASE ItInstruction
    <3>1. Complete /\ Template.iform = "IT"
      BY <2>4 DEF ItInstruction
    <3>2. ~internal.alias
      BY <2>4, <3>1, ItStep
    <3>3. insn.iform = "IT"
      BY <2>1, <3>1 DEF IInv, Showing, TemplateShows
    <3>4. ~FormDue
      BY <1>0, <3>3, FormsDiffer DEF Forms, FormShows
    <3>. QED
      BY <2>1, <2>2, <3>2, <3>4 DEF Forms
  <2>. QED
    BY <2>3, <2>4
<1>7. CASE TakeAlias
  <2>1. /\ loc = "alias" /\ loc' = "encoding"
        /\ UNCHANGED <<context, itblock, opcode, insn>>
    BY <1>7, AliasStep
  <2>2. AliasConditionOk(Row'.aliascond)
    <3>1. internal.encoding \in DOMAIN Encodings /\ DOMAIN internal = InternalFields
      BY DEF IInv, Shapes
    <3>2. FirstAlias(Row) # 0 /\ internal'.encoding = FirstAlias(Row)
      BY <1>7, <3>1 DEF TakeAlias, InternalFields
    <3>3. AliasConditionOk(Encodings[FirstAlias(Row)].aliascond)
      BY <3>1, <3>2, FirstAliasType DEF Row
    <3>. QED
      BY <3>2, <3>3 DEF Row
  <2>3. AliasConditionOk(Row.aliascond)'
    BY <2>1, <2>2 DEF AliasConditionOk
  <2>4. FormDue' => FormDue
    BY <2>1, BaseStays DEF FormDue, Decoding, Returned
  <2>5. FormShows' = FormShows
    BY <2>1 DEF FormShows
  <2>. QED
    BY <1>0, <2>3, <2>4, <2>5 DEF Forms
<1>8. CASE NextInsn
  <2>1. loc' = "call"
    BY <1>8 DEF NextInsn
  <2>. QED
    BY <2>1 DEF Forms, FormDue, Decoding, Returned
<1>9. CASE Ended \/ UNCHANGED vars
  <2>1. /\ UNCHANGED <<context, opcode, itblock, insn, internal, loc, ret>> /\ Row' = Row
    BY <1>9, RowStays DEF Ended, vars, result
  <2>2. FormDue' => FormDue
    BY <2>1, BaseStays DEF FormDue, Decoding, Returned
  <2>. QED
    BY <1>0, <2>1, <2>2, FormsStay DEF Decoding
<1>. QED
  BY <1>1, <1>2, <1>3, <1>4, <1>5, <1>6, <1>7, <1>8, <1>9 DEF Next, Loop, DecodeInsn

-----------------------------------------------------------------------------
(* The invariant.                                                          *)

\* Nothing has been read yet.
LEMMA InitIInv == Init => IInv
<1>. SUFFICES ASSUME Init PROVE IInv
  OBVIOUS
<1>1. Shapes
  BY InitShapes
<1>2. loc = "call" /\ ret = TRUE /\ internal.alias = FALSE
  BY DEF Init, BlankInternal
<1>. QED
  BY <1>1, <1>2
     DEF IInv, Places, Read, RowIsFound, Showing, TemplateAccepted, Conditions, ItWords,
         BaseStands, Decoding, Returned, Meaning, Forms, FormDue

\* Each part is kept by every step.
LEMMA StepIInv ==
  ASSUME IInv, [Next]_vars
  PROVE  IInv'
BY ShapesStep, PlacesStep, ReadStep, RowIsFoundStep, ShowingStep, ConditionsStep, ItWordsStep,
   MeaningStep, FormsStep
   DEF IInv

\* The decoder keeps its shape, its place, and what it has shown so far.
THEOREM Invariant == Spec => []IInv
<1>1. IInv /\ [Next]_vars => IInv'
  BY StepIInv
<1>. QED
  BY <1>1, InitIInv, PTL DEF Spec
-----------------------------------------------------------------------------
(* What follows.                                                           *)

\* The decoder's state keeps its shape: however many templates fail, one that is tried has
\* its own slots only, and no more than 8 (ArgumentCount, decode_nodes).
THEOREM TypeCorrect == Spec => []AArch32TypeOK
<1>1. IInv => AArch32TypeOK
  <2>. SUFFICES ASSUME IInv PROVE AArch32TypeOK
    OBVIOUS
  <2>1. itblock.count \in 0..4 /\ itblock.index = 0 /\ itblock.conditions \in [1..4 -> 0..255]
    BY DEF IInv, Shapes
  <2>. QED
    BY <2>1 DEF IInv, Shapes, Places, AArch32TypeOK
<1>. QED
  BY <1>1, Invariant, PTL

\* No byte behind the buffer is read, and the loop never advances by another length.
THEOREM StaysInBuffer == Spec => []LengthFits
<1>1. IInv => LengthFits
  BY DEF IInv, Read, LengthFits
<1>. QED
  BY <1>1, Invariant, PTL

\* What is accepted is one template, whole, that the word has the bits of, of the row the
\* lookup found or of an alias.  An alias none of whose templates decodes is left out: the
\* base instruction is accepted then with what those templates wrote (NoTemplate).
THEOREM AcceptedIsOneTemplate == Spec => [](TemplateAccepted => AcceptedDescribesInsn)
<1>1. IInv /\ TemplateAccepted => AcceptedDescribesInsn
  <2>. SUFFICES ASSUME IInv, TemplateAccepted PROVE AcceptedDescribesInsn
    OBVIOUS
  <2>1. /\ internal.k \in 1..Len(Row.templates) /\ Under(opcode, Row) /\ Under(opcode, Template)
        /\ TemplateShows /\ insn.encoding = internal.encoding
        /\ insn.argument_count = Len(arguments) /\ Len(arguments) = Len(Template.arguments)
        /\ "is_alias" \in flags <=> internal.alias
    BY DEF IInv, Showing
  <2>2. Encodings[insn.encoding] = Row /\ internal.encoding \in DOMAIN Encodings
    BY <2>1 DEF IInv, Shapes, Row
  <2>3. internal.alias <=> insn.encoding # BaseEncoding
    <3>1. ~internal.alias => insn.encoding = BaseEncoding
      BY <2>1 DEF IInv, RowIsFound, TemplateAccepted
    <3>2. ASSUME internal.alias
          PROVE  insn.encoding # BaseEncoding
      <4>1. PICK i \in DOMAIN BaseRow.aliases : internal.encoding = BaseRow.aliases[i]
        BY <3>2 DEF IInv, RowIsFound, TemplateAccepted
      <4>2. BaseEncoding \in DOMAIN Encodings
        BY LookupType DEF BaseEncoding
      <4>3. BaseRow.aliases[i] # BaseEncoding
        BY <4>1, <4>2, RowType DEF BaseRow
      <4>. QED
        BY <2>1, <4>1, <4>3
    <3>. QED
      BY <3>1, <3>2
  <2>4. internal.k \in DOMAIN Row.templates /\ Template = Templates[Row.templates[internal.k]]
    BY <2>1, <2>2, RowType DEF Template, Row
  <2>5. DOMAIN Template.arguments \subseteq 1..Len(Template.arguments)
    <3>1. Row.templates[internal.k] \in DOMAIN Templates
      BY <2>1, TemplateType DEF IInv
    <3>. QED
      BY <3>1, TemplatesAssumption DEF Template
  <2>6. /\ Template.iform = insn.iform /\ Template.mnemonic = insn.mnemonic
        /\ insn.argument_count = Len(Template.arguments)
        /\ \A i \in DOMAIN Template.arguments :
             arguments[i].type = ArgumentOf(Template.arguments[i].type)
    BY <2>1, <2>5 DEF TemplateShows
  <2>. QED
    BY <2>1, <2>2, <2>3, <2>4, <2>6 DEF AcceptedDescribesInsn
<1>. QED
  BY <1>1, Invariant, PTL

\* No instruction of A32 may run under NV, and any other one has the condition of its field.
THEOREM ConditionCorrect == Spec => []ConditionIsEncoded
<1>1. IInv => ConditionIsEncoded
  BY DEF IInv, Conditions, ConditionShows, ConditionIsEncoded
<1>. QED
  BY <1>1, Invariant, PTL

\* CheckPcSp and decode_arg_wreg flag every write of PC through a register operand.
THEOREM PcWritesAreFlagged == Spec => [](TemplateAccepted => PcWriteBranches)
<1>1. IInv /\ TemplateAccepted => PcWriteBranches
  <2>. SUFFICES ASSUME IInv, TemplateAccepted,
                       NEW a \in Arguments("REGISTER"), a.reg = PC,
                       a.attrs \cap {"write", "write_back"} # {}
                PROVE  "may_branch" \in flags
    BY DEF PcWriteBranches
  <2>1. TemplateShows /\ IsSequence(arguments)
    BY DEF IInv, Showing, Shapes
  <2>2. PICK i \in DOMAIN arguments : a = arguments[i] /\ arguments[i].type = "REGISTER"
    BY DEF Arguments
  <2>3. i \in 1..Len(arguments)
    BY <2>1, <2>2 DEF IsSequence
  <2>. QED
    BY <2>1, <2>2, <2>3 DEF TemplateShows, PcShows
<1>. QED
  BY <1>1, Invariant, PTL

\* An IT opens the block the manual's ITAdvance walks through (decode_it).
THEOREM ItCorrect == Spec => []ItBlockMatchesMask
<1>1. IInv => ItBlockMatchesMask
  BY DEF IInv, ItWords, ItBlockMatchesMask
<1>. QED
  BY <1>1, Invariant, PTL

-----------------------------------------------------------------------------
(* The decoder watched from outside.                                       *)

\* The history only watches.
LEMMA HistoryWatches ==
  ASSUME [HistoryNext]_<<vars, history>>
  PROVE  /\ [Next]_vars
         /\ \/ NextInsn /\ Pass
            \/ DecodeInsn /\ UNCHANGED history
            \/ UNCHANGED <<vars, history>>
BY DEF HistoryNext, Next, Loop, Ended

\* All that IInv says holds of the decoder that is watched.
LEMMA WatchedInvariant == HistorySpec => []IInv
<1>1. HistoryInit => Init
  BY DEF HistoryInit
<1>2. [HistoryNext]_<<vars, history>> => [Next]_vars
  BY HistoryWatches
<1>3. IInv /\ [Next]_vars => IInv'
  BY StepIInv
<1>. QED
  BY <1>1, <1>2, <1>3, InitIInv, PTL DEF HistorySpec

\* A call in progress is not one that has returned, and only an IT changes the block.
LEMMA BlockStep ==
  ASSUME IInv, DecodeInsn
  PROVE  /\ loc # "done" /\ UNCHANGED context
         /\ \/ UNCHANGED itblock
            \/ /\ itblock'.is_in /\ loc' = "done" /\ ret' /\ ~InA32
               /\ insn'.iform = "IT"
<1>1. CASE ItInstruction
  <2>1. Complete /\ ~InA32 /\ Template.iform = "IT" /\ itblock'.is_in
    BY <1>1 DEF ItInstruction, InA32, A32, THUMB
  <2>2. loc = "node" /\ loc' = "done" /\ ret'
    BY <1>1, <2>1, ItStep
  <2>3. TemplateShows
    BY <2>2 DEF IInv, Showing
  <2>4. insn'.iform = "IT" /\ UNCHANGED context
    BY <1>1, <2>1, <2>3, AcceptedStep DEF TemplateShows
  <2>. QED
    BY <2>1, <2>2, <2>4
<1>2. CASE Fetch
  BY <1>2, FetchStep
<1>3. CASE EnterTemplate \/ SkipTemplate
  BY <1>3, EnterStep, SkipStep
<1>4. CASE DecodeNode \/ RefuseNode
  BY <1>4, NodeStep
<1>5. CASE ArmCondition \/ ThumbCondition
  BY <1>5, AcceptedStep DEF ArmCondition, ThumbCondition
<1>6. CASE RejectEmpty \/ Reject \/ Undefined \/ FirstTemplate \/ NoTemplate \/ NoAlias \/ TakeAlias
  BY <1>6, AliasStep
     DEF RejectEmpty, Reject, Undefined, FirstTemplate, NoTemplate, MoreTemplates, NoAlias, Answer
<1>. QED
  BY <1>1, <1>2, <1>3, <1>4, <1>5, <1>6 DEF DecodeInsn

\* The size of a block is a number: an IT has been returned, so there is a mask.
LEMMA PassedSize ==
  ASSUME IInv, Returned, insn.iform = "IT"
  PROVE  itblock.is_in /\ BlockSize(Field(opcode, 3, 0)) \in Nat
<1>1. itblock.is_in /\ itblock.count = BlockSize(Field(opcode, 3, 0))
  BY DEF IInv, ItWords, ItBlockMatchesMask
<1>2. itblock.count \in 0..4
  BY DEF IInv, Shapes
<1>. QED
  BY <1>1, <1>2

\* The block the caller has passed into and the decoder's own agree on when it began.
LEMMA HistoryStep ==
  ASSUME IInv, HistoryInv, [HistoryNext]_<<vars, history>>
  PROVE  HistoryInv'
<1>1. CASE NextInsn /\ Pass
  <2>1. Returned /\ UNCHANGED itblock
    BY <1>1 DEF NextInsn, Returned
  <2>2. CASE ~InA32 /\ insn.iform = "IT"
    <3>1. met' = TRUE /\ left' = BlockSize(Field(opcode, 3, 0))
      BY <1>1, <2>2 DEF Pass
    <3>. QED
      BY <2>1, <2>2, <3>1, PassedSize DEF HistoryInv
  <2>3. CASE ~(~InA32 /\ insn.iform = "IT")
    <3>1. met' = met /\ left' = IF left > 0 THEN left - 1 ELSE 0
      BY <1>1, <2>3 DEF Pass
    <3>2. left' \in Nat /\ (left' > 0 => left > 0)
      BY <3>1 DEF HistoryInv
    <3>. QED
      BY <2>1, <2>3, <3>1, <3>2 DEF HistoryInv
  <2>. QED
    BY <2>2, <2>3
<1>2. CASE DecodeInsn /\ UNCHANGED history
  <2>1. UNCHANGED <<met, left>> /\ ~Returned
    BY <1>2, BlockStep DEF history, Returned
  <2>2. \/ UNCHANGED itblock
        \/ itblock'.is_in /\ Returned' /\ ~InA32' /\ insn'.iform = "IT"
    BY <1>2, BlockStep DEF Returned, InA32
  <2>. QED
    BY <2>1, <2>2 DEF HistoryInv
<1>3. CASE UNCHANGED <<vars, history>>
  BY <1>3 DEF HistoryInv, vars, history, result, Returned, InA32
<1>. QED
  BY <1>1, <1>2, <1>3, HistoryWatches

\* A word of Thumb that means one instruction in an IT block and another outside is shown as the
\* one that sets the flags where the caller has passed no IT, and as its twin in all of the
\* block of the last IT, whichever templates failed and whether or not an alias is shown.
THEOREM FlagSettingCorrect == HistorySpec => []FlagSettingFollowsIT
<1>1. HistoryInit => HistoryInv
  BY DEF HistoryInit, Init, NoBlock, HistoryInv
<1>2. IInv /\ HistoryInv /\ [HistoryNext]_<<vars, history>> => HistoryInv'
  BY HistoryStep
<1>3. IInv /\ HistoryInv => FlagSettingFollowsIT
  <2>. SUFFICES ASSUME IInv, HistoryInv, FormOpen
                PROVE  /\ insn.iform \in SettingForms \union PlainForms
                       /\ ~met => insn.iform \in SettingForms
                       /\ left > 0 => insn.iform \in PlainForms
    BY DEF FlagSettingFollowsIT
  <2>1. FormShows
    BY DEF IInv, Forms, FormDue, FormOpen, Returned, BaseRow
  <2>2. itblock.is_in <=> met
    BY <2>1, FormsDiffer DEF HistoryInv, FormShows
  <2>. QED
    BY <2>1, <2>2 DEF FormShows, HistoryInv
<1>. QED
  BY <1>1, <1>2, <1>3, WatchedInvariant, PTL DEF HistorySpec

-----------------------------------------------------------------------------
(* What the values mean.                                                   *)

\* The slots of an accepted template are its nodes', and each means what its bits mean.
LEMMA AcceptedMeans ==
  ASSUME IInv, TemplateAccepted, NEW i \in DOMAIN Template.arguments
  PROVE  /\ i \in 1..Len(Template.arguments) /\ Template \in TemplatesOf(Row)
         /\ Row.templates[internal.k] \in DOMAIN Templates
         /\ Means(arguments[i], opcode, Template.arguments[i])
<1>1. internal.k \in 1..Len(Row.templates) /\ Len(arguments) = Len(Template.arguments)
  BY DEF IInv, Showing
<1>2. Row.templates[internal.k] \in DOMAIN Templates /\ Template \in TemplatesOf(Row)
  BY <1>1, TemplateType DEF IInv
<1>3. i \in 1..Len(Template.arguments)
  BY <1>2, TemplatesAssumption DEF Template
<1>. QED
  BY <1>1, <1>2, <1>3 DEF IInv, Meaning, TemplateMeans

\* A list that is accepted stays in the bank of its first register (BankList).
THEOREM ListsCorrect == Spec => []ListsStayInBank
<1>1. IInv => ListsStayInBank
  BY AcceptedMeans DEF ListsStayInBank, Means
<1>. QED
  BY <1>1, Invariant, PTL

\* The row of an instruction is one of its instruction set.
LEMMA RowIsOf ==
  ASSUME IInv, Returned
  PROVE  Row \in RowsOf(IF InA32 THEN "A32" ELSE IF insn.length = 2 THEN "T16" ELSE "T32")
<1>. DEFINE isa == IF InA32 THEN "A32" ELSE IF insn.length = 2 THEN "T16" ELSE "T32"
<1>1. /\ ~internal.alias => internal.encoding = BaseEncoding
      /\ internal.alias =>
           \E i \in DOMAIN BaseRow.aliases : internal.encoding = BaseRow.aliases[i]
      /\ internal.alias \in BOOLEAN
  BY DEF IInv, RowIsFound, Shapes
<1>2. BaseEncoding \in {0} \union {e \in DOMAIN Encodings : Encodings[e].isa = isa}
  BY LookupType DEF BaseEncoding
<1>. HIDE DEF isa
<1>3. Row = BaseRow \/ \E i \in DOMAIN BaseRow.aliases : Row = Encodings[BaseRow.aliases[i]]
  BY <1>1 DEF Row, BaseRow
<1>. DEFINE With(e) == {Encodings[e]} \union {Encodings[Encodings[e].aliases[i]] :
                                                i \in DOMAIN Encodings[e].aliases}
            found == {0} \union {e \in DOMAIN Encodings : Encodings[e].isa = isa}
<1>4. Row \in With(BaseEncoding)
  BY <1>3, Zenon DEF BaseRow
<1>5. RowsOf(isa) = UNION {With(e) : e \in found}
  BY Zenon DEF RowsOf
<1>6. Row \in RowsOf(isa)
  <2>. HIDE DEF With, found
  <2>1. BaseEncoding \in found
    BY <1>2, Zenon DEF found
  <2>. QED
    BY <1>4, <1>5, <2>1, Zenon
<1>. QED
  BY <1>6 DEF isa

\* An immediate of A32 or Thumb that means what its bits mean is the manual's.
LEMMA ImmediateMeans ==
  ASSUME NEW argument, NEW node, Means(argument, opcode, node)
  PROVE  /\ node.symbol = "aimm" /\ IsImmediate(node, "IMM", Span(11, 0)) =>
              argument.imm = A32ExpandImm(Field(opcode, 11, 0))
         /\ node.symbol = "timm"
            /\ IsImmediate(node, "IMM", <<26>> \o Span(14, 12) \o Span(7, 0)) =>
              argument.imm = T32ExpandImm(Field(opcode, 7, 0)
                               \union Shifted(Field(opcode, 14, 12), 8)
                               \union Shifted(Field(opcode, 26, 26), 11))
         /\ node.symbol = "vfpimm"
            /\ IsImmediate(node, "FPIMM", Span(19, 16) \o Span(3, 0)) =>
              argument.imm = Word32Of(VFPExpandImm(Field(opcode, 3, 0)
                                        \union Shifted(Field(opcode, 19, 16), 4)))
<1>. DEFINE timm == <<26>> \o Span(14, 12) \o Span(7, 0)
            vfpimm == Span(19, 16) \o Span(3, 0)
            imm12 == Field(opcode, 7, 0) \union Shifted(Field(opcode, 14, 12), 8)
                       \union Shifted(Field(opcode, 26, 26), 11)
            imm8 == Field(opcode, 3, 0) \union Shifted(Field(opcode, 19, 16), 4)
<1>1. \A hi, lo : Span(hi, lo) = Run(hi, lo)
  BY DEF Span, Run
<1>2. /\ Span(11, 0) # <<>>
      /\ decode_a32_imm(ReadEncodedin(opcode, Span(11, 0))) = A32ExpandImm(Field(opcode, 11, 0))
  BY <1>1, ArmFieldExpands
<1>3. timm # <<>> /\ decode_t32_imm(ReadEncodedin(opcode, timm)) = T32ExpandImm(imm12)
  BY <1>1, ThumbFieldExpands
<1>4. /\ vfpimm # <<>>
      /\ decode_vfp_imm(Num(ReadEncodedin(opcode, vfpimm))).imm = VFPExpandImm(imm8)
  BY <1>1, VfpFieldExpands
<1>. HIDE DEF timm, vfpimm, imm12, imm8
<1>5. ASSUME node.symbol \in {"aimm", "timm", "vfpimm"}, node.type \in {"IMM", "FPIMM"},
             node.table = <<>>, node.enc # <<>>
      PROVE  argument.imm = Expansion(opcode, node)
  BY <1>5 DEF Means, IsExpanded
<1>6. ASSUME node.symbol = "aimm", IsImmediate(node, "IMM", Span(11, 0))
      PROVE  argument.imm = A32ExpandImm(Field(opcode, 11, 0))
  <2>1. argument.imm = Expansion(opcode, node)
    BY <1>2, <1>5, <1>6 DEF IsImmediate
  <2>2. Expansion(opcode, node) = decode_a32_imm(ReadEncodedin(opcode, Span(11, 0)))
    BY <1>6 DEF Expansion, IsImmediate
  <2>. QED
    BY <1>2, <2>1, <2>2
<1>7. ASSUME node.symbol = "timm", IsImmediate(node, "IMM", timm)
      PROVE  argument.imm = T32ExpandImm(imm12)
  <2>1. argument.imm = Expansion(opcode, node)
    BY <1>3, <1>5, <1>7 DEF IsImmediate
  <2>2. Expansion(opcode, node) = decode_t32_imm(ReadEncodedin(opcode, timm))
    BY <1>7 DEF Expansion, IsImmediate
  <2>. QED
    BY <1>3, <2>1, <2>2
<1>8. ASSUME node.symbol = "vfpimm", IsImmediate(node, "FPIMM", vfpimm)
      PROVE  argument.imm = Word32Of(VFPExpandImm(imm8))
  <2>1. argument.imm = Expansion(opcode, node)
    BY <1>4, <1>5, <1>8 DEF IsImmediate
  <2>2. Expansion(opcode, node) = Word32Of(decode_vfp_imm(Num(ReadEncodedin(opcode, vfpimm))).imm)
    BY <1>8 DEF Expansion, IsImmediate
  <2>. QED
    BY <1>4, <2>1, <2>2
<1>. QED
  BY <1>6, <1>7, <1>8, Zenon DEF timm, vfpimm, imm12, imm8

\* What stands for a modified immediate is the manual's A32ExpandImm or T32ExpandImm of
\* its twelve bits, wherever in the word they are (decode_arg_imm).
THEOREM ImmediatesCorrect == Spec => []ImmediatesExpand
<1>1. ASSUME IInv, TemplateAccepted, NEW i \in DOMAIN Template.arguments
      PROVE  LET node  == Template.arguments[i]
                 imm12 == Field(opcode, 7, 0) \union Shifted(Field(opcode, 14, 12), 8)
                            \union Shifted(Field(opcode, 26, 26), 11)
             IN  /\ node.symbol = "aimm" /\ node.enc # <<>> =>
                      arguments[i].imm = A32ExpandImm(Field(opcode, 11, 0))
                 /\ node.symbol = "timm" => arguments[i].imm = T32ExpandImm(imm12)
  <2>. DEFINE node == Template.arguments[i]
  <2>1. /\ i \in 1..Len(Template.arguments) /\ Row.templates[internal.k] \in DOMAIN Templates
        /\ Means(arguments[i], opcode, node)
    BY <1>1, AcceptedMeans
  <2>2. /\ node.symbol = "aimm" /\ node.enc # <<>> => IsImmediate(node, "IMM", Span(11, 0))
        /\ node.symbol = "timm" =>
             IsImmediate(node, "IMM", <<26>> \o Span(14, 12) \o Span(7, 0))
    BY <2>1, ImmediateAssumption, Zenon DEF Template
  <2>. HIDE DEF node
  <2>3. /\ node.symbol = "aimm" /\ node.enc # <<>> =>
             arguments[i].imm = A32ExpandImm(Field(opcode, 11, 0))
        /\ node.symbol = "timm" =>
             arguments[i].imm = T32ExpandImm(Field(opcode, 7, 0)
                                  \union Shifted(Field(opcode, 14, 12), 8)
                                  \union Shifted(Field(opcode, 26, 26), 11))
    BY <2>1, <2>2, ImmediateMeans, Zenon
  <2>. QED
    BY <2>3, Zenon DEF node
<1>2. IInv => ImmediatesExpand
  BY <1>1, Zenon DEF ImmediatesExpand
<1>. QED
  BY <1>2, Invariant, PTL

\* A vector's immediate that means what its bits mean is the manual's.
LEMMA VectorMeans ==
  ASSUME NEW argument, NEW node, Means(argument, opcode, node), node.symbol = "advimm",
         NEW h \in Nat,
         IsImmediate(node, "IMM", << 5 >> \o Span(11, 8) \o <<h>> \o Span(18, 16) \o Span(3, 0)),
         UInt(Field(opcode, 11, 8)) = 15 => 5 \notin opcode
  PROVE  LET op    == 5 \in opcode
             cmode == UInt(Field(opcode, 11, 8))
             imm8  == Field(opcode, 3, 0) \union Shifted(Field(opcode, 18, 16), 4)
                        \union Shifted(Field(opcode, h, h), 7)
             size  == CASE cmode = 14 -> IF op THEN 64 ELSE 8
                        [] cmode \in 8..11 -> 16
                        [] OTHER -> 32
         IN  argument.imm = AdvSIMDExpandImm(op, cmode, imm8) \cap 0..size - 1
<1>. DEFINE enc == <<5>> \o Span(11, 8) \o <<h>> \o Span(18, 16) \o Span(3, 0)
            run == <<5>> \o Run(11, 8) \o <<h>> \o Run(18, 16) \o Run(3, 0)
            cmode == UInt(Field(opcode, 11, 8))
            imm8  == Field(opcode, 3, 0) \union Shifted(Field(opcode, 18, 16), 4)
                       \union Shifted(Field(opcode, h, h), 7)
            size  == CASE cmode = 14 -> IF 5 \in opcode THEN 64 ELSE 8
                       [] cmode \in 8..11 -> 16
                       [] OTHER -> 32
            lane  == AdvSIMDExpandImm(5 \in opcode, cmode, imm8) \cap 0..size - 1
<1>1. \A hi, lo : Span(hi, lo) = Run(hi, lo)
  BY DEF Span, Run
<1>2. enc = run
  BY <1>1, Zenon
<1>3. run # <<>> /\ decode_advsimd_imm(ReadEncodedin(opcode, run)) = lane
  BY VectorFieldExpands, Zenon
<1>4. IsImmediate(node, "IMM", enc)
  OBVIOUS
<1>. HIDE DEF enc, run, lane
<1>5. /\ node.type = "IMM" /\ node.enc # <<>> /\ node.table = <<>> /\ node.enc = run
  BY <1>2, <1>3, <1>4 DEF IsImmediate
<1>6. argument.imm = Expansion(opcode, node)
  BY <1>5 DEF Means, IsExpanded
<1>7. Expansion(opcode, node) = decode_advsimd_imm(ReadEncodedin(opcode, run))
  BY <1>5 DEF Expansion
<1>8. argument.imm = lane
  BY <1>3, <1>6, <1>7, Zenon
<1>. QED
  BY <1>8, Zenon DEF lane

\* A vector immediate is the manual's AdvSIMDExpandImm, as far as one lane goes, or
\* VFPExpandImm (decode_arg_imm, decode_arg_fpimm).
THEOREM VectorImmediatesCorrect == Spec => []VectorImmediatesExpand
<1>1. ASSUME IInv, TemplateAccepted, NEW i \in DOMAIN Template.arguments
      PROVE  LET node  == Template.arguments[i]
                 high  == IF InA32 THEN 24 ELSE 28
                 op    == 5 \in opcode
                 cmode == UInt(Field(opcode, 11, 8))
                 imm8  == Field(opcode, 3, 0) \union Shifted(Field(opcode, 18, 16), 4)
                            \union Shifted(Field(opcode, high, high), 7)
                 size  == CASE cmode = 14 -> IF op THEN 64 ELSE 8
                            [] cmode \in 8..11 -> 16
                            [] OTHER -> 32
                 vfp8  == Field(opcode, 3, 0) \union Shifted(Field(opcode, 19, 16), 4)
             IN  /\ node.symbol = "advimm" /\ ~(op /\ cmode = 15) =>
                      arguments[i].imm = AdvSIMDExpandImm(op, cmode, imm8) \cap 0..size - 1
                 /\ node.symbol = "vfpimm" => arguments[i].imm = Word32Of(VFPExpandImm(vfp8))
  <2>. DEFINE node == Template.arguments[i]
              high == IF InA32 THEN 24 ELSE 28
              cmode == UInt(Field(opcode, 11, 8))
              imm8  == Field(opcode, 3, 0) \union Shifted(Field(opcode, 18, 16), 4)
                         \union Shifted(Field(opcode, high, high), 7)
              size  == CASE cmode = 14 -> IF 5 \in opcode THEN 64 ELSE 8
                         [] cmode \in 8..11 -> 16
                         [] OTHER -> 32
              isa == IF InA32 THEN "A32" ELSE IF insn.length = 2 THEN "T16" ELSE "T32"
  <2>1. /\ i \in 1..Len(Template.arguments) /\ Row.templates[internal.k] \in DOMAIN Templates
        /\ Template \in TemplatesOf(Row) /\ Means(arguments[i], opcode, node)
    BY <1>1, AcceptedMeans
  <2>2. node.symbol = "vfpimm" => IsImmediate(node, "FPIMM", Span(19, 16) \o Span(3, 0))
    BY <2>1, ImmediateAssumption, Zenon DEF Template
  <2>3. Row \in RowsOf(isa) /\ isa \in {"A32", "T16", "T32"} /\ (isa = "A32" <=> InA32)
    BY <1>1, RowIsOf DEF TemplateAccepted
  <2>4. high \in Nat /\ high = IF isa = "A32" THEN 24 ELSE 28
    BY <2>3
  <2>. HIDE DEF isa
  <2>5. node.symbol = "advimm" =>
          IsImmediate(node, "IMM", <<5>> \o Span(11, 8) \o <<IF isa = "A32" THEN 24 ELSE 28>>
                                     \o Span(18, 16) \o Span(3, 0))
    BY <2>1, <2>3, VectorAssumption, Zenon
  <2>. HIDE DEF node, high
  <2>6. node.symbol = "advimm" =>
          IsImmediate(node, "IMM", <<5>> \o Span(11, 8) \o <<high>> \o Span(18, 16) \o Span(3, 0))
    BY <2>4, <2>5, Zenon
  <2>7. node.symbol = "advimm" /\ ~(5 \in opcode /\ cmode = 15) =>
          arguments[i].imm = AdvSIMDExpandImm(5 \in opcode, cmode, imm8) \cap 0..size - 1
    <3>1. ASSUME node.symbol = "advimm", UInt(Field(opcode, 11, 8)) = 15 => 5 \notin opcode
          PROVE  arguments[i].imm = AdvSIMDExpandImm(5 \in opcode, cmode, imm8) \cap 0..size - 1
      <4>1. /\ high \in Nat /\ Means(arguments[i], opcode, node)
            /\ IsImmediate(node, "IMM",
                           <<5>> \o Span(11, 8) \o <<high>> \o Span(18, 16) \o Span(3, 0))
        BY <2>1, <2>4, <2>6, <3>1
      <4>. QED
        BY <3>1, <4>1, VectorMeans, ZenonT(60)
    <3>2. ~(5 \in opcode /\ cmode = 15) => (UInt(Field(opcode, 11, 8)) = 15 => 5 \notin opcode)
      BY Zenon
    <3>. QED
      BY <3>1, <3>2, Zenon
  <2>8. node.symbol = "vfpimm" =>
          arguments[i].imm = Word32Of(VFPExpandImm(Field(opcode, 3, 0)
                                        \union Shifted(Field(opcode, 19, 16), 4)))
    BY <2>1, <2>2, ImmediateMeans, Zenon
  <2>. QED
    BY <2>7, <2>8, Zenon DEF node, high
<1>2. IInv => VectorImmediatesExpand
  BY <1>1, Zenon DEF VectorImmediatesExpand
<1>. QED
  BY <1>2, Invariant, PTL

\* A shift and what an amount of zero stands for.
LEMMA ShiftValue ==
  ASSUME NEW code \in 0..3, NEW amount \in Nat, NEW type, type = std_shift[code + 1]
  PROVE  DecodeImmShift(code, amount) =
           IF amount # 0 THEN <<type, amount>>
           ELSE CASE type \in {"ASR", "LSR"} -> <<type, 32>>
                  [] type = "ROR" -> <<"RRX", 0>>
                  [] OTHER -> <<type, 0>>
<1>1. CASE code = 0
  <2>1. type = "LSL" /\ DecodeImmShift(code, amount) = <<"LSL", amount>>
    BY <1>1 DEF std_shift, DecodeImmShift
  <2>. QED
    BY <2>1
<1>2. CASE code = 1
  <2>1. /\ type = "LSR"
        /\ DecodeImmShift(code, amount) = <<"LSR", IF amount = 0 THEN 32 ELSE amount>>
    BY <1>2 DEF std_shift, DecodeImmShift
  <2>. QED
    BY <2>1
<1>3. CASE code = 2
  <2>1. /\ type = "ASR"
        /\ DecodeImmShift(code, amount) = <<"ASR", IF amount = 0 THEN 32 ELSE amount>>
    BY <1>3 DEF std_shift, DecodeImmShift
  <2>. QED
    BY <2>1
<1>4. CASE code = 3
  <2>1. /\ type = "ROR"
        /\ DecodeImmShift(code, amount) = IF amount = 0 THEN <<"RRX", 0>> ELSE <<"ROR", amount>>
    BY <1>4 DEF std_shift, DecodeImmShift
  <2>. QED
    BY <2>1
<1>. QED
  BY <1>1, <1>2, <1>3, <1>4

\* Bits of a row that a word has are the word's.
LEMMA FixedType ==
  ASSUME NEW row, Under(opcode, row), {5, 6} \subseteq row.mask
  PROVE  Slice(row.bits, 6, 5) = Slice(opcode, 6, 5)
<1>1. \A b \in {5, 6} : b \in row.bits <=> b \in opcode
  BY DEF Under
<1>2. 6 - 5 = 1 /\ \A b \in 0..1 : b + 5 \in {5, 6}
  OBVIOUS
<1>. QED
  BY <1>1, <1>2 DEF Slice

\* A shifter that has its bits where A32 has them shows the manual's shift.
LEMMA ShifterIsManual ==
  ASSUME NEW row, Under(opcode, row), NEW shifter, shifter.sub.amount.enc = Span(11, 7),
         LET shift == shifter.sub.shift
         IN  \/ shift.enc = Span(6, 5) /\ shift.table = <<>>
             \/ /\ shift.enc = Span(6, 5)
                /\ \A n \in 0..3 : n \in DOMAIN shift.table
                                   /\ shift.table[n].value = std_shift[n + 1]
             \/ /\ shift.enc = <<>> /\ {5, 6} \subseteq row.mask
                /\ shift.value = std_shift[Num(Slice(row.bits, 6, 5)) + 1]
  PROVE  ShiftShown(opcode, shifter) =
           DecodeImmShift(UInt(Field(opcode, 6, 5)), UInt(Field(opcode, 11, 7)))
<1>. DEFINE shift  == shifter.sub.shift
            code   == UInt(Field(opcode, 6, 5))
            amount == UInt(Field(opcode, 11, 7))
            type   == ShiftType(opcode, shift)
<1>1. Span(6, 5) = Run(6, 5) /\ Span(11, 7) = Run(11, 7)
  BY DEF Span, Run
<1>2. /\ Span(6, 5) # <<>> /\ Num(ReadEncodedin(opcode, Span(6, 5))) = code
      /\ Num(Slice(opcode, 6, 5)) = code /\ code \in 0..3
      /\ Num(ReadEncodedin(opcode, shifter.sub.amount.enc)) = amount /\ amount \in Nat
  BY <1>1, ShiftFields
<1>. HIDE DEF code, amount
<1>3. type = std_shift[code + 1]
  <2>1. CASE shift.enc = Span(6, 5) /\ shift.table = <<>>
    BY <1>2, <2>1 DEF ShiftType
  <2>2. CASE /\ shift.enc = Span(6, 5) /\ shift.table # <<>>
             /\ \A n \in 0..3 : n \in DOMAIN shift.table
                                /\ shift.table[n].value = std_shift[n + 1]
    <3>1. shift.table[code].value = std_shift[code + 1]
      BY <1>2, <2>2
    <3>2. type = shift.table[code].value
      BY <1>2, <2>2 DEF ShiftType
    <3>. QED
      BY <3>1, <3>2
  <2>3. CASE /\ shift.enc = <<>> /\ {5, 6} \subseteq row.mask
             /\ shift.value = std_shift[Num(Slice(row.bits, 6, 5)) + 1]
    <3>1. Slice(row.bits, 6, 5) = Slice(opcode, 6, 5)
      BY <2>3, FixedType
    <3>2. shift.value = std_shift[code + 1]
      BY <1>2, <2>3, <3>1
    <3>3. type = shift.value
      BY <2>3 DEF ShiftType
    <3>. QED
      BY <3>2, <3>3
  <2>. QED
    BY <2>1, <2>2, <2>3
<1>. HIDE DEF type
<1>4. ShiftShown(opcode, shifter) =
        IF amount # 0 THEN <<type, amount>>
        ELSE CASE type \in {"ASR", "LSR"} -> <<type, 32>>
               [] type = "ROR" -> <<"RRX", 0>>
               [] OTHER -> <<type, 0>>
  BY <1>2, Zenon DEF ShiftShown, type
<1>5. ShiftShown(opcode, shifter) = DecodeImmShift(code, amount)
  BY <1>2, <1>3, <1>4, ShiftValue
<1>. QED
  BY <1>5 DEF code, amount

\* A shift by an immediate is the manual's DecodeImmShift, of a register operand and of a
\* memory operand's offset (decode_arg_shift).
THEOREM ShiftsCorrect == Spec => []ShiftsAreManual
<1>1. ASSUME IInv, TemplateAccepted, InA32, NEW i \in DOMAIN Template.arguments,
             HasAmount(Template.arguments[i])
      PROVE  <<arguments[i].shift, arguments[i].amount>> =
               DecodeImmShift(UInt(Field(opcode, 6, 5)), UInt(Field(opcode, 11, 7)))
  <2>. DEFINE node == Template.arguments[i]
              shifter == ShifterOf(node)
  <2>1. /\ i \in 1..Len(Template.arguments) /\ Template \in TemplatesOf(Row)
        /\ Means(arguments[i], opcode, node)
    BY <1>1, AcceptedMeans
  <2>2. Row \in RowsOf("A32")
    BY <1>1, RowIsOf DEF TemplateAccepted
  <2>3. Under(opcode, Row)
    BY <1>1 DEF IInv, Showing
  <2>4. i \in {n \in 1..Len(Template.arguments) : HasAmount(Template.arguments[n])}
    BY <1>1, <2>1
  <2>5. LET shift == shifter.sub.shift
        IN  /\ shifter.sub.amount.enc = Span(11, 7)
            /\ \/ shift.enc = Span(6, 5) /\ shift.table = <<>>
               \/ /\ shift.enc = Span(6, 5)
                  /\ \A n \in 0..3 : n \in DOMAIN shift.table
                                     /\ shift.table[n].value = std_shift[n + 1]
               \/ /\ shift.enc = <<>> /\ {5, 6} \subseteq Row.mask
                  /\ shift.value = std_shift[Num(Slice(Row.bits, 6, 5)) + 1]
    BY <2>1, <2>2, <2>4, ShiftAssumption, Zenon
  <2>. HIDE DEF shifter
  <2>6. ShiftShown(opcode, shifter) =
          DecodeImmShift(UInt(Field(opcode, 6, 5)), UInt(Field(opcode, 11, 7)))
    BY <2>3, <2>5, ShifterIsManual, Zenon
  <2>7. <<arguments[i].shift, arguments[i].amount>> = ShiftShown(opcode, shifter)
    BY <1>1, <2>1, Zenon DEF Means, shifter
  <2>. QED
    BY <2>6, <2>7, Zenon
<1>2. IInv => ShiftsAreManual
  BY <1>1, Zenon DEF ShiftsAreManual
<1>. QED
  BY <1>2, Invariant, PTL

\* The offset of a label that means what its bits mean.
LEMMA OffsetMeans ==
  ASSUME NEW argument, NEW node, Means(argument, opcode, node)
  PROVE  /\ IsOffset(node, Span(23, 0), 4) =>
              argument.imm = SignExtend(Shifted(Field(opcode, 23, 0), 2), 26, 64)
         /\ IsOffset(node, Span(7, 0), 2) =>
              argument.imm = SignExtend(Shifted(Field(opcode, 7, 0), 1), 9, 64)
         /\ IsOffset(node, Span(10, 0), 2) =>
              argument.imm = SignExtend(Shifted(Field(opcode, 10, 0), 1), 12, 64)
         /\ node.type = "ADDR" /\ node.symbol = "plabela" /\ node.enc = Span(11, 0) =>
              argument.imm = A32ExpandImm(Field(opcode, 11, 0))
<1>1. \A hi, lo : Span(hi, lo) = Run(hi, lo)
  BY DEF Span, Run
<1>2. ASSUME NEW enc, NEW scale, scale # 0, IsOffset(node, enc, scale)
      PROVE  argument.imm =
               Scaled(sign_extend64(ReadEncodedin(opcode, enc), Len(enc) - 1), scale)
  <2>1. argument.imm = Expansion(opcode, node)
    BY <1>2 DEF Means, IsExpanded, IsOffset
  <2>. QED
    BY <1>2, <2>1 DEF Expansion, IsOffset
<1>3. ASSUME NEW k \in 0..30
      PROVE  /\ Scaled(sign_extend64(ReadEncodedin(opcode, Span(k, 0)), Len(Span(k, 0)) - 1), 2)
                  = SignExtend(Shifted(Field(opcode, k, 0), 1), k + 2, 64)
             /\ Scaled(sign_extend64(ReadEncodedin(opcode, Span(k, 0)), Len(Span(k, 0)) - 1), 4)
                  = SignExtend(Shifted(Field(opcode, k, 0), 2), k + 3, 64)
  BY <1>1, <1>3, BranchField, Zenon
<1>4. IsOffset(node, Span(23, 0), 4) =>
        argument.imm = SignExtend(Shifted(Field(opcode, 23, 0), 2), 26, 64)
  <2>1. 23 \in 0..30 /\ 23 + 3 = 26 /\ 4 # 0
    OBVIOUS
  <2>. QED
    BY <1>2, <1>3, <2>1
<1>5. IsOffset(node, Span(7, 0), 2) =>
        argument.imm = SignExtend(Shifted(Field(opcode, 7, 0), 1), 9, 64)
  <2>1. 7 \in 0..30 /\ 7 + 2 = 9 /\ 2 # 0
    OBVIOUS
  <2>. QED
    BY <1>2, <1>3, <2>1
<1>6. IsOffset(node, Span(10, 0), 2) =>
        argument.imm = SignExtend(Shifted(Field(opcode, 10, 0), 1), 12, 64)
  <2>1. 10 \in 0..30 /\ 10 + 2 = 12 /\ 2 # 0
    OBVIOUS
  <2>. QED
    BY <1>2, <1>3, <2>1
<1>7. ASSUME node.type = "ADDR", node.symbol = "plabela", node.enc = Span(11, 0)
      PROVE  argument.imm = A32ExpandImm(Field(opcode, 11, 0))
  <2>1. argument.imm = Expansion(opcode, node)
    BY <1>7 DEF Means, IsExpanded
  <2>2. Expansion(opcode, node) = decode_a32_imm(ReadEncodedin(opcode, Span(11, 0)))
    BY <1>7 DEF Expansion
  <2>. QED
    BY <1>1, <2>1, <2>2, ArmFieldExpands
<1>. QED
  BY <1>4, <1>5, <1>6, <1>7, Zenon

\* The four highest bits of a word of 16.
LEMMA TopNibble ==
  ASSUME NEW word
  PROVE  Field(word, 15, 12) = {0, 2, 3} <=> word \cap 12..15 = {12, 14, 15}
<1>1. Field(word, 15, 12) = {b \in 0..3 : b + 12 \in word}
  <2>1. 15 - 12 = 3
    OBVIOUS
  <2>. QED
    BY <2>1, SliceIsField DEF Slice
<1>2. /\ 0 \in Field(word, 15, 12) <=> 12 \in word
      /\ 1 \in Field(word, 15, 12) <=> 13 \in word
      /\ 2 \in Field(word, 15, 12) <=> 14 \in word
      /\ 3 \in Field(word, 15, 12) <=> 15 \in word
  BY <1>1
<1>3. Field(word, 15, 12) \subseteq {0, 1, 2, 3}
  BY <1>1
<1>4. Field(word, 15, 12) = {0, 2, 3} <=>
        12 \in word /\ 13 \notin word /\ 14 \in word /\ 15 \in word
  BY <1>2, <1>3
<1>5. 12..15 = {12, 13, 14, 15}
  OBVIOUS
<1>6. word \cap 12..15 = {12, 14, 15} <=>
        12 \in word /\ 13 \notin word /\ 14 \in word /\ 15 \in word
  BY <1>5
<1>. QED
  BY <1>4, <1>6

\* The offset of a branch is the sign-extended and scaled field of its word, that of ADR
\* the expanded immediate (decode_arg_label).
THEOREM BranchOffsetsCorrect == Spec => []BranchOffsetIsField
<1>1. ASSUME IInv, TemplateAccepted
      PROVE  BranchOffsetIsField
  <2>1. /\ insn.iform = Template.iform /\ Under(opcode, Row)
        /\ internal.k \in 1..Len(Row.templates)
    BY <1>1 DEF IInv, Showing, TemplateShows
  <2>2. Template \in TemplatesOf(Row) /\ Row.templates[internal.k] \in DOMAIN Templates
    BY <1>1, <2>1, TemplateType DEF IInv
  <2>3. Len(Template.arguments) \in Nat /\ DOMAIN Template.arguments = 1..Len(Template.arguments)
    BY <2>2, TemplatesAssumption DEF Template
  <2>4. /\ Len(Template.arguments) > 0 => Means(arguments[1], opcode, Template.arguments[1])
        /\ Len(Template.arguments) > 1 => Means(arguments[2], opcode, Template.arguments[2])
    BY <1>1, <2>3, AcceptedMeans
  <2>5. /\ InA32 => Row \in RowsOf("A32")
        /\ InA32 => insn.length = 4
        /\ ~InA32 /\ insn.length = 2 => Row \in RowsOf("T16")
    BY <1>1, RowIsOf DEF TemplateAccepted, IInv, Read
  <2>6. ASSUME InA32, insn.iform \in {"B", "BL"}
        PROVE  arguments[1].imm = SignExtend(Shifted(Field(opcode, 23, 0), 2), 26, 64)
    <3>1. Len(Template.arguments) > 0 /\ IsOffset(Template.arguments[1], Span(23, 0), 4)
      BY <2>1, <2>2, <2>5, <2>6, OffsetAssumption, Zenon
    <3>. QED
      BY <2>4, <3>1, OffsetMeans, Zenon
  <2>7. ASSUME insn.length = 2, insn.iform = "B"
        PROVE  arguments[1].imm = IF Field(opcode, 15, 12) = {0, 2, 3}
                                  THEN SignExtend(Shifted(Field(opcode, 7, 0), 1), 9, 64)
                                  ELSE SignExtend(Shifted(Field(opcode, 10, 0), 1), 12, 64)
    <3>1. Row \in RowsOf("T16")
      BY <2>5, <2>7
    <3>2. /\ Len(Template.arguments) > 0 /\ 12..15 \subseteq Row.mask
          /\ IsOffset(Template.arguments[1],
                      IF Row.bits \cap 12..15 = {12, 14, 15} THEN Span(7, 0) ELSE Span(10, 0), 2)
      BY <2>1, <2>2, <2>7, <3>1, OffsetAssumption
    <3>3. Row.bits \cap 12..15 = opcode \cap 12..15
      BY <2>1, <3>2 DEF Under
    <3>4. Row.bits \cap 12..15 = {12, 14, 15} <=> Field(opcode, 15, 12) = {0, 2, 3}
      BY <3>3, TopNibble, Zenon
    <3>5. CASE Field(opcode, 15, 12) = {0, 2, 3}
      <4>1. IsOffset(Template.arguments[1], Span(7, 0), 2)
        BY <3>2, <3>4, <3>5, Zenon
      <4>2. arguments[1].imm = SignExtend(Shifted(Field(opcode, 7, 0), 1), 9, 64)
        BY <2>4, <3>2, <4>1, OffsetMeans, Zenon
      <4>. QED
        BY <3>5, <4>2, Zenon
    <3>6. CASE Field(opcode, 15, 12) # {0, 2, 3}
      <4>1. IsOffset(Template.arguments[1], Span(10, 0), 2)
        BY <3>2, <3>4, <3>6, Zenon
      <4>2. arguments[1].imm = SignExtend(Shifted(Field(opcode, 10, 0), 1), 12, 64)
        BY <2>4, <3>2, <4>1, OffsetMeans, Zenon
      <4>. QED
        BY <3>6, <4>2, Zenon
    <3>. QED
      BY <3>5, <3>6, Zenon
  <2>8. ASSUME InA32, insn.iform = "ADRr", 23 \in opcode
        PROVE  arguments[2].imm = A32ExpandImm(Field(opcode, 11, 0))
    <3>1. /\ Len(Template.arguments) > 1 /\ 23 \in Row.mask
          /\ 23 \in Row.bits => /\ Template.arguments[2].type = "ADDR"
                                /\ Template.arguments[2].symbol = "plabela"
                                /\ Template.arguments[2].enc = Span(11, 0)
      BY <2>1, <2>2, <2>5, <2>8, OffsetAssumption, Zenon
    <3>2. 23 \in Row.bits
      BY <2>1, <2>8, <3>1 DEF Under
    <3>. QED
      BY <2>4, <3>1, <3>2, OffsetMeans, Zenon
  <2>. QED
    BY <2>6, <2>7, <2>8, Zenon DEF BranchOffsetIsField
<1>2. IInv => BranchOffsetIsField
  BY <1>1, Zenon DEF BranchOffsetIsField
<1>. QED
  BY <1>2, Invariant, PTL

\* Whatever template the base instruction was accepted under, an alias gives it the same
\* condition.
LEMMA AliasKeepsCondition ==
  ASSUME IInv, internal.alias, ArmCondition \/ ThumbCondition \/ ItInstruction
  PROVE  insn'.condition = insn.condition
<1>1. /\ loc = "node" /\ Complete /\ internal.k \in 1..Len(Row.templates)
      /\ ~ItInstruction /\ Template \in TemplatesOf(Row)
  <2>1. Complete
    BY DEF ArmCondition, ThumbCondition, ItInstruction
  <2>2. Template \in TemplatesOf(Row) /\ loc = "node" /\ ~ItInstruction
    BY <2>1, ItStep
  <2>3. internal.k \in 1..Len(Row.templates)
    BY <2>2 DEF IInv, Shapes, Places, Decoding
  <2>. QED
    BY <2>1, <2>2, <2>3
<1>2. UnderCondition(WordCondition)
  <2>1. CASE ArmCondition
    BY <2>1 DEF ArmCondition, WordCondition, InA32
  <2>2. CASE ThumbCondition
    BY <2>2 DEF ThumbCondition, WordCondition, InA32, A32, THUMB
  <2>. QED
    BY <1>1, <2>1, <2>2
<1>3. insn'.condition = decode_conditional_execution(Template.cond, WordCondition).condition
  BY <1>1, <1>2, UnderConditionStep
<1>4. PICK t \in TemplatesOf(BaseRow) :
        insn.condition = decode_conditional_execution(t.cond, WordCondition).condition
  BY <1>1 DEF IInv, Conditions, BaseStands, BaseCondition, Decoding
<1>5. t.cond = Template.cond \/ {t.cond, Template.cond} \cap {"UNCOND", "MUST_NV"} = {}
  <2>1. PICK i \in DOMAIN BaseRow.aliases : Row = Encodings[BaseRow.aliases[i]]
    BY <1>1 DEF IInv, RowIsFound, Decoding, Row
  <2>2. BaseEncoding \in DOMAIN Encodings /\ BaseEncoding # 0
    BY <2>1, LookupType, AArch32Assumption DEF BaseEncoding, BaseRow
  <2>. QED
    BY <1>1, <1>4, <2>1, <2>2, ConditionAssumption DEF BaseRow
<1>6. CASE t.cond = Template.cond
  BY <1>3, <1>4, <1>6
<1>7. CASE t.cond \notin {"UNCOND", "MUST_NV"} /\ Template.cond \notin {"UNCOND", "MUST_NV"}
  BY <1>3, <1>4, <1>7 DEF decode_conditional_execution
<1>. QED
  BY <1>5, <1>6, <1>7

\* An alias is decoded over the instruction it stands for: until the call returns no flag
\* but "conditional" is taken back, and length and condition stay.
THEOREM AliasesAdd == Spec => AliasOnlyAdds
<1>1. ASSUME IInv, [Next]_vars, internal.alias, loc # "done"
      PROVE  /\ flags \ {"conditional"} \subseteq flags'
             /\ insn'.length = insn.length /\ insn'.condition = insn.condition
  <2>1. loc # "call"
    BY <1>1 DEF IInv, Places
  <2>2. CASE Undefined \/ FirstTemplate \/ NoTemplate \/ NoAlias \/ UNCHANGED vars
    BY <2>2 DEF Undefined, FirstTemplate, NoTemplate, NoAlias, result, vars
  <2>3. CASE SkipTemplate \/ EnterTemplate \/ DecodeNode \/ RefuseNode \/ TakeAlias
    BY <1>1, <2>3, SkipStep, EnterStep, NodeStep, AliasStep DEF InsnFields
  <2>4. CASE ArmCondition \/ ThumbCondition \/ ItInstruction
    BY <1>1, <2>4, AcceptedStep, AliasKeepsCondition
  <2>. QED
    BY <1>1, <2>1, <2>2, <2>3, <2>4
       DEF Next, Loop, DecodeInsn, RejectEmpty, Reject, Fetch, NextInsn, Ended, HasEnded
<1>2. IInv /\ [Next]_vars =>
        [internal.alias /\ loc # "done" =>
           /\ flags \ {"conditional"} \subseteq flags'
           /\ insn'.length = insn.length /\ insn'.condition = insn.condition]_vars
  BY <1>1
<1>. QED
  BY <1>2, Invariant, PTL DEF Spec, AliasOnlyAdds

-----------------------------------------------------------------------------
(* The loop is a cursor.                                                   *)

\* The loop starts where the cursor does.
LEMMA StartsAsCursor == Init => Cursor!Init
BY DEF Init, Cursor!Init

\* Every step of the loop moves the cursor by an instruction that lies in the buffer, stops
\* it, or leaves it alone.
LEMMA MovesAsCursor ==
  ASSUME IInv, [Next]_vars
  PROVE  [Cursor!Next]_(Cursor!cursor)
<1>. DEFINE running == ~(loc = "done" /\ ~ret)
<1>1. CASE NextInsn
  <2>1. insn.length \in {2, 4} /\ insn.length <= context.length
    BY <1>1 DEF IInv, Read, NextInsn, Returned
  <2>2. context.length \in Nat /\ context' = Advanced(insn.length)
    BY <1>1 DEF IInv, Shapes, NextInsn
  <2>3. DOMAIN context = {"machine_mode", "address", "length", "decode_aliases"}
    BY DEF IInv, Shapes
  <2>4. /\ context'.address = context.address + insn.length
        /\ context'.length = context.length - insn.length
    BY <2>2, <2>3 DEF Advanced
  <2>5. running /\ running' /\ insn.length \in 1..context.length /\ context.length > 0
    BY <1>1, <2>1, <2>2 DEF NextInsn
  <2>6. Cursor!Step
    BY <2>4, <2>5 DEF Cursor!Step, Cursor!Move
  <2>. QED
    BY <2>6 DEF Cursor!Next
<1>2. CASE UNCHANGED context /\ running /\ ~running'
  BY <1>2 DEF Cursor!Next, Cursor!Stop
<1>3. CASE UNCHANGED context /\ running' = running
  BY <1>3 DEF Cursor!cursor
<1>4. CASE RejectEmpty \/ Reject \/ Undefined \/ NoTemplate
  <2>1. loc # "done" /\ UNCHANGED context
    BY <1>4 DEF RejectEmpty, Reject, Undefined, NoTemplate
  <2>. QED
    BY <1>2, <1>3, <2>1
<1>5. CASE \/ Fetch \/ FirstTemplate \/ SkipTemplate \/ EnterTemplate \/ DecodeNode
           \/ RefuseNode \/ ArmCondition \/ ThumbCondition \/ ItInstruction \/ NoAlias \/ TakeAlias
  <2>1. UNCHANGED context /\ loc # "done"
    BY <1>5, FetchStep, SkipStep, EnterStep, NodeStep, AcceptedStep, AliasStep
       DEF FirstTemplate, NoAlias
  <2>2. running' = running
    <3>1. CASE loc' = "done"
      BY <1>5, <2>1, <3>1, FetchStep, SkipStep, EnterStep, NodeStep, AcceptedStep, AliasStep
         DEF FirstTemplate, NoAlias, Answer
    <3>. QED
      BY <2>1, <3>1
  <2>. QED
    BY <1>3, <2>1, <2>2
<1>6. CASE Ended \/ UNCHANGED vars
  BY <1>3, <1>6 DEF Ended, vars
<1>. QED
  BY <1>1, <1>4, <1>5, <1>6 DEF Next, Loop, DecodeInsn

\* The safety of StreamIsCursor: the loop over the decoder is a cursor that never leaves
\* its buffer.
THEOREM LoopIsCursor == Spec => Cursor!Init /\ [][Cursor!Next]_(Cursor!cursor)
BY StartsAsCursor, MovesAsCursor, Invariant, PTL DEF Spec
=============================================================================
