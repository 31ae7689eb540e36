-------------------------- MODULE AArch32Operands --------------------------
(***************************************************************************)
(* The operand decoders of source/aarch32/decoder.c.  Every handler takes  *)
(* the record w it works on (see ArmNodes) and the node of the template.   *)
(* Registers are the numbers of their enumeration.                         *)
(***************************************************************************)
EXTENDS ArmNodes

R0 == 1
SP == 14
PC == 16
S0 == 17
D0 == 49
Q0 == 81
Q16 == 97
BankEnds == {0, PC, D0 - 1, Q0 - 1, 112}   \* reginfo.is_last
Odd(reg) == IF reg = 0 THEN FALSE ELSE reg % 2 = 0   \* ~reginfo.is_even

decode_register_value(raw, symbol) ==
  CASE symbol = "GPR32"   -> R0 + raw
    [] symbol = "SIMD32"  -> S0 + raw
    [] symbol = "SIMD64"  -> D0 + raw
    [] symbol = "SIMD128" -> Q0 + (raw \div 2)
    [] OTHER -> 0

\* What PC and SP as a register operand mean for the instruction.
PcFlags(node) ==
  Only("dpc" \in node.attrs, {"deprecated"}) \union Only("upc" \in node.attrs, {"unpredictable"})
    \union IF node.attrs \cap {"iwb", "erb"} # {} THEN {"may_branch"}
           ELSE Only("write" \in node.attrs, {"may_branch", "unpredictable"})

\* Mutant: PC is an operand like any other.
PcUnchecked(w, node) == w

CheckPcSp(w, node) ==
  IF w.arg.reg = PC THEN IF "nopc" \in node.attrs THEN Failed(w) ELSE Raise(w, PcFlags(node))
  ELSE IF w.arg.reg = SP /\ "nosp" \in node.attrs THEN Failed(w) ELSE w

\* Mutant: any register that is read is the one last written.
AlwaysDestructive(w) ==
  Raise(w, Only("read" \in w.arg.attrs /\ w.dst_reg # 0, {"destructive"}))

\* The last register written; dst_reg is not initialised before the first one.
Destructive(w) ==
  LET dst == IF "write" \in w.arg.attrs THEN w.arg.reg ELSE w.dst_reg
  IN  [w EXCEPT !.dst_reg = dst,
                !.flags = @ \union Only("read" \in w.arg.attrs /\ dst = w.arg.reg,
                                        {"destructive"})]

RegisterRead(w, node, reg, bad) ==
  Then(CheckPcSp(Raise([w EXCEPT !.arg.type = "REGISTER", !.arg.reg = reg,
                                 !.arg.attrs = Attrs(w.arg, {"read", "write"}, node)],
                       Only(bad, {"unpredictable"})), node),
       Destructive)

\* The register a word encodes, or the next one for a pair.
EncodedRegister(w, node, first) ==
  IF "pair" \in node.attrs
  THEN RegisterRead(w, node, IF first \in BankEnds THEN first ELSE first + 1,
                    \/ first \in BankEnds
                    \/ "even" \in node.attrs /\ Odd(first + 1))
  ELSE RegisterRead(w, node, first, "even" \in node.attrs /\ Odd(first))

decode_arg_reg(w, node) ==
  IF node.enc = <<>> THEN RegisterRead(w, node, node.value, FALSE)
  ELSE EncodedRegister(w, node, decode_register_value(Num(Raw(node)), node.symbol))

decode_arg_vreg(w, node) ==
  Then(decode_arg_reg(w, node),
       LAMBDA v : Raise([v EXCEPT !.arg.attrs = @ \union {"is_vector"}], {"vector"}))

decode_arg_ereg(w, node) ==
  Then(decode_arg_reg(w, node.sub.reg), LAMBDA v : WithIndex(v, decode_any(node.sub.idx)))

\* Thumb 16 has no W field: the base is written back unless it is in the list.
WritesBack(w, wback) ==
  IF wback.enc = <<>> THEN wback.value # 0
  ELSE IF wback.symbol = "wback16" THEN w.arg.reg - R0 \notin Raw(wback)
  ELSE Raw(wback) # {}

decode_arg_wreg(w, node) ==
  Then(decode_arg_reg(w, node.sub.reg),
       LAMBDA v : IF ~WritesBack(v, node.sub.wback) THEN v
                  ELSE Raise([v EXCEPT !.arg.attrs = @ \union {"write_back"}],
                             Only(v.arg.reg = PC, {"may_branch", "unpredictable"})))

-----------------------------------------------------------------------------

std_shift == <<"LSL", "LSR", "ASR", "ROR">>

Shifter(w, shift, amount, rs) ==
  [w EXCEPT !.arg.shift = shift, !.arg.amount = amount, !.arg.rs = rs,
            !.arg.attrs = @ \union {"has_shifter"}]

\* A zero amount that was read from the word is 32 for the right shifts, and RRX for ROR.
ZeroAmount(w, shift) ==
  CASE shift \in {"ASR", "LSR"} -> Shifter(w, shift, 32, 0)
    [] shift = "ROR" -> Shifter(w, "RRX", 0, 0)
    [] OTHER -> Shifter(w, shift, 0, 0)

\* Mutant: ROR by zero is not RRX, and no amount stands for 32.
RawAmount(w, shift, amount) == Shifter(w, shift, amount.value, 0)

ShiftAmount(w, shift, amount) ==
  IF amount.definition = "ENCODEDIN" /\ amount.value = 0 THEN ZeroAmount(w, shift)
  ELSE Shifter(w, shift, amount.value, 0)

ShiftBy(w, node, shift) ==
  IF Has(node, "rs") THEN Shifter(w, shift, 0, R0 + Num(Raw(node.sub.rs)))
  ELSE IF Has(node, "amount") THEN ShiftAmount(w, shift, decode_any(node.sub.amount))
  ELSE Shifter(w, shift, 0, 0)

ShiftKind(w, node, found) ==
  IF found.definition = "NONE" THEN Failed(w)
  ELSE ShiftBy(w, node, IF found.definition = "ENCODEDIN" THEN std_shift[found.value + 1]
                        ELSE found.value)

decode_arg_shifter(w, node) == ShiftKind(w, node, decode_any(node.sub.shift))

decode_arg_regsh(w, node) ==
  Then(decode_arg_reg(w, node.sub.reg), LAMBDA v : decode_arg_shifter(v, node.sub.shifter))

-----------------------------------------------------------------------------

\* BFC and BFI encode the most significant bit; nothing refuses one below the lsb.
decode_imm_width(mnemonic, value, lsb) ==
  CASE mnemonic \in {"UBFX", "SBFX"} -> value + 1
    [] mnemonic \in {"BFC", "BFI"}   -> value + 1 - lsb
    [] OTHER -> value

\* An immediate without a symbol of its own: extended from its sign, and scaled.
PlainImmediate(node) ==
  LET value == IF "signpos" \in node.attrs THEN sign_extend64(Raw(node), Len(node.enc) - 1)
               ELSE Raw(node)
  IN  IF node.scale = 0 THEN value ELSE Scaled(value, node.scale)

\* What the field stands for.  vfpimm has 8 bits in every node, so decode_vfp_imm
\* succeeds; its value is in units of 1/128.
ImmediateRead(w, node, any, raw) ==
  CASE any.definition # "ENCODEDIN" -> Word32Of(any.value)
    [] node.symbol = "width" -> Word32Of(decode_imm_width(w.mnemonic, any.value, w.lsb))
    [] node.symbol = "aimm" -> decode_a32_imm(raw)
    [] node.symbol = "timm" -> decode_t32_imm(raw)
    [] node.symbol = "vfpimm" -> Word32Of(decode_vfp_imm(any.value).imm)
    [] node.symbol = "advimm" -> decode_advsimd_imm(raw)
    [] node.symbol = "shift_left" -> Word32Of(any.value - node.scale)
    [] node.symbol \in {"fbits_right", "shift_right"} -> Word32Of(node.scale - any.value)
    [] OTHER -> PlainImmediate(node)

\* lsb comes before width.
decode_arg_imm(w, node) ==
  LET any == decode_any(node)
  IN  [w EXCEPT !.arg.type = "IMMEDIATE", !.arg.imm = ImmediateRead(w, node, any, Raw(node)),
                !.lsb = IF node.symbol = "lsb" THEN any.value ELSE @]

\* Mutant: a label is not extended from its sign.
LabelUnsigned(w, node) ==
  [w EXCEPT !.arg.type = "LABEL", !.arg.imm = Scaled(Raw(node), node.scale)]

decode_arg_label(w, node) ==
  LET raw   == Raw(node)
      nb    == Len(node.enc)
      scale == IF node.scale = 0 THEN 1 ELSE node.scale
      value == IF node.symbol = "labelj" THEN decode_labelj(raw, nb) ELSE raw
      label ==
        CASE node.symbol = "plabel"  -> Scaled(raw, scale) \cap Low(32)
          [] node.symbol = "nlabel"  -> Negative(Scaled(raw, scale) \cap Low(32))
          [] node.symbol = "plabela" -> decode_a32_imm(raw)
          [] node.symbol = "nlabela" -> Negative(decode_a32_imm(raw))
          [] OTHER -> Scaled(IF "signpos" \in node.attrs THEN sign_extend64(value, nb - 1)
                             ELSE value, scale)
      known == {"plabel", "nlabel", "plabela", "nlabela", "labelj", "label"}
  IN  IF node.symbol \in known THEN [w EXCEPT !.arg.type = "LABEL", !.arg.imm = label]
      ELSE Failed([w EXCEPT !.arg.type = "LABEL", !.arg.imm = {}])

decode_arg_immsh(w, node) ==
  Then(decode_arg_imm(w, node.sub.imm), LAMBDA v : decode_arg_shifter(v, node.sub.shifter))

-----------------------------------------------------------------------------

decode_anynymous_immreg(w, node) ==
  CASE node.type \in {"BASE", "REGOFF"} -> decode_arg_reg(w, node)
    [] node.type = "VBASE"    -> decode_arg_vreg(w, node)
    [] node.type = "EBASE"    -> decode_arg_ereg(w, node)
    [] node.type = "REGOFFSH" -> decode_arg_regsh(w, node)
    [] node.type = "IMMOFF"   -> decode_arg_imm(w, node)
    [] node.type = "IMMOFFSH" -> decode_arg_immsh(w, node)
    [] OTHER -> Failed(w)

decode_mem_access(access) ==
  CASE access \in {"ACQUIRE", "LOACQUIRE"} -> {"acquiring"}
    [] access \in {"RELEASE", "LORELEASE"} -> {"releasing"}
    [] access = "ATOMIC"         -> {"atomic"}
    [] access = "ATOMIC_RELEASE" -> {"releasing", "atomic"}
    [] access = "ATOMIC_ACQUIRE" -> {"acquiring", "atomic"}
    [] OTHER -> {}

Addend(node) ==
  IF Has(node, "add") THEN decode_any(node.sub.add) ELSE [definition |-> "VALUE", value |-> 1]

\* The offset of a memory operand, decoded over the base in the same argument.
Offset(w, node) ==
  IF ~Has(node, "regoff") THEN w
  ELSE IF Addend(node).definition = "NONE" THEN Failed(w)
  ELSE Then(decode_anynymous_immreg(w, node.sub.regoff),
            LAMBDA v : IF v.arg.type = "IMMEDIATE" THEN [v EXCEPT !.arg.immoff = v.arg.imm]
                       ELSE [v EXCEPT !.arg.regoff = v.arg.reg])

MemoryAttrs == {"read", "write", "pre_indexed", "post_indexed"}

\* The operand as a whole, unless the alignment is not in its table.
Memory(w, node) ==
  LET refused == Has(node, "align") /\ decode_any(node.sub.align).definition = "NONE"
      indexed == node.attrs \cap {"pre_indexed", "post_indexed"} # {}
      flags   == Only("read" \in node.attrs, {"may_load"})
                   \union Only("write" \in node.attrs, {"may_store"})
                   \union decode_mem_access(node.value)
  IN  IF refused THEN Failed(w)
      ELSE Raise([w EXCEPT !.arg.type = "MEMORY",
                           !.arg.attrs = Attrs(w.arg, MemoryAttrs, node)
                              \union Only(indexed, {"write_back"})
                              \union Only(Addend(node).value = 1, {"is_adding"})],
                 flags)

\* ldacc and stacc are the value of the node.
decode_arg_mem(w, node) ==
  Then(Then(decode_anynymous_immreg(w, node.sub.base),
            LAMBDA v : Offset([v EXCEPT !.arg.base = v.arg.reg], node)),
       LAMBDA v : Memory(v, node))

-----------------------------------------------------------------------------

\* Arguments that name a member of an enumeration.  A value that is not in the table
\* stays what was read, without a name.
EnumTypes ==
  [CSPACE |-> "CSPACE", PSPACE |-> "PSPACE", COND |-> "CONDITION", ENDIAN |-> "ENDIAN",
   SYNC_OP |-> "SYNC_OP", BARRIER |-> "BARRIER", BNKDREG |-> "REGISTER",
   SPECREG |-> "REGISTER"]

Token(w, node, tv) ==
  [w EXCEPT !.arg.type = EnumTypes[node.type], !.arg.token = tv.value,
            !.arg.attrs = (@ \ {"is_representable"})
               \union {"read"} \union Only(tv.representable, {"is_representable"})]

EncodedToken(w, node, raw) ==
  IF node.table # <<>>
  THEN Token(w, node, IF raw \in DOMAIN node.table THEN node.table[raw] ELSE Unnamed(raw))
  ELSE Token(w, node, IF node.type \in {"CSPACE", "PSPACE", "COND"} THEN Tv(raw + 1, 0)
                      ELSE Unnamed(raw))

decode_arg_enum(w, node) ==
  IF node.enc = <<>> THEN Token(w, node, Tv(node.value, 0))
  ELSE EncodedToken(w, node, Num(Raw(node)))

decode_arg_sysreg(w, node) ==
  Then(decode_arg_enum(w, node),
       LAMBDA v : [v EXCEPT !.arg.reg = IF "is_representable" \in v.arg.attrs THEN v.arg.token
                                        ELSE @,
                            !.arg.attrs = Attrs(v.arg, {"read", "write"}, node)])

\* CPS with no flag at all is unpredictable.
decode_arg_iflags(w, node) ==
  LET aif == Raw(node)
      v   == [w EXCEPT !.arg.type = "AIF", !.arg.imm = aif, !.arg.attrs = @ \union {"read"}]
  IN  IF aif # {} THEN v
      ELSE Raise([v EXCEPT !.arg.attrs = @ \ {"is_representable"}], {"unpredictable"})

-----------------------------------------------------------------------------
(* Lists.  With five registers or more the fifth lies over the token.      *)

List(w, registers, attrs) ==
  [w EXCEPT !.arg.type = "LIST", !.arg.list = registers, !.arg.attrs = attrs,
            !.arg.token = IF Len(registers) >= 5 THEN registers[5] ELSE @]

decode_arg_slist(w, node) ==
  LET reg == IF node.enc = <<>> THEN node.value ELSE R0 + Num(Raw(node))
      v   == List(w, <<reg>>, Attrs(w.arg, {"read", "write"}, node))
  IN  Raise(v, Only("write" \in node.attrs /\ reg = PC, {"may_branch"}))

decode_arg_glist(w, node) ==
  LET raw == Raw(node)
      registers == [n \in 1..Cardinality(raw) |-> R0 + OneBits(raw)[n]]
      v   == List(w, registers, Attrs(w.arg, {"read", "write"}, node))
  IN  Raise(v, Only("write" \in node.attrs /\ 15 \in raw, {"may_branch"}))

\* Mutant: the list goes on behind the bank.
ListUnbounded(w, base, count, end) ==
  List(w, [i \in 1..count |-> base + i - 1], w.arg.attrs)

\* The registers from base on, up to the one that ends the bank.
BankList(w, base, count, end) ==
  LET room == IF base <= end /\ end - base < count THEN end - base ELSE count
  IN  Raise(List(w, [i \in 1..room |-> base + i - 1], w.arg.attrs),
            Only(count = 0 \/ room < count, {"unpredictable"}))

decode_arg_fslist(w, node) ==
  Then(decode_arg_reg(w, node.sub.base),
       LAMBDA v : BankList(v, v.arg.reg, decode_any(node.sub.count).value, D0))

\* The count of an fdlist is encoded as twice.
decode_arg_fdlist(w, node) ==
  Then(decode_arg_reg(w, node.sub.base),
       LAMBDA v : BankList(v, v.arg.reg, decode_any(node.sub.count).value \div 2, Q0))

\* The limit is Q16, far behind the last D: a list that starts at D31 goes on with Q0.
Strided(w, base, count, inc) ==
  LET room == Cardinality({n \in 1..count : base + (n - 1) * inc < Q16})
  IN  Raise(List(w, [i \in 1..room |-> base + (i - 1) * inc], w.arg.attrs),
            Only(room < count, {"unpredictable"}))

decode_arg_vlist(w, node) ==
  Then(decode_anynymous_immreg(w, node.sub.base),
       LAMBDA v : Strided(v, v.arg.reg, decode_any(node.sub.count).value,
                          decode_any(node.sub.inc).value))

-----------------------------------------------------------------------------

\* decode_node: the attributes of the argument are reset, what lies in its union is not.
decode_node(w, node) ==
  CASE node.type \in {"SZ", "XYZ"} -> w
    [] node.type \in {"CSPACE", "PSPACE", "COND", "ENDIAN", "SYNC_OP", "BARRIER"} ->
         decode_arg_enum(w, node)
    [] node.type \in {"BNKDREG", "SPECREG"} -> decode_arg_sysreg(w, node)
    [] node.type = "REG"    -> decode_arg_reg(w, node)
    [] node.type = "VREG"   -> decode_arg_vreg(w, node)
    [] node.type = "EREG"   -> decode_arg_ereg(w, node)
    [] node.type = "WREG"   -> decode_arg_wreg(w, node)
    [] node.type = "REGSH"  -> decode_arg_regsh(w, node)
    [] node.type = "GLIST"  -> decode_arg_glist(w, node)
    [] node.type = "SLIST"  -> decode_arg_slist(w, node)
    [] node.type = "FSLIST" -> decode_arg_fslist(w, node)
    [] node.type = "FDLIST" -> decode_arg_fdlist(w, node)
    [] node.type \in {"VLIST", "ELIST"} -> decode_arg_vlist(w, node)
    [] node.type \in {"IMM", "FPIMM"}   -> decode_arg_imm(w, node)
    [] node.type \in {"LABEL", "ADDR"}  -> decode_arg_label(w, node)
    [] node.type \in {"LM", "MEM"}      -> decode_arg_mem(w, node)
    [] node.type = "IFLAGS" -> decode_arg_iflags(w, node)
    [] OTHER -> Failed(w)

\* What db.h says of the nodes: registers, counts and members of enumerations are numbers.
IsPart(node) ==
  /\ node.type \in {"BASE", "REGOFF", "VBASE"} => IsNumber(node)
  /\ node.type \in {"EBASE", "REGOFFSH"} => IsNumber(node.sub.reg)

\* The banked and special registers of a node: none of them is PC.
IsSysreg(node) ==
  node.value # PC /\ \A raw \in DOMAIN node.table : node.table[raw].value # PC

IsNode(node) ==
  /\ node.type \in {"BNKDREG", "SPECREG"} => IsSysreg(node)
  /\ node.type \in DOMAIN EnumTypes \union {"REG", "VREG", "SLIST", "GLIST"} => IsNumber(node)
  /\ node.type \in {"EREG", "WREG", "REGSH"} => IsNumber(node.sub.reg)
  /\ node.type \in {"FSLIST", "FDLIST"} => IsNumber(node.sub.base) /\ IsNumber(node.sub.count)
  /\ node.type \in {"VLIST", "ELIST"} =>
       IsPart(node.sub.base) /\ IsNumber(node.sub.count) /\ IsNumber(node.sub.inc)
  /\ node.type \in {"LM", "MEM"} =>
       IsPart(node.sub.base) /\ (Has(node, "regoff") => IsPart(node.sub.regoff))

\* The record a node is decoded on.
Fresh(internal, mnemonic, token, flags) ==
  [ok |-> TRUE, flags |-> flags, mnemonic |-> mnemonic, lsb |-> internal.lsb,
   dst_reg |-> internal.dst_reg,
   arg |-> [BlankArgument EXCEPT !.attrs = {"is_representable"}, !.token = token]]
=============================================================================
