-------------------------- MODULE AArch64Operands --------------------------
(***************************************************************************)
(* The operand decoders of source/aarch64/decoder.c.  Every handler takes  *)
(* the record w it works on (see ArmNodes) and the node of the template.   *)
(* Registers are the numbers of their enumeration.                         *)
(***************************************************************************)
EXTENDS ArmNodes

Bank == [GPR32 |-> 1, GPR64 |-> 34, SIMD8 |-> 68, SIMD16 |-> 100, SIMD32 |-> 132,
         SIMD64 |-> 164, SIMD128 |-> 196, VECREG |-> 228, PRDREG |-> 260, SVEREG |-> 276]
V0 == Bank.VECREG
Z0 == Bank.SVEREG
BankEnds == {0, 33, 67} \union {Bank[s] - 1 : s \in DOMAIN Bank \ {"GPR32", "GPR64"}}
              \union {Z0 + 31}   \* reginfo.is_last

\* A general register keeps five bits of what was read.
decode_register_value(raw, symbol) ==
  IF symbol \notin DOMAIN Bank THEN 0
  ELSE Bank[symbol] + Num(IF symbol \in {"GPR32", "GPR64"} THEN raw \cap Low(5) ELSE raw)

\* A pair that leaves its bank, or does not begin with an even register (~is_even).
BadPair(w, node, reg) ==
  \/ "pair" \in node.attrs /\ reg \in BankEnds
  \/ "pair" \notin node.attrs /\ "even" \in node.attrs /\ 0 \in Raw(node)

\* A register, the one behind it for a pair; number 31 may be SP, which follows the zero
\* register.  The last register written is what a later one is compared with.
RegisterRead(w, node, reg) ==
  LET dst == IF "write" \in node.attrs THEN reg ELSE w.dst_reg
  IN  Raise([w EXCEPT !.arg.type = "REGISTER", !.arg.reg = reg,
                      !.arg.attrs = Attrs(w.arg, {"read", "write"}, node),
                      !.has_reg = TRUE, !.dst_reg = dst],
            Only("read" \in node.attrs /\ dst = reg, {"destructive"}))

EncodedRegister(w, node, first) ==
  LET next == IF "pair" \in node.attrs /\ first \notin BankEnds THEN 1 ELSE 0
      sp   == IF "sp" \in node.attrs /\ Raw(node) = Low(5) THEN 1 ELSE 0
  IN  Raise(RegisterRead(w, node, first + next + sp),
            Only(BadPair(w, node, first), {"unpredictable"}))

decode_arg_reg(w, node) ==
  IF node.enc = <<>> THEN RegisterRead(w, node, node.value)
  ELSE EncodedRegister(w, node, decode_register_value(Raw(node), node.symbol))

decode_arg_vreg(w, node) ==
  Then(decode_arg_reg(w, node.sub.reg),
       LAMBDA v : Raise([v EXCEPT !.arg.attrs = @ \union {"is_vector"}], {"vector"}))

decode_arg_ereg(w, node) ==
  Then(decode_arg_reg(w, node.sub.reg), LAMBDA v : WithIndex(v, decode_any(node.sub.idx)))

decode_arg_preg(w, node) ==
  Then(decode_arg_reg(w, node),
       LAMBDA v : Raise([v EXCEPT !.arg.attrs = @ \union (node.attrs \cap {"zeroing", "merging"})],
                        {"predicated"}))

-----------------------------------------------------------------------------

Shifter(w, shift, amount, attrs) ==
  [w EXCEPT !.arg.shift = shift, !.arg.amount = amount % 2 ^ 16,
            !.arg.attrs = @ \union {"has_shifter"} \union attrs]

Extensions == {"SXTB", "SXTH", "SXTW", "SXTX", "UXTB", "UXTH", "UXTW", "UXTX"}

\* The amount as it counts: scaled, and from 1 for MUL.  -1, which is stored in 16 bits,
\* stands for the vector length.
VL == -1
Amount(shift, read, scale) ==
  LET scaled == IF scale = 0 THEN read ELSE read * scale
  IN  IF shift = "MUL" /\ scaled # VL THEN scaled + 1 ELSE scaled

\* An extension by zero has no amount.
ByAmount(w, shift, amount) ==
  Shifter(w, shift, amount,
          IF amount = 0 /\ shift \in Extensions THEN {} ELSE {"has_amount"})

\* What the word encodes may be in no table.
ShiftAmount(w, shift, any, scale) ==
  IF any.definition = "NONE" THEN Failed(Shifter(w, shift, 0, {}))
  ELSE ByAmount(w, shift, Amount(shift, any.value, scale))

ShiftKind(w, node, shift) ==
  IF shift.definition = "NONE" THEN Failed(Shifter(w, w.arg.shift, 0, {}))
  ELSE IF ~Has(node, "amount") THEN Shifter(w, shift.value, 0, {})
  ELSE ShiftAmount(w, shift.value, decode_any(node.sub.amount), node.sub.amount.scale)

TabledShift(w, node, raw) ==
  IF raw \notin DOMAIN node.table THEN Failed(Shifter(w, w.arg.shift, 0, {}))
  ELSE Shifter(w, node.table[raw].value, node.table[raw].amount, {"has_amount"})

\* A shift and amount from one table, or each from its own node.
decode_arg_shifter(w, node) ==
  IF node.enc = <<>> THEN ShiftKind(w, node, decode_any(node.sub.shift))
  ELSE TabledShift(w, node, Num(Raw(node)))

decode_arg_regsh(w, node) ==
  Then(decode_arg_reg(w, node.sub.reg), LAMBDA v : decode_arg_shifter(v, node.sub.shifter))

decode_arg_vregsh(w, node) ==
  Then(decode_arg_vreg(w, node.sub.reg), LAMBDA v : decode_arg_shifter(v, node.sub.shifter))

-----------------------------------------------------------------------------

\* Mutant: the halfword is not shifted to its place.
WideImmUnshifted(hw_imm16, datasize, inverted) ==
  LET imm == hw_imm16 \cap Low(16) IN IF inverted THEN Low(64) \ imm ELSE imm

\* decode_wide_imm_alias, of hw:imm16.  An inverted immediate has 64 bits in either size.
decode_wide_imm_alias(hw_imm16, datasize, inverted) ==
  LET hw  == IF 17 \in hw_imm16 /\ datasize = 32 THEN 1 ELSE Num(Slice(hw_imm16, 17, 16))
      imm == Lsl(hw_imm16 \cap Low(16), 16 * hw, 64)
  IN  IF inverted THEN Low(64) \ imm ELSE imm

Insertions  == {"SBFIZ", "UBFIZ", "BFC", "BFI"}
Extractions == {"SBFX", "UBFX", "BFXIL"}

decode_imm_width(mnemonic, value, lsb) ==
  CASE mnemonic \in Insertions  -> value + 1
    [] mnemonic \in Extractions -> value + 1 - lsb
    [] OTHER -> value

\* Mutant: an insertion begins where immr says.
LsbUnrotated(mnemonic, value, datasize) == value

\* An insertion encodes the rotation to the right that undoes it.
decode_imm_lsb(mnemonic, value, datasize) ==
  IF mnemonic \in Insertions THEN (datasize - value) % datasize ELSE value

\* An immediate without a symbol of its own: extended from its sign, and scaled.
PlainImmediate(node) ==
  LET value == IF "signpos" \in node.attrs THEN sign_extend64(Raw(node), Len(node.enc) - 1)
               ELSE Raw(node)
  IN  IF node.scale = 0 THEN value ELSE Scaled(value, node.scale)

\* What the field stands for.  What an expansion refuses is taken all the same.
ImmediateRead(w, node, any, raw) ==
  CASE any.definition # "ENCODEDIN" -> Word32Of(any.value)
    [] node.symbol \in {"WideImmAlias", "WideImmInverted"} ->
         decode_wide_imm_alias(raw, w.datasize, node.symbol = "WideImmInverted")
    [] node.symbol = "advimm" -> decode_advsimd_imm(raw)
    [] node.symbol = "vfpimm" -> Word32Of(decode_vfp_imm(any.value).imm)
    [] node.symbol = "aimm" -> decode_logimm(raw, w.datasize).imm
    [] node.symbol = "shift_left" -> Word32Of(any.value - node.scale)
    [] node.symbol \in {"fbits_right", "shift_right"} -> Word32Of(node.scale - any.value)
    [] node.symbol = "lsb" -> Word32Of(decode_imm_lsb(w.mnemonic, any.value, w.datasize))
    [] node.symbol = "width" -> Word32Of(decode_imm_width(w.mnemonic, any.value, w.lsb))
    [] OTHER -> PlainImmediate(node)

Immediate(w, node, any, imm) ==
  [w EXCEPT !.arg.type = "IMMEDIATE", !.arg.imm = imm, !.arg.attrs = @ \union {"read"},
            !.lsb = IF any.definition = "ENCODEDIN" /\ node.symbol = "lsb"
                    THEN decode_imm_lsb(w.mnemonic, any.value, w.datasize) ELSE @]

\* lsb comes before width.
decode_arg_imm(w, node) ==
  LET any == decode_any(node) IN Immediate(w, node, any, ImmediateRead(w, node, any, Raw(node)))

decode_arg_immsh(w, node) ==
  Then(decode_arg_imm(w, node.sub.imm), LAMBDA v : decode_arg_shifter(v, node.sub.shifter))

\* Mutant: a label is not extended from its sign.
LabelUnsigned(w, node) ==
  [w EXCEPT !.arg.type = "LABEL", !.arg.attrs = @ \union {"read"},
            !.arg.imm = Scaled(Raw(node), IF node.scale = 0 THEN 1 ELSE node.scale)]

decode_arg_label(w, node) == [decode_arg_imm(w, node) EXCEPT !.arg.type = "LABEL"]

-----------------------------------------------------------------------------

decode_anynymous_immreg(w, node) ==
  CASE node.type \in {"BASE", "REGOFF"}     -> decode_arg_reg(w, node)
    [] node.type = "EBASE"                  -> decode_arg_ereg(w, node)
    [] node.type \in {"VBASE", "VREGOFF"}   -> decode_arg_vreg(w, node)
    [] node.type = "REGOFFSH"  -> decode_arg_regsh(w, node)
    [] node.type = "VREGOFFSH" -> decode_arg_vregsh(w, node)
    [] node.type = "IMMOFF"    -> decode_arg_imm(w, node)
    [] node.type = "IMMOFFSH"  -> decode_arg_immsh(w, node)
    [] OTHER -> Failed(w)

Indexed == {"pre_indexed", "post_indexed"}

\* The operand as a whole.
Memory(w, node) ==
  Raise([w EXCEPT !.arg.type = "MEMORY",
                  !.arg.attrs = Attrs(w.arg, {"read", "write"}, node)
                                  \union (node.attrs \cap Indexed)],
        Only("read" \in node.attrs, {"may_load"})
          \union Only("write" \in node.attrs, {"may_store"}))

\* What is kept of the offset is the register or the immediate, and its shift, without
\* has_shifter.
WithOffset(arg, offset) ==
  LET kept == [arg EXCEPT !.shift = offset.shift, !.amount = offset.amount,
                          !.attrs = @ \union (offset.attrs \cap {"has_amount"})]
  IN  CASE offset.type = "IMMEDIATE" -> [kept EXCEPT !.immoff = offset.imm]
        [] offset.type = "REGISTER"  -> [kept EXCEPT !.regoff = offset.reg]
        [] OTHER -> kept

Offset(w, arg, node) ==
  IF w.ok THEN Memory([w EXCEPT !.arg = WithOffset(arg, w.arg)], node)
  ELSE [w EXCEPT !.arg = arg]

Based(w, arg, node) ==
  IF ~w.ok THEN [w EXCEPT !.arg = arg]
  ELSE IF ~Has(node, "regoff") THEN Memory([w EXCEPT !.arg = arg], node)
  ELSE Offset(decode_anynymous_immreg(w, node.sub.regoff), arg, node)

BaseFirst(w, arg, node) == Based(w, [arg EXCEPT !.base = w.arg.reg], node)

\* Base and offset are decoded in an argument of their own.
decode_arg_mem(w, node) ==
  BaseFirst(decode_anynymous_immreg([w EXCEPT !.arg = BlankArgument], node.sub.base),
            w.arg, node)

-----------------------------------------------------------------------------

\* Members of the enumerations of barriers and prefetch operations; 0 is none of them.
decode_arm_barrier(value) ==
  IF value = 0 THEN 0 ELSE <<13, 12, 11, 0, 10, 9, 8, 0, 7, 6, 5, 0, 4, 2, 1>>[value]

decode_prf_op(value) ==
  IF value < 24 /\ value % 8 < 6 THEN <<1, 13, 7>>[value \div 8 + 1] + (value % 8) ELSE 0

EnumTypes ==
  [COND |-> "CONDITION", INVCOND |-> "CONDITION", BARRIER |-> "BARRIER", PRF_OP |-> "PRF_OP",
   PSTATEFIELD |-> "PSTATEFIELD", BTI_OP |-> "BTI_OP", CSPACE |-> "CSPACE",
   PATTERN |-> "PATTERN", SYNC_OP |-> "SYNC_OP", CTX_OP |-> "CTX_OP", AT_OP |-> "AT_OP",
   DC_OP |-> "DC_OP", IC_OP |-> "IC_OP", TLBI_OP |-> "TLBI_OP"]

\* A name that is 0 leaves what was read, without a name.
Named(raw, name) == IF name = 0 THEN Unnamed(raw) ELSE Tv(name, 0)

Token(w, node, tv) ==
  [w EXCEPT !.arg.type = EnumTypes[node.type], !.arg.token = tv.value,
            !.arg.attrs = (@ \ {"is_representable"}) \union {"read"}
               \union Only(tv.representable, {"is_representable"})]

\* A value that is in no table gives the template up.
EncodedToken(w, node, raw) ==
  IF node.table # <<>>
  THEN IF raw \in DOMAIN node.table THEN Token(w, node, node.table[raw]) ELSE Failed(w)
  ELSE Token(w, node, CASE node.type \in {"COND", "CSPACE"} -> Tv(raw + 1, 0)
                        [] node.type = "PRF_OP"  -> Named(raw, decode_prf_op(raw))
                        [] node.type = "BARRIER" -> Named(raw, decode_arm_barrier(raw))
                        [] OTHER -> Unnamed(raw))

decode_arg_enum(w, node) ==
  IF node.enc = <<>> THEN Token(w, node, Tv(node.value, 0))
  ELSE EncodedToken(w, node, Num(Raw(node)))

\* Mutant: the condition as it is encoded.
CondNotInverted(w, node) ==
  [w EXCEPT !.arg.type = "CONDITION", !.arg.token = Num(Raw(node)) + 1,
            !.arg.attrs = @ \union {"read", "is_representable"}]

\* The condition of the alias is the opposite of the encoded one.
decode_arg_invcond(w, node) ==
  LET inverse == (Raw(node) \ {0}) \union ({0} \ Raw(node))
  IN  [w EXCEPT !.arg.type = "CONDITION", !.arg.token = Num(inverse) + 1,
                !.arg.attrs = @ \union {"read", "is_representable"}]

decode_arg_patternsh(w, node) ==
  Then(decode_arg_enum(w, node.sub.pattern),
       LAMBDA v : decode_arg_shifter(v, node.sub.shifter))

\* op0, op1, CRn, CRm, op2; the C registers are counted from 1.
decode_arg_sysreg(w, node) ==
  [w EXCEPT !.arg.type = "SYSREG_ENCODING",
            !.arg.list = <<IF 19 \in opcode THEN 3 ELSE 2, Num(Slice(opcode, 18, 16)),
                           Num(Slice(opcode, 15, 12)) + 1, Num(Slice(opcode, 11, 8)) + 1,
                           Num(Slice(opcode, 7, 5))>>,
            !.arg.attrs = Attrs(w.arg, {"read", "write"}, node)]

-----------------------------------------------------------------------------

\* Mutant: behind the last register the next bank begins.
ListRunsOn(w, count) ==
  [w EXCEPT !.arg.type = "LIST", !.arg.list = [i \in 1..count |-> w.arg.reg + i - 1]]

\* Only V and Z registers form lists; behind the last one comes the first.
Listed(w, count) ==
  LET first == IF w.arg.reg >= Z0 THEN Z0 ELSE V0
  IN  IF w.arg.reg \notin V0..V0 + 31 \union Z0..Z0 + 31 THEN Failed(w)
      ELSE [w EXCEPT !.arg.type = "LIST",
                     !.arg.list = [i \in 1..count |-> first + ((w.arg.reg - first + i - 1) % 32)]]

decode_arg_vlist(w, node) ==
  Then(decode_anynymous_immreg(w, node.sub.base), LAMBDA v : Listed(v, node.sub.count.value))

decode_arg_elist(w, node) ==
  Then(decode_arg_vlist(w, node), LAMBDA v : [v EXCEPT !.arg.attrs = @ \ {"is_vector"}])

\* decode_node: the attributes and the type of the shift are reset.
decode_node(w, node) ==
  CASE node.type = "INVCOND"   -> decode_arg_invcond(w, node)
    [] node.type \in DOMAIN EnumTypes \ {"INVCOND"} -> decode_arg_enum(w, node)
    [] node.type = "SYSREG"    -> decode_arg_sysreg(w, node)
    [] node.type = "REG"       -> decode_arg_reg(w, node)
    [] node.type = "REGSH"     -> decode_arg_regsh(w, node)
    [] node.type = "VREG"      -> decode_arg_vreg(w, node)
    [] node.type = "EREG"      -> decode_arg_ereg(w, node)
    [] node.type = "PREG"      -> decode_arg_preg(w, node)
    [] node.type = "VLIST"     -> decode_arg_vlist(w, node)
    [] node.type = "ELIST"     -> decode_arg_elist(w, node)
    [] node.type = "PATTERNSH" -> decode_arg_patternsh(w, node)
    [] node.type \in {"IMM", "FPIMM"}  -> decode_arg_imm(w, node)
    [] node.type = "IMMSH"     -> decode_arg_immsh(w, node)
    [] node.type \in {"LABEL", "ADDR"} -> decode_arg_label(w, node)
    [] node.type = "MEM"       -> decode_arg_mem(w, node)
    [] OTHER -> Failed(w)

\* The list of a node begins with an encoded V or Z register.
IsList(node) ==
  LET reg == node.sub.base.sub.reg
  IN  /\ node.sub.base.type \in {"VBASE", "EBASE"} /\ node.sub.count.value \in Nat
      /\ reg.symbol \in {"VECREG", "SVEREG"} /\ reg.attrs \cap {"pair", "sp"} = {}
      /\ reg.enc \in Seq(Nat) /\ Len(reg.enc) = 5

\* Two nodes that are the halves of a pair of registers, which one field encodes.
AreHalves(even, odd) ==
  /\ even.type = "REG" /\ odd.type = "REG"
  /\ odd.enc = even.enc /\ even.enc \in Seq(Nat) /\ Len(even.enc) = 5
  /\ odd.symbol = even.symbol /\ even.symbol \in {"GPR32", "GPR64"}
  /\ even.attrs \cap {"even", "pair", "sp"} = {"even"}
  /\ odd.attrs \cap {"pair", "sp"} = {"pair"}

\* What argument.inc has for nodes.
IsNode(node) ==
  /\ node.type \in {"VLIST", "ELIST"} => IsList(node)
  /\ node.type = "PATTERNSH" => node.sub.pattern.type = "PATTERN"

\* The record a node is decoded on.
Fresh(internal, mnemonic, datasize, flags) ==
  [ok |-> TRUE, flags |-> flags, mnemonic |-> mnemonic, datasize |-> datasize,
   lsb |-> internal.lsb, dst_reg |-> internal.dst_reg, has_reg |-> internal.has_reg,
   arg |-> [BlankArgument EXCEPT !.attrs = {"is_representable"}]]
=============================================================================
