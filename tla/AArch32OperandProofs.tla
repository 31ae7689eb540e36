------------------------ MODULE AArch32OperandProofs ------------------------
(***************************************************************************)
(* What the operand decoders of AArch32Operands do to the record they work *)
(* on, for every node that is what db.h says of one and every word: one    *)
(* lemma per handler, in the order of the handlers.                        *)
(***************************************************************************)
EXTENDS AArch32Invariants, ArmBitsProofs

-----------------------------------------------------------------------------
(* The helpers of ArmNodes.                                                *)

\* A record in shape is what a handler may leave, and handlers follow each other.
LEMMA BuildsTrans ==
  ASSUME NEW u, NEW v, NEW w, Builds(u, v), Builds(v, w)
  PROVE  Builds(u, w)
BY DEF Builds

\* A handler that does nothing.
LEMMA BuildsSame ==
  ASSUME NEW w, IsWork(w)
  PROVE  Builds(w, w)
BY DEF Builds

\* A handler that fails.
LEMMA FailedBuilds ==
  ASSUME NEW w, IsWork(w)
  PROVE  Builds(w, Failed(w))
BY DEF IsWork, Builds, Failed, WorkFields, ArgumentFields

\* A handler that raises flags.
LEMMA RaiseBuilds ==
  ASSUME NEW w, IsWork(w), NEW raised, raised \subseteq OperandFlags
  PROVE  Builds(w, Raise(w, raised))
BY DEF FlagNames, OperandFlags, IsWork, Builds, Raise, WorkFields, ArgumentFields

\* add_index, of an element whose index is in its table or not.
LEMMA WithIndexBuilds ==
  ASSUME NEW w, IsWork(w), NEW idx
  PROVE  Builds(w, WithIndex(w, idx))
<1>. DEFINE v == [w EXCEPT !.arg.index = idx.value, !.arg.attrs = @ \union {"has_index"}]
<1>1. Builds(w, v)
  BY DEF IsWork, Builds, WorkFields, ArgumentFields
<1>. QED
  BY <1>1, FailedBuilds DEF WithIndex

\* What an encodedin reads is a number, and so is what a numeric node stands for.
LEMMA RawType ==
  ASSUME NEW node, node.enc \in Seq(Nat)
  PROVE  Raw(node) \in FiniteWords /\ Num(Raw(node)) \in Nat
<1>1. Len(node.enc) \in Nat
  OBVIOUS
<1>2. Raw(node) \in SUBSET Low(Len(node.enc))
  BY DEF Raw, ReadEncodedin
<1>. QED
  BY <1>1, <1>2, LowWord, NumType

\* decode_any of a numeric node.
LEMMA DecodeAnyType ==
  ASSUME NEW node, IsNumber(node)
  PROVE  decode_any(node).value \in Int
<1>1. Num(Raw(node)) \in Nat
  BY RawType DEF IsNumber
<1>. QED
  BY <1>1 DEF decode_any, Encoded, IsNumber

-----------------------------------------------------------------------------
(* Registers.                                                              *)

\* check_pc_sp raises flags or fails.
LEMMA CheckPcSpBuilds ==
  ASSUME NEW w, IsWork(w), NEW node
  PROVE  Builds(w, CheckPcSp(w, node))
<1>1. PcFlags(node) \subseteq OperandFlags
  BY DEF PcFlags, Only, OperandFlags
<1>. QED
  BY <1>1, FailedBuilds, RaiseBuilds, BuildsSame DEF CheckPcSp

\* The comparison with the last register written.
LEMMA DestructiveBuilds ==
  ASSUME NEW w, IsWork(w)
  PROVE  Builds(w, Destructive(w))
BY DEF IsWork, Builds, Destructive, WorkFields, ArgumentFields, Only, FlagNames,
       OperandFlags

\* A register operand, as far as its register is known.
Registered(w, node, reg) ==
  [w EXCEPT !.arg.type = "REGISTER", !.arg.reg = reg,
            !.arg.attrs = Attrs(w.arg, {"read", "write"}, node)]

\* The register is checked, and compared with the last one written.
LEMMA RegisterReadBuilds ==
  ASSUME NEW w, IsWork(w), NEW node, NEW reg \in Int, NEW bad
  PROVE  Builds(w, RegisterRead(w, node, reg, bad))
<1>. DEFINE u == Registered(w, node, reg)
            v == Raise(u, Only(bad, {"unpredictable"}))
<1>1. Builds(w, u)
  BY DEF Registered, IsWork, Builds, WorkFields, ArgumentFields
<1>2. Builds(w, v)
  BY <1>1, RaiseBuilds DEF Builds, Only, OperandFlags
<1>. HIDE DEF u, v
<1>3. Builds(w, CheckPcSp(v, node))
  BY <1>2, CheckPcSpBuilds, BuildsTrans DEF Builds
<1>4. Builds(w, Then(CheckPcSp(v, node), Destructive))
  BY <1>3, DestructiveBuilds, BuildsTrans DEF Then, Builds
<1>. QED
  BY <1>4 DEF RegisterRead, Registered, u, v

\* decode_register_value yields a number of the enumeration.
LEMMA RegisterValueType ==
  ASSUME NEW raw \in Nat, NEW symbol
  PROVE  decode_register_value(raw, symbol) \in Int
BY DEF decode_register_value, R0, S0, D0, Q0

\* decode_arg_reg, of a register that is fixed or encoded.
LEMMA RegBuilds ==
  ASSUME NEW w, IsWork(w), NEW node, IsNumber(node)
  PROVE  Builds(w, decode_arg_reg(w, node))
<1>1. CASE node.enc = <<>>
  BY <1>1, RegisterReadBuilds DEF decode_arg_reg, IsNumber
<1>2. CASE node.enc # <<>>
  <2>. DEFINE first == decode_register_value(Num(Raw(node)), node.symbol)
  <2>1. first \in Int /\ first + 1 \in Int
    BY RawType, RegisterValueType DEF IsNumber
  <2>. HIDE DEF first
  <2>2. Builds(w, EncodedRegister(w, node, first))
    BY <2>1, RegisterReadBuilds DEF EncodedRegister
  <2>. QED
    BY <1>2, <2>2 DEF decode_arg_reg, first
<1>. QED
  BY <1>1, <1>2

\* What follows a register keeps the record in shape if its handler does.
LEMMA VectorBuilds ==
  ASSUME NEW w, IsWork(w)
  PROVE  Builds(w, Raise([w EXCEPT !.arg.attrs = @ \union {"is_vector"}], {"vector"}))
<1>. DEFINE u == [w EXCEPT !.arg.attrs = @ \union {"is_vector"}]
<1>1. Builds(w, u)
  BY DEF IsWork, Builds, WorkFields, ArgumentFields
<1>. HIDE DEF u
<1>2. Builds(w, Raise(u, {"vector"}))
  BY <1>1, RaiseBuilds, BuildsTrans DEF Builds, OperandFlags
<1>. QED
  BY <1>2 DEF u

\* decode_arg_vreg
LEMMA VregBuilds ==
  ASSUME NEW w, IsWork(w), NEW node, IsNumber(node)
  PROVE  Builds(w, decode_arg_vreg(w, node))
BY RegBuilds, VectorBuilds, BuildsTrans DEF decode_arg_vreg, Then, Builds

\* decode_arg_ereg
LEMMA EregBuilds ==
  ASSUME NEW w, IsWork(w), NEW node, IsNumber(node.sub.reg)
  PROVE  Builds(w, decode_arg_ereg(w, node))
BY RegBuilds, WithIndexBuilds, BuildsTrans DEF decode_arg_ereg, Then, Builds

\* decode_arg_wreg: a base that is written back.
LEMMA WregBuilds ==
  ASSUME NEW w, IsWork(w), NEW node, IsNumber(node.sub.reg)
  PROVE  Builds(w, decode_arg_wreg(w, node))
<1>1. ASSUME NEW v, IsWork(v), NEW raised, raised \subseteq OperandFlags
      PROVE  Builds(v, Raise([v EXCEPT !.arg.attrs = @ \union {"write_back"}], raised))
  <2>. DEFINE u == [v EXCEPT !.arg.attrs = @ \union {"write_back"}]
  <2>1. Builds(v, u)
    BY <1>1 DEF IsWork, Builds, WorkFields, ArgumentFields
  <2>. HIDE DEF u
  <2>2. Builds(v, Raise(u, raised))
    BY <1>1, <2>1, RaiseBuilds, BuildsTrans DEF Builds
  <2>. QED
    BY <2>2 DEF u
<1>2. ASSUME NEW v
      PROVE  Only(v.arg.reg = PC, {"may_branch", "unpredictable"}) \subseteq OperandFlags
  BY DEF Only, OperandFlags
<1>. DEFINE v == decode_arg_reg(w, node.sub.reg)
<1>3. Builds(w, v)
  BY RegBuilds
<1>. HIDE DEF v
<1>4. IsWork(v)
  BY <1>3 DEF Builds
<1>5. Builds(w, Raise([v EXCEPT !.arg.attrs = @ \union {"write_back"}],
                      Only(v.arg.reg = PC, {"may_branch", "unpredictable"})))
  BY <1>1, <1>2, <1>3, <1>4, BuildsTrans
<1>. QED
  BY <1>3, <1>5 DEF decode_arg_wreg, Then, v

-----------------------------------------------------------------------------
(* Shifts, immediates and labels.                                          *)

\* set_shifter
LEMMA ShifterBuilds ==
  ASSUME NEW w, IsWork(w), NEW shift, NEW amount, NEW rs
  PROVE  Builds(w, Shifter(w, shift, amount, rs))
BY DEF Shifter, IsWork, Builds, WorkFields, ArgumentFields

\* decode_arg_shifter: whatever the shift and the amount are, a shifter is set.
LEMMA ShiftBuilds ==
  ASSUME NEW w, IsWork(w), NEW node
  PROVE  Builds(w, decode_arg_shifter(w, node))
<1>1. ASSUME NEW shift, NEW amount
      PROVE  Builds(w, ShiftAmount(w, shift, amount))
  BY ShifterBuilds DEF ShiftAmount, ZeroAmount
<1>2. ASSUME NEW shift
      PROVE  Builds(w, ShiftBy(w, node, shift))
  BY <1>1, ShifterBuilds DEF ShiftBy
<1>. QED
  BY <1>2, FailedBuilds DEF decode_arg_shifter, ShiftKind

\* decode_arg_regsh
LEMMA RegshBuilds ==
  ASSUME NEW w, IsWork(w), NEW node, IsNumber(node.sub.reg)
  PROVE  Builds(w, decode_arg_regsh(w, node))
BY RegBuilds, ShiftBuilds, BuildsTrans DEF decode_arg_regsh, Then, Builds

\* decode_arg_imm
LEMMA ImmBuilds ==
  ASSUME NEW w, IsWork(w), NEW node
  PROVE  Builds(w, decode_arg_imm(w, node))
<1>1. ASSUME NEW imm, NEW lsb
      PROVE  Builds(w, [w EXCEPT !.arg.type = "IMMEDIATE", !.arg.imm = imm, !.lsb = lsb])
  BY DEF IsWork, Builds, WorkFields, ArgumentFields
<1>. QED
  BY <1>1 DEF decode_arg_imm

\* decode_arg_immsh
LEMMA ImmshBuilds ==
  ASSUME NEW w, IsWork(w), NEW node
  PROVE  Builds(w, decode_arg_immsh(w, node))
BY ImmBuilds, ShiftBuilds, BuildsTrans DEF decode_arg_immsh, Then, Builds

\* decode_arg_label
LEMMA LabelBuilds ==
  ASSUME NEW w, IsWork(w), NEW node
  PROVE  Builds(w, decode_arg_label(w, node))
<1>1. ASSUME NEW label
      PROVE  Builds(w, [w EXCEPT !.arg.type = "LABEL", !.arg.imm = label])
  BY DEF IsWork, Builds, WorkFields, ArgumentFields
<1>. DEFINE v == [w EXCEPT !.arg.type = "LABEL", !.arg.imm = {}]
<1>2. Builds(w, v) /\ IsWork(v)
  BY <1>1 DEF Builds
<1>. HIDE DEF v
<1>3. Builds(w, Failed(v))
  BY <1>2, FailedBuilds, BuildsTrans
<1>. QED
  BY <1>1, <1>3 DEF decode_arg_label, v

-----------------------------------------------------------------------------
(* Memory.                                                                 *)

\* decode_anynymous_immreg
LEMMA PartBuilds ==
  ASSUME NEW w, IsWork(w), NEW node, IsPart(node)
  PROVE  Builds(w, decode_anynymous_immreg(w, node))
BY RegBuilds, VregBuilds, EregBuilds, RegshBuilds, ImmBuilds, ImmshBuilds, FailedBuilds
   DEF decode_anynymous_immreg, IsPart

\* The offset of a memory operand.
LEMMA OffsetBuilds ==
  ASSUME NEW w, IsWork(w), NEW node, Has(node, "regoff") => IsPart(node.sub.regoff)
  PROVE  Builds(w, Offset(w, node))
<1>1. ASSUME NEW v, IsWork(v), NEW x
      PROVE  /\ Builds(v, [v EXCEPT !.arg.immoff = x])
             /\ Builds(v, [v EXCEPT !.arg.regoff = x])
  BY <1>1 DEF IsWork, Builds, WorkFields, ArgumentFields
<1>2. CASE Has(node, "regoff")
  <2>. DEFINE v == decode_anynymous_immreg(w, node.sub.regoff)
  <2>1. Builds(w, v)
    BY <1>2, PartBuilds
  <2>. HIDE DEF v
  <2>2. IsWork(v) /\ Builds(v, v)
    BY <2>1, BuildsSame DEF Builds
  <2>3. /\ Builds(v, [v EXCEPT !.arg.immoff = v.arg.imm])
        /\ Builds(v, [v EXCEPT !.arg.regoff = v.arg.reg])
    BY <1>1, <2>2
  <2>4. Builds(w, Then(v, LAMBDA u : IF u.arg.type = "IMMEDIATE"
                                     THEN [u EXCEPT !.arg.immoff = u.arg.imm]
                                     ELSE [u EXCEPT !.arg.regoff = u.arg.reg]))
    BY <2>1, <2>2, <2>3, BuildsTrans DEF Then
  <2>. QED
    BY <1>2, <2>4, FailedBuilds DEF Offset, v
<1>. QED
  BY <1>2, BuildsSame DEF Offset

\* decode_mem_access names flags.
LEMMA MemAccessType ==
  ASSUME NEW access
  PROVE  decode_mem_access(access) \subseteq OperandFlags
BY DEF decode_mem_access, OperandFlags

\* The operand as a whole.
LEMMA MemoryBuilds ==
  ASSUME NEW w, IsWork(w), NEW node
  PROVE  Builds(w, Memory(w, node))
<1>. DEFINE raised == Only("read" \in node.attrs, {"may_load"})
                        \union Only("write" \in node.attrs, {"may_store"})
                        \union decode_mem_access(node.value)
<1>1. raised \subseteq OperandFlags
  BY MemAccessType DEF Only, OperandFlags
<1>2. ASSUME NEW attrs
      PROVE  Builds(w, [w EXCEPT !.arg.type = "MEMORY", !.arg.attrs = attrs])
  BY DEF IsWork, Builds, WorkFields, ArgumentFields
<1>. HIDE DEF raised
<1>3. ASSUME NEW attrs
      PROVE  Builds(w, Raise([w EXCEPT !.arg.type = "MEMORY", !.arg.attrs = attrs], raised))
  <2>. DEFINE v == [w EXCEPT !.arg.type = "MEMORY", !.arg.attrs = attrs]
  <2>1. Builds(w, v)
    BY <1>2
  <2>. HIDE DEF v
  <2>2. Builds(w, Raise(v, raised))
    BY <1>1, <2>1, RaiseBuilds, BuildsTrans DEF Builds
  <2>. QED
    BY <2>2 DEF v
<1>. QED
  BY <1>3, FailedBuilds DEF Memory, raised

\* decode_arg_mem: the base, the offset over it, and the operand.
LEMMA MemBuilds ==
  ASSUME NEW w, IsWork(w), NEW node, IsPart(node.sub.base),
         Has(node, "regoff") => IsPart(node.sub.regoff)
  PROVE  Builds(w, decode_arg_mem(w, node))
<1>. DEFINE u == decode_anynymous_immreg(w, node.sub.base)
            b == [u EXCEPT !.arg.base = u.arg.reg]
            v == IF u.ok THEN Offset(b, node) ELSE u
<1>1. Builds(w, u)
  BY PartBuilds
<1>. HIDE DEF u
<1>2. Builds(u, b)
  BY <1>1 DEF IsWork, Builds, WorkFields, ArgumentFields
<1>. HIDE DEF b
<1>3. Builds(w, v)
  BY <1>1, <1>2, OffsetBuilds, BuildsTrans DEF Builds
<1>. HIDE DEF v
<1>4. Builds(w, IF v.ok THEN Memory(v, node) ELSE v)
  BY <1>3, MemoryBuilds, BuildsTrans DEF Builds
<1>. QED
  BY <1>4 DEF decode_arg_mem, Then, u, b, v

-----------------------------------------------------------------------------
(* Members of enumerations.                                                *)

\* A member of an enumeration is a number.
LEMMA TokenBuilds ==
  ASSUME NEW w, IsWork(w), NEW node, NEW tv, tv.value \in Int
  PROVE  Builds(w, Token(w, node, tv))
BY DEF Token, IsWork, Builds, WorkFields, ArgumentFields

\* A row of a table, and a value without one.
LEMMA TvType ==
  ASSUME NEW value \in Int
  PROVE  Tv(value, 0).value \in Int /\ Unnamed(value).value \in Int
BY DEF Tv, Unnamed

\* A member that is encoded, from its table or as it was read.
LEMMA EncodedTokenBuilds ==
  ASSUME NEW w, IsWork(w), NEW node, IsNumber(node), NEW raw \in Int
  PROVE  Builds(w, EncodedToken(w, node, raw))
<1>1. CASE node.table # <<>> /\ raw \in DOMAIN node.table
  <2>1. node.table[raw].value \in Int
    BY <1>1 DEF IsNumber
  <2>. QED
    BY <1>1, <2>1, TokenBuilds DEF EncodedToken
<1>2. CASE node.table # <<>> /\ raw \notin DOMAIN node.table
  BY <1>2, TvType, TokenBuilds DEF EncodedToken
<1>3. CASE node.table = <<>> /\ node.type \in {"CSPACE", "PSPACE", "COND"}
  <2>1. Tv(raw + 1, 0).value \in Int
    BY TvType
  <2>. QED
    BY <1>3, <2>1, TokenBuilds DEF EncodedToken
<1>4. CASE node.table = <<>> /\ node.type \notin {"CSPACE", "PSPACE", "COND"}
  BY <1>4, TvType, TokenBuilds DEF EncodedToken
<1>. QED
  BY <1>1, <1>2, <1>3, <1>4

\* decode_arg_enum: fixed, or encoded.
LEMMA EnumBuilds ==
  ASSUME NEW w, IsWork(w), NEW node, IsNumber(node)
  PROVE  Builds(w, decode_arg_enum(w, node))
<1>1. Num(Raw(node)) \in Int
  BY RawType DEF IsNumber
<1>. QED
  BY <1>1, TvType, TokenBuilds, EncodedTokenBuilds DEF decode_arg_enum, IsNumber

\* decode_arg_sysreg: banked and special registers.
LEMMA SysregBuilds ==
  ASSUME NEW w, IsWork(w), NEW node, IsNumber(node)
  PROVE  Builds(w, decode_arg_sysreg(w, node))
<1>1. ASSUME NEW v, IsWork(v), NEW attrs, NEW reg \in Int
      PROVE  Builds(v, [v EXCEPT !.arg.reg = reg, !.arg.attrs = attrs])
  BY <1>1 DEF IsWork, Builds, WorkFields, ArgumentFields
<1>. DEFINE v   == decode_arg_enum(w, node)
            reg == IF "is_representable" \in v.arg.attrs THEN v.arg.token ELSE v.arg.reg
<1>2. Builds(w, v)
  BY EnumBuilds
<1>. HIDE DEF v
<1>3. IsWork(v) /\ reg \in Int
  BY <1>2 DEF Builds, IsWork
<1>4. Builds(w, [v EXCEPT !.arg.reg = reg, !.arg.attrs = Attrs(v.arg, {"read", "write"}, node)])
  BY <1>1, <1>2, <1>3, BuildsTrans
<1>5. Builds(w, IF v.ok
                THEN [v EXCEPT !.arg.reg = reg,
                               !.arg.attrs = Attrs(v.arg, {"read", "write"}, node)]
                ELSE v)
  BY <1>2, <1>4
<1>6. [v EXCEPT !.arg.reg = IF "is_representable" \in v.arg.attrs THEN v.arg.token ELSE @,
                !.arg.attrs = Attrs(v.arg, {"read", "write"}, node)]
      = [v EXCEPT !.arg.reg = reg, !.arg.attrs = Attrs(v.arg, {"read", "write"}, node)]
  BY <1>3 DEF IsWork, WorkFields, ArgumentFields
<1>. QED
  BY <1>5, <1>6 DEF decode_arg_sysreg, Then, v

\* decode_arg_iflags
LEMMA IflagsBuilds ==
  ASSUME NEW w, IsWork(w), NEW node
  PROVE  Builds(w, decode_arg_iflags(w, node))
<1>. DEFINE v == [w EXCEPT !.arg.type = "AIF", !.arg.imm = Raw(node),
                           !.arg.attrs = @ \union {"read"}]
            u == [v EXCEPT !.arg.attrs = @ \ {"is_representable"}]
<1>1. Builds(w, v)
  BY DEF IsWork, Builds, WorkFields, ArgumentFields
<1>2. Builds(v, u)
  BY <1>1 DEF IsWork, Builds, WorkFields, ArgumentFields
<1>. HIDE DEF u, v
<1>3. Builds(w, Raise(u, {"unpredictable"}))
  BY <1>1, <1>2, RaiseBuilds, BuildsTrans DEF Builds, OperandFlags
<1>. QED
  BY <1>1, <1>3 DEF decode_arg_iflags, u, v

-----------------------------------------------------------------------------
(* Lists.                                                                  *)

\* The fifth register of a list lies over the token.
LEMMA ListBuilds ==
  ASSUME NEW w, IsWork(w), NEW registers, NEW attrs,
         Len(registers) >= 5 => registers[5] \in Int
  PROVE  Builds(w, List(w, registers, attrs))
BY DEF List, IsWork, Builds, WorkFields, ArgumentFields

\* decode_arg_slist: one register.
LEMMA SlistBuilds ==
  ASSUME NEW w, IsWork(w), NEW node
  PROVE  Builds(w, decode_arg_slist(w, node))
<1>1. ASSUME NEW reg, NEW attrs, NEW raised, raised \subseteq OperandFlags
      PROVE  Builds(w, Raise(List(w, <<reg>>, attrs), raised))
  BY <1>1, ListBuilds, RaiseBuilds, BuildsTrans DEF Builds
<1>2. ASSUME NEW condition
      PROVE  Only(condition, {"may_branch"}) \subseteq OperandFlags
  BY DEF Only, OperandFlags
<1>. QED
  BY <1>1, <1>2 DEF decode_arg_slist

\* decode_arg_glist: the general registers of a mask.
LEMMA GlistBuilds ==
  ASSUME NEW w, IsWork(w), NEW node, IsNumber(node)
  PROVE  Builds(w, decode_arg_glist(w, node))
<1>. DEFINE raw       == Raw(node)
            count     == Cardinality(raw)
            registers == [n \in 1..count |-> R0 + OneBits(raw)[n]]
            raised    == Only("write" \in node.attrs /\ 15 \in raw, {"may_branch"})
            attrs     == Attrs(w.arg, {"read", "write"}, node)
<1>1. raw \in FiniteWords
  BY RawType DEF IsNumber
<1>. HIDE DEF raw
<1>2. count \in Nat
  BY <1>1, WordParts
<1>3. \A n \in 1..count : registers[n] \in Int
  <2>1. ASSUME NEW n \in 1..count
        PROVE  OneBits(raw)[n] \in Nat
    BY <1>1, OneBitsRank DEF FiniteWords
  <2>. QED
    BY <2>1 DEF R0
<1>. HIDE DEF count
<1>4. Len(registers) >= 5 => registers[5] \in Int
  BY <1>2, <1>3
<1>. HIDE DEF registers
<1>5. raised \subseteq OperandFlags
  BY DEF Only, OperandFlags
<1>. HIDE DEF raised, attrs
<1>6. Builds(w, Raise(List(w, registers, attrs), raised))
  BY <1>4, <1>5, ListBuilds, RaiseBuilds, BuildsTrans DEF Builds
<1>. QED
  BY <1>6 DEF decode_arg_glist, raw, count, registers, raised, attrs

\* The registers from a base on, as far as there is room.
LEMMA BankListBuilds ==
  ASSUME NEW w, IsWork(w), NEW base \in Int, NEW count \in Int, NEW end \in Int
  PROVE  Builds(w, BankList(w, base, count, end))
<1>. DEFINE room      == IF base <= end /\ end - base < count THEN end - base ELSE count
            registers == [i \in 1..room |-> base + i - 1]
            raised    == Only(count = 0 \/ room < count, {"unpredictable"})
<1>1. room \in Int
  OBVIOUS
<1>. HIDE DEF room
<1>2. Len(registers) >= 5 => registers[5] \in Int
  <2>1. room \in Nat => (Len(registers) >= 5 => registers[5] \in Int)
    OBVIOUS
  <2>2. room < 0 => Len(registers) = 0
    <3>. SUFFICES ASSUME room < 0
                  PROVE  Len(registers) = 0
      OBVIOUS
    <3>1. 1..room = 1..0
      BY <1>1
    <3>2. registers = [i \in 1..0 |-> base + i - 1]
      BY <3>1, Zenon
    <3>. HIDE DEF registers
    <3>3. Len([i \in 1..0 |-> base + i - 1]) = 0
      OBVIOUS
    <3>. QED
      BY <3>2, <3>3, Zenon
  <2>. HIDE DEF registers
  <2>. QED
    BY <1>1, <2>1, <2>2
<1>. HIDE DEF registers
<1>3. raised \subseteq OperandFlags
  BY DEF Only, OperandFlags
<1>. HIDE DEF raised
<1>4. Builds(w, Raise(List(w, registers, w.arg.attrs), raised))
  BY <1>2, <1>3, ListBuilds, RaiseBuilds, BuildsTrans DEF Builds
<1>. QED
  BY <1>4 DEF BankList, room, registers, raised

\* decode_arg_fslist and decode_arg_fdlist
LEMMA FlistBuilds ==
  ASSUME NEW w, IsWork(w), NEW node, IsNumber(node.sub.base), IsNumber(node.sub.count)
  PROVE  Builds(w, decode_arg_fslist(w, node)) /\ Builds(w, decode_arg_fdlist(w, node))
<1>. DEFINE v     == decode_arg_reg(w, node.sub.base)
            count == decode_any(node.sub.count).value
<1>1. Builds(w, v) /\ IsWork(v) /\ v.arg.reg \in Int
  BY RegBuilds DEF Builds, IsWork
<1>2. count \in Int /\ count \div 2 \in Int
  BY DecodeAnyType
<1>. HIDE DEF v, count
<1>3. D0 \in Int /\ Q0 \in Int
  BY DEF D0, Q0
<1>4. Builds(w, BankList(v, v.arg.reg, count, D0))
  BY <1>1, <1>2, <1>3, BankListBuilds, BuildsTrans
<1>5. Builds(w, BankList(v, v.arg.reg, count \div 2, Q0))
  BY <1>1, <1>2, <1>3, BankListBuilds, BuildsTrans
<1>. QED
  BY <1>1, <1>4, <1>5 DEF decode_arg_fslist, decode_arg_fdlist, Then, v, count

\* decode_arg_vlist: registers at a distance.
LEMMA VlistBuilds ==
  ASSUME NEW w, IsWork(w), NEW node, IsPart(node.sub.base), IsNumber(node.sub.count),
         IsNumber(node.sub.inc)
  PROVE  Builds(w, decode_arg_vlist(w, node))
<1>. DEFINE v     == decode_anynymous_immreg(w, node.sub.base)
            count == decode_any(node.sub.count).value
            inc   == decode_any(node.sub.inc).value
            room  == Cardinality({n \in 1..count : v.arg.reg + (n - 1) * inc < Q16})
            registers == [i \in 1..room |-> v.arg.reg + (i - 1) * inc]
            raised    == Only(room < count, {"unpredictable"})
<1>1. Builds(w, v) /\ IsWork(v) /\ v.arg.reg \in Int
  BY PartBuilds DEF Builds, IsWork
<1>2. count \in Int /\ inc \in Int
  BY DecodeAnyType
<1>. HIDE DEF v, count, inc
<1>3. room \in Nat
  <2>1. IsFiniteSet(1..count)
    BY <1>2, FS_Interval
  <2>2. {n \in 1..count : v.arg.reg + (n - 1) * inc < Q16} \in SUBSET (1..count)
    OBVIOUS
  <2>. QED
    BY <2>1, <2>2, FS_Subset, FS_CardinalityType
<1>. HIDE DEF room
<1>4. Len(registers) >= 5 => registers[5] \in Int
  BY <1>1, <1>2, <1>3
<1>. HIDE DEF registers
<1>5. raised \subseteq OperandFlags
  BY DEF Only, OperandFlags
<1>. HIDE DEF raised
<1>6. Builds(w, Raise(List(v, registers, v.arg.attrs), raised))
  BY <1>1, <1>4, <1>5, ListBuilds, RaiseBuilds, BuildsTrans DEF Builds
<1>. QED
  BY <1>1, <1>6 DEF decode_arg_vlist, Strided, Then, v, count, inc, room, registers, raised

-----------------------------------------------------------------------------
(* decode_node.                                                            *)

\* The handler of every type of node keeps the record in shape and takes back no flag.
LEMMA NodeBuilds ==
  ASSUME NEW w, IsWork(w), NEW node, IsNode(node)
  PROVE  Builds(w, decode_node(w, node))
<1>. USE DEF IsNode, EnumTypes
<1>1. CASE node.type \in {"CSPACE", "PSPACE", "COND", "ENDIAN", "SYNC_OP", "BARRIER"}
  BY <1>1, EnumBuilds DEF decode_node
<1>2. CASE node.type \in {"BNKDREG", "SPECREG"}
  BY <1>2, SysregBuilds DEF decode_node
<1>3. CASE node.type \in {"REG", "VREG", "EREG", "WREG", "REGSH"}
  BY <1>3, RegBuilds, VregBuilds, EregBuilds, WregBuilds, RegshBuilds DEF decode_node
<1>4. CASE node.type \in {"GLIST", "SLIST", "FSLIST", "FDLIST", "VLIST", "ELIST"}
  BY <1>4, GlistBuilds, SlistBuilds, FlistBuilds, VlistBuilds DEF decode_node
<1>5. CASE node.type \in {"IMM", "FPIMM", "LABEL", "ADDR", "LM", "MEM", "IFLAGS"}
  BY <1>5, ImmBuilds, LabelBuilds, MemBuilds, IflagsBuilds DEF decode_node
<1>6. CASE node.type \in {"SZ", "XYZ"}
  BY <1>6, BuildsSame DEF decode_node
<1>7. CASE node.type \notin {"SZ", "XYZ", "CSPACE", "PSPACE", "COND", "ENDIAN", "SYNC_OP",
                            "BARRIER", "BNKDREG", "SPECREG", "REG", "VREG", "EREG", "WREG",
                            "REGSH", "GLIST", "SLIST", "FSLIST", "FDLIST", "VLIST", "ELIST",
                            "IMM", "FPIMM", "LABEL", "ADDR", "LM", "MEM", "IFLAGS"}
  BY <1>7, FailedBuilds DEF decode_node
<1>. QED
  BY <1>1, <1>2, <1>3, <1>4, <1>5, <1>6, <1>7

\* The record decode_node starts from is in shape.
LEMMA FreshWork ==
  ASSUME NEW state, NEW mnemonic, NEW old \in Int, NEW raised, raised \subseteq FlagNames
  PROVE  IsWork(Fresh(state, mnemonic, old, raised)) /\
         Fresh(state, mnemonic, old, raised).flags = raised
<1>. DEFINE blank == [BlankArgument EXCEPT !.attrs = {"is_representable"}, !.token = old]
<1>1. DOMAIN BlankArgument = ArgumentFields /\ BlankArgument.reg = 0
  BY DEF BlankArgument, ArgumentFields
<1>2. DOMAIN blank = ArgumentFields /\ blank.reg = 0 /\ blank.token = old
  BY <1>1 DEF ArgumentFields
<1>. HIDE DEF blank
<1>. DEFINE w == [ok |-> TRUE, flags |-> raised, mnemonic |-> mnemonic, lsb |-> state.lsb,
                  dst_reg |-> state.dst_reg, arg |-> blank]
<1>3. IsWork(w) /\ w.flags = raised
  BY <1>2 DEF IsWork, WorkFields
<1>. QED
  BY <1>3 DEF Fresh, blank
-----------------------------------------------------------------------------
(* What an operand looks like to the reader of the instruction.            *)

\* A PC that is written is a branch.
PcBranches(w) ==
  w.arg.reg = PC /\ w.arg.attrs \cap {"write", "write_back"} # {} => "may_branch" \in w.flags

\* A handler leaves alone what PcBranches and the type of the argument are about.
Keeps(w, v) ==
  /\ v.arg.type = w.arg.type /\ v.arg.reg = w.arg.reg
  /\ v.arg.attrs \cap {"write", "write_back"} = w.arg.attrs \cap {"write", "write_back"}
  /\ w.flags \subseteq v.flags /\ (v.ok => w.ok)

\* A register operand that is accepted.
IsRegister(w) == w.arg.type = "REGISTER" /\ (w.ok => PcBranches(w))

\* What is kept stays a register operand.
LEMMA KeepsRegister ==
  ASSUME NEW w, NEW v, Keeps(w, v), IsRegister(w)
  PROVE  IsRegister(v)
BY DEF Keeps, IsRegister, PcBranches

\* The helpers leave the argument alone.
LEMMA FailedKeeps ==
  ASSUME NEW w, IsWork(w)
  PROVE  Failed(w).arg = w.arg /\ ~Failed(w).ok /\ Keeps(w, Failed(w))
BY DEF Failed, IsWork, WorkFields, ArgumentFields, Keeps

\* Flags that are raised.
LEMMA RaiseKeeps ==
  ASSUME NEW w, IsWork(w), NEW raised
  PROVE  /\ Raise(w, raised).arg = w.arg /\ Raise(w, raised).ok = w.ok
         /\ Raise(w, raised).flags = w.flags \union raised
         /\ Keeps(w, Raise(w, raised))
BY DEF Raise, IsWork, WorkFields, ArgumentFields, Keeps

\* The comparison with the last register written.
LEMMA DestructiveKeeps ==
  ASSUME NEW w, IsWork(w)
  PROVE  Keeps(w, Destructive(w))
BY DEF Destructive, IsWork, WorkFields, ArgumentFields, Keeps

\* The attributes of an argument are those of its node.
LEMMA CheckPcSpShows ==
  ASSUME NEW w, IsWork(w), NEW node, "write_back" \notin w.arg.attrs,
         "write" \in w.arg.attrs => "write" \in node.attrs
  PROVE  Keeps(w, CheckPcSp(w, node)) /\
         (CheckPcSp(w, node).ok => PcBranches(CheckPcSp(w, node)))
<1>1. CASE w.arg.reg = PC /\ "nopc" \notin node.attrs
  <2>1. "write" \in w.arg.attrs => "may_branch" \in PcFlags(node)
    BY DEF PcFlags, Only
  <2>2. CheckPcSp(w, node) = Raise(w, PcFlags(node))
    BY <1>1 DEF CheckPcSp
  <2>. QED
    BY <2>1, <2>2, RaiseKeeps DEF PcBranches
<1>2. CASE CheckPcSp(w, node) = Failed(w)
  BY <1>2, FailedKeeps
<1>3. CASE w.arg.reg # PC /\ CheckPcSp(w, node) = w
  BY <1>3 DEF Keeps, PcBranches
<1>. QED
  BY <1>1, <1>2, <1>3 DEF CheckPcSp

\* Every register operand is read by this.
LEMMA RegisterReadShows ==
  ASSUME NEW w, IsWork(w), NEW node, NEW reg \in Int, NEW bad,
         "write_back" \notin w.arg.attrs
  PROVE  IsRegister(RegisterRead(w, node, reg, bad))
<1>. DEFINE u == Registered(w, node, reg)
            v == Raise(u, Only(bad, {"unpredictable"}))
            c == CheckPcSp(v, node)
<1>1. /\ Builds(w, u) /\ u.arg.type = "REGISTER"
      /\ u.arg.attrs = Attrs(w.arg, {"read", "write"}, node)
  BY DEF Registered, IsWork, Builds, WorkFields, ArgumentFields
<1>2. IsWork(u) /\ "write_back" \notin u.arg.attrs
      /\ ("write" \in u.arg.attrs => "write" \in node.attrs)
  BY <1>1 DEF Builds, Attrs
<1>. HIDE DEF u
<1>3. Builds(u, v) /\ v.arg = u.arg
  BY <1>2, RaiseBuilds, RaiseKeeps DEF Only, OperandFlags
<1>4. IsWork(v)
  BY <1>3 DEF Builds
<1>. HIDE DEF v
<1>5. IsRegister(c) /\ IsWork(c)
  BY <1>1, <1>2, <1>3, <1>4, CheckPcSpShows, CheckPcSpBuilds DEF IsRegister, Keeps, Builds
<1>. HIDE DEF c
<1>6. IsRegister(Then(c, Destructive))
  BY <1>5, DestructiveKeeps, KeepsRegister DEF Then
<1>. QED
  BY <1>6 DEF RegisterRead, Registered, u, v, c

\* decode_arg_reg
LEMMA RegShows ==
  ASSUME NEW w, IsWork(w), NEW node, IsNumber(node), "write_back" \notin w.arg.attrs
  PROVE  IsRegister(decode_arg_reg(w, node))
<1>1. CASE node.enc = <<>>
  BY <1>1, RegisterReadShows DEF decode_arg_reg, IsNumber
<1>2. CASE node.enc # <<>>
  <2>. DEFINE first == decode_register_value(Num(Raw(node)), node.symbol)
  <2>1. first \in Int /\ first + 1 \in Int
    BY RawType, RegisterValueType DEF IsNumber
  <2>. HIDE DEF first
  <2>2. IsRegister(EncodedRegister(w, node, first))
    BY <2>1, RegisterReadShows DEF EncodedRegister
  <2>. QED
    BY <1>2, <2>2 DEF decode_arg_reg, first
<1>. QED
  BY <1>1, <1>2

\* decode_arg_vreg and decode_arg_ereg
LEMMA VregShows ==
  ASSUME NEW w, IsWork(w), NEW node, IsNumber(node), "write_back" \notin w.arg.attrs
  PROVE  IsRegister(decode_arg_vreg(w, node))
<1>. DEFINE v == decode_arg_reg(w, node)
            u == [v EXCEPT !.arg.attrs = @ \union {"is_vector"}]
<1>1. IsRegister(v) /\ IsWork(v)
  BY RegShows, RegBuilds DEF Builds
<1>. HIDE DEF v
<1>2. IsWork(u) /\ Keeps(v, u)
  BY <1>1 DEF IsWork, WorkFields, ArgumentFields, Keeps
<1>. HIDE DEF u
<1>3. IsRegister(Raise(u, {"vector"}))
  BY <1>1, <1>2, RaiseKeeps, KeepsRegister
<1>. QED
  BY <1>1, <1>3 DEF decode_arg_vreg, Then, v, u

\* An index does not change the register.
LEMMA EregShows ==
  ASSUME NEW w, IsWork(w), NEW node, IsNumber(node.sub.reg), "write_back" \notin w.arg.attrs
  PROVE  IsRegister(decode_arg_ereg(w, node))
<1>. DEFINE v == decode_arg_reg(w, node.sub.reg)
            idx == decode_any(node.sub.idx)
<1>1. IsRegister(v) /\ IsWork(v)
  BY RegShows, RegBuilds DEF Builds
<1>. HIDE DEF v, idx
<1>2. Keeps(v, [v EXCEPT !.arg.index = idx.value, !.arg.attrs = @ \union {"has_index"}])
  BY <1>1 DEF IsWork, WorkFields, ArgumentFields, Keeps
<1>3. IsRegister(WithIndex(v, idx))
  BY <1>1, <1>2, FailedKeeps, KeepsRegister DEF WithIndex
<1>. QED
  BY <1>1, <1>3 DEF decode_arg_ereg, Then, v, idx

\* decode_arg_wreg: PC as a base that is written back branches.
LEMMA WregShows ==
  ASSUME NEW w, IsWork(w), NEW node, IsNumber(node.sub.reg), "write_back" \notin w.arg.attrs
  PROVE  IsRegister(decode_arg_wreg(w, node))
<1>. DEFINE v == decode_arg_reg(w, node.sub.reg)
            u == [v EXCEPT !.arg.attrs = @ \union {"write_back"}]
            raised == Only(v.arg.reg = PC, {"may_branch", "unpredictable"})
<1>1. IsRegister(v) /\ IsWork(v)
  BY RegShows, RegBuilds DEF Builds
<1>. HIDE DEF v
<1>2. IsWork(u) /\ u.arg.reg = v.arg.reg /\ u.arg.type = "REGISTER"
  BY <1>1 DEF IsWork, WorkFields, ArgumentFields, IsRegister
<1>. HIDE DEF u
<1>3. v.arg.reg = PC => "may_branch" \in raised
  BY DEF Only
<1>. HIDE DEF raised
<1>4. IsRegister(Raise(u, raised))
  BY <1>2, <1>3, RaiseKeeps DEF IsRegister, PcBranches
<1>. QED
  BY <1>1, <1>4 DEF decode_arg_wreg, Then, v, u, raised
\* decode_arg_shifter does not change the register.
LEMMA ShiftKeeps ==
  ASSUME NEW w, IsWork(w), NEW node
  PROVE  Keeps(w, decode_arg_shifter(w, node))
<1>1. ASSUME NEW shift, NEW amount, NEW rs
      PROVE  Keeps(w, Shifter(w, shift, amount, rs))
  BY DEF Shifter, IsWork, WorkFields, ArgumentFields, Keeps
<1>2. ASSUME NEW shift
      PROVE  Keeps(w, ZeroAmount(w, shift))
  BY <1>1 DEF ZeroAmount
<1>3. ASSUME NEW shift
      PROVE  Keeps(w, ShiftBy(w, node, shift))
  BY <1>1, <1>2 DEF ShiftBy, ShiftAmount
<1>. QED
  BY <1>3, FailedKeeps DEF decode_arg_shifter, ShiftKind

\* decode_arg_regsh
LEMMA RegshShows ==
  ASSUME NEW w, IsWork(w), NEW node, IsNumber(node.sub.reg), "write_back" \notin w.arg.attrs
  PROVE  IsRegister(decode_arg_regsh(w, node))
<1>. DEFINE v == decode_arg_reg(w, node.sub.reg)
<1>1. IsRegister(v) /\ IsWork(v)
  BY RegShows, RegBuilds DEF Builds
<1>. HIDE DEF v
<1>2. IsRegister(decode_arg_shifter(v, node.sub.shifter))
  BY <1>1, ShiftKeeps, KeepsRegister
<1>. QED
  BY <1>1, <1>2 DEF decode_arg_regsh, Then, v

-----------------------------------------------------------------------------
(* The types of the other arguments.                                       *)

\* decode_arg_imm, decode_arg_label and decode_arg_iflags
LEMMA ImmShows ==
  ASSUME NEW w, IsWork(w), NEW node
  PROVE  /\ decode_arg_imm(w, node).arg.type = "IMMEDIATE"
         /\ decode_arg_label(w, node).arg.type = "LABEL"
         /\ decode_arg_iflags(w, node).arg.type = "AIF"
<1>1. decode_arg_imm(w, node).arg.type = "IMMEDIATE"
  BY DEF decode_arg_imm, IsWork, WorkFields, ArgumentFields
<1>2. decode_arg_label(w, node).arg.type = "LABEL"
  <2>1. ASSUME NEW label
        PROVE  /\ IsWork([w EXCEPT !.arg.type = "LABEL", !.arg.imm = label])
               /\ [w EXCEPT !.arg.type = "LABEL", !.arg.imm = label].arg.type = "LABEL"
    BY DEF IsWork, WorkFields, ArgumentFields
  <2>. DEFINE v == [w EXCEPT !.arg.type = "LABEL", !.arg.imm = {}]
  <2>2. IsWork(v) /\ v.arg.type = "LABEL"
    BY <2>1
  <2>. HIDE DEF v
  <2>3. Failed(v).arg.type = "LABEL"
    BY <2>2, FailedKeeps
  <2>. QED
    BY <2>1, <2>3 DEF decode_arg_label, v
<1>3. decode_arg_iflags(w, node).arg.type = "AIF"
  <2>. DEFINE v == [w EXCEPT !.arg.type = "AIF", !.arg.imm = Raw(node),
                             !.arg.attrs = @ \union {"read"}]
              u == [v EXCEPT !.arg.attrs = @ \ {"is_representable"}]
  <2>1. IsWork(v) /\ v.arg.type = "AIF"
    BY DEF IsWork, WorkFields, ArgumentFields
  <2>2. IsWork(u) /\ u.arg.type = "AIF"
    BY <2>1 DEF IsWork, WorkFields, ArgumentFields
  <2>. HIDE DEF v, u
  <2>3. Raise(u, {"unpredictable"}).arg.type = "AIF"
    BY <2>2, RaiseKeeps
  <2>. QED
    BY <2>1, <2>3 DEF decode_arg_iflags, v, u
<1>. QED
  BY <1>1, <1>2, <1>3

\* decode_arg_enum
LEMMA EnumShows ==
  ASSUME NEW w, IsWork(w), NEW node
  PROVE  decode_arg_enum(w, node).arg.type = EnumTypes[node.type]
<1>1. ASSUME NEW tv
      PROVE  Token(w, node, tv).arg.type = EnumTypes[node.type]
  BY DEF Token, IsWork, WorkFields, ArgumentFields
<1>. QED
  BY <1>1 DEF decode_arg_enum, EncodedToken

\* A row of a table of system registers, or a value without a name.
IsSysregRow(tv) == tv.value # PC \/ tv.representable = FALSE

\* The token of a system register.
LEMMA SysregTokenShows ==
  ASSUME NEW w, IsWork(w), NEW node, NEW tv, IsSysregRow(tv)
  PROVE  LET v == Token(w, node, tv)
         IN  v.arg.reg = w.arg.reg
             /\ ("is_representable" \in v.arg.attrs => v.arg.token # PC)
BY DEF Token, IsWork, WorkFields, ArgumentFields, Only, IsSysregRow

\* decode_arg_enum of a system register: what has a name is not PC.
LEMMA SysregEnumShows ==
  ASSUME NEW w, IsWork(w), NEW node, IsSysreg(node),
         node.type \notin {"CSPACE", "PSPACE", "COND"}
  PROVE  LET v == decode_arg_enum(w, node)
         IN  v.arg.reg = w.arg.reg
             /\ ("is_representable" \in v.arg.attrs => v.arg.token # PC)
<1>1. ASSUME NEW value
      PROVE  IsSysregRow(Unnamed(value))
  BY DEF IsSysregRow, Unnamed, Tv
<1>2. IsSysregRow(Tv(node.value, 0))
  BY DEF IsSysregRow, Tv, IsSysreg
<1>3. ASSUME NEW raw \in DOMAIN node.table
      PROVE  IsSysregRow(node.table[raw])
  BY DEF IsSysregRow, IsSysreg
<1>. DEFINE raw == Num(Raw(node))
<1>. HIDE DEF raw
<1>4. CASE node.enc = <<>>
  BY <1>2, <1>4, SysregTokenShows DEF decode_arg_enum
<1>5. CASE node.enc # <<>> /\ node.table # <<>> /\ raw \in DOMAIN node.table
  BY <1>3, <1>5, SysregTokenShows DEF decode_arg_enum, EncodedToken, raw
<1>6. CASE node.enc # <<>> /\ node.table # <<>> /\ raw \notin DOMAIN node.table
  BY <1>1, <1>6, SysregTokenShows DEF decode_arg_enum, EncodedToken, raw
<1>7. CASE node.enc # <<>> /\ node.table = <<>>
  BY <1>1, <1>7, SysregTokenShows DEF decode_arg_enum, EncodedToken, raw
<1>. QED
  BY <1>4, <1>5, <1>6, <1>7

\* decode_arg_sysreg: a banked or special register is not PC.
LEMMA SysregShows ==
  ASSUME NEW w, IsWork(w), NEW node, w.arg.reg # PC, IsNumber(node), IsSysreg(node),
         node.type \in {"BNKDREG", "SPECREG"}
  PROVE  IsRegister(decode_arg_sysreg(w, node))
<1>. DEFINE v   == decode_arg_enum(w, node)
            reg == IF "is_representable" \in v.arg.attrs THEN v.arg.token ELSE v.arg.reg
            u   == [v EXCEPT !.arg.reg = IF "is_representable" \in v.arg.attrs
                                         THEN v.arg.token ELSE @,
                             !.arg.attrs = Attrs(v.arg, {"read", "write"}, node)]
<1>1. IsWork(v) /\ v.arg.type = "REGISTER"
  BY EnumBuilds, EnumShows DEF Builds, EnumTypes
<1>2. reg # PC /\ v.arg.reg # PC
  BY SysregEnumShows
<1>. HIDE DEF v
<1>3. u.arg.type = "REGISTER" /\ u.arg.reg = reg
  BY <1>1 DEF IsWork, WorkFields, ArgumentFields
<1>. HIDE DEF reg, u
<1>4. IsRegister(u) /\ IsRegister(v)
  BY <1>1, <1>2, <1>3 DEF IsRegister, PcBranches
<1>. QED
  BY <1>4 DEF decode_arg_sysreg, Then, v, u

\* decode_arg_slist and decode_arg_glist
LEMMA GlistShows ==
  ASSUME NEW w, IsWork(w), NEW node
  PROVE  /\ decode_arg_slist(w, node).arg.type = "LIST"
         /\ decode_arg_glist(w, node).arg.type = "LIST"
<1>1. ASSUME NEW registers, NEW attrs, NEW raised
      PROVE  Raise(List(w, registers, attrs), raised).arg.type = "LIST"
  BY DEF Raise, List, IsWork, WorkFields, ArgumentFields
<1>. QED
  BY <1>1 DEF decode_arg_slist, decode_arg_glist

\* decode_arg_fslist, decode_arg_fdlist and decode_arg_vlist
LEMMA FlistShows ==
  ASSUME NEW w, IsWork(w), NEW node
  PROVE  /\ IsNumber(node.sub.base) /\ decode_arg_fslist(w, node).ok
              => decode_arg_fslist(w, node).arg.type = "LIST"
         /\ IsNumber(node.sub.base) /\ decode_arg_fdlist(w, node).ok
              => decode_arg_fdlist(w, node).arg.type = "LIST"
         /\ IsPart(node.sub.base) /\ decode_arg_vlist(w, node).ok
              => decode_arg_vlist(w, node).arg.type = "LIST"
<1>1. ASSUME NEW v, IsWork(v), NEW registers, NEW attrs, NEW raised
      PROVE  Raise(List(v, registers, attrs), raised).arg.type = "LIST"
  BY <1>1 DEF Raise, List, IsWork, WorkFields, ArgumentFields
<1>2. ASSUME NEW v, IsWork(v), NEW base, NEW count, NEW end
      PROVE  /\ BankList(v, base, count, end).arg.type = "LIST"
             /\ Strided(v, base, count, end).arg.type = "LIST"
  BY <1>1, <1>2 DEF BankList, Strided
<1>3. IsNumber(node.sub.base) => IsWork(decode_arg_reg(w, node.sub.base))
  BY RegBuilds DEF Builds
<1>4. IsPart(node.sub.base) => IsWork(decode_anynymous_immreg(w, node.sub.base))
  BY PartBuilds DEF Builds
<1>. QED
  BY <1>2, <1>3, <1>4 DEF decode_arg_fslist, decode_arg_fdlist, decode_arg_vlist, Then

\* decode_arg_mem
LEMMA MemShows ==
  ASSUME NEW w, IsWork(w), NEW node, IsPart(node.sub.base),
         Has(node, "regoff") => IsPart(node.sub.regoff), decode_arg_mem(w, node).ok
  PROVE  decode_arg_mem(w, node).arg.type = "MEMORY"
<1>1. ASSUME NEW v, IsWork(v), Memory(v, node).ok
      PROVE  Memory(v, node).arg.type = "MEMORY"
  <2>1. Memory(v, node) # Failed(v)
    BY <1>1, FailedKeeps
  <2>. QED
    BY <1>1, <2>1 DEF Memory, Raise, IsWork, WorkFields, ArgumentFields
<1>. DEFINE u == decode_anynymous_immreg(w, node.sub.base)
            b == [u EXCEPT !.arg.base = u.arg.reg]
            v == IF u.ok THEN Offset(b, node) ELSE u
<1>2. IsWork(u)
  BY PartBuilds DEF Builds
<1>. HIDE DEF u
<1>3. IsWork(b)
  BY <1>2 DEF IsWork, WorkFields, ArgumentFields
<1>. HIDE DEF b
<1>4. IsWork(v)
  BY <1>2, <1>3, OffsetBuilds DEF Builds
<1>. HIDE DEF v
<1>5. decode_arg_mem(w, node) = IF v.ok THEN Memory(v, node) ELSE v
  BY DEF decode_arg_mem, Then, u, b, v
<1>. QED
  BY <1>1, <1>4, <1>5

-----------------------------------------------------------------------------
(* What an operand says of the word.                                       *)

\* decode_any of what is encoded without a table.
LEMMA AnyEncoded ==
  ASSUME NEW node, node.enc # <<>>, node.table = <<>>
  PROVE  /\ decode_any(node).definition = "ENCODEDIN"
         /\ decode_any(node).value = Num(Raw(node))
BY DEF decode_any, Encoded

\* decode_arg_imm shows what the immediate stands for.
LEMMA ImmMeans ==
  ASSUME NEW w, IsWork(w), NEW node, IsExpanded(node), node.type \in {"IMM", "FPIMM"}
  PROVE  decode_arg_imm(w, node).arg.imm = Expansion(opcode, node)
<1>. DEFINE any == decode_any(node)
            raw == ReadEncodedin(opcode, node.enc)
<1>1. /\ node.enc # <<>> /\ node.table = <<>>
      /\ node.symbol \in {"aimm", "timm", "advimm", "vfpimm"}
  BY DEF IsExpanded
<1>2. any.definition = "ENCODEDIN" /\ any.value = Num(raw) /\ Raw(node) = raw
  BY <1>1, AnyEncoded DEF Raw
<1>3. decode_arg_imm(w, node).arg.imm = ImmediateRead(w, node, any, Raw(node))
  <2>1. ASSUME NEW imm, NEW lsb
        PROVE  [w EXCEPT !.arg.type = "IMMEDIATE", !.arg.imm = imm, !.lsb = lsb].arg.imm = imm
    BY DEF IsWork, WorkFields, ArgumentFields
  <2>. QED
    BY <2>1 DEF decode_arg_imm
<1>4. Expansion(opcode, node) =
        CASE node.symbol \in {"aimm", "plabela"} -> decode_a32_imm(raw)
          [] node.symbol = "timm"   -> decode_t32_imm(raw)
          [] node.symbol = "advimm" -> decode_advsimd_imm(raw)
          [] node.symbol = "vfpimm" -> Word32Of(decode_vfp_imm(Num(raw)).imm)
          [] OTHER -> Scaled(sign_extend64(raw, Len(node.enc) - 1), node.scale)
  BY DEF Expansion
<1>. HIDE DEF any, raw
<1>5. CASE node.symbol = "aimm"
  BY <1>2, <1>3, <1>4, <1>5 DEF ImmediateRead
<1>6. CASE node.symbol = "timm"
  BY <1>2, <1>3, <1>4, <1>6 DEF ImmediateRead
<1>7. CASE node.symbol = "advimm"
  BY <1>2, <1>3, <1>4, <1>7 DEF ImmediateRead
<1>8. CASE node.symbol = "vfpimm"
  BY <1>2, <1>3, <1>4, <1>8 DEF ImmediateRead
<1>. QED
  BY <1>1, <1>5, <1>6, <1>7, <1>8

\* decode_arg_label shows where a label is.
LEMMA LabelMeans ==
  ASSUME NEW w, IsWork(w), NEW node, IsExpanded(node), node.type \in {"LABEL", "ADDR"}
  PROVE  decode_arg_label(w, node).arg.imm = Expansion(opcode, node)
<1>. DEFINE raw == ReadEncodedin(opcode, node.enc)
            far == Scaled(sign_extend64(raw, Len(node.enc) - 1), node.scale)
<1>1. \/ node.symbol = "plabela"
      \/ node.symbol = "label" /\ "signpos" \in node.attrs /\ node.scale # 0
  BY DEF IsExpanded
<1>2. ASSUME NEW label
      PROVE  [w EXCEPT !.arg.type = "LABEL", !.arg.imm = label].arg.imm = label
  BY DEF IsWork, WorkFields, ArgumentFields
<1>3. Raw(node) = raw
  BY DEF Raw
<1>4. CASE node.symbol = "plabela"
  <2>1. Expansion(opcode, node) = decode_a32_imm(raw)
    BY <1>4 DEF Expansion
  <2>2. decode_arg_label(w, node) =
          [w EXCEPT !.arg.type = "LABEL", !.arg.imm = decode_a32_imm(raw)]
    BY <1>3, <1>4 DEF decode_arg_label
  <2>. QED
    BY <1>2, <2>1, <2>2
<1>5. CASE node.symbol = "label"
  <2>1. Expansion(opcode, node) = far
    BY <1>5 DEF Expansion
  <2>2. decode_arg_label(w, node) = [w EXCEPT !.arg.type = "LABEL", !.arg.imm = far]
    BY <1>1, <1>3, <1>5 DEF decode_arg_label
  <2>. QED
    BY <1>2, <2>1, <2>2
<1>. QED
  BY <1>1, <1>4, <1>5

\* A shift by an amount that is encoded.
IsAmount(shifter) ==
  /\ Has(shifter, "amount") /\ ~Has(shifter, "rs")
  /\ shifter.sub.amount.enc # <<>> /\ shifter.sub.amount.table = <<>>

\* decode_arg_shifter shows the type of the shift, and what its amount stands for.
LEMMA ShifterMeans ==
  ASSUME NEW w, IsWork(w), NEW node, IsAmount(node), decode_arg_shifter(w, node).ok
  PROVE  LET a == decode_arg_shifter(w, node).arg
         IN  <<a.shift, a.amount>> = ShiftShown(opcode, node)
<1>. DEFINE found  == decode_any(node.sub.shift)
            amount == decode_any(node.sub.amount)
            shift  == IF found.definition = "ENCODEDIN" THEN std_shift[found.value + 1]
                      ELSE found.value
<1>1. ASSUME NEW type, NEW n
      PROVE  LET a == Shifter(w, type, n, 0).arg IN <<a.shift, a.amount>> = <<type, n>>
  BY DEF Shifter, IsWork, WorkFields, ArgumentFields
<1>2. found.definition # "NONE" /\ decode_arg_shifter(w, node) = ShiftBy(w, node, shift)
  <2>1. ~Failed(w).ok
    BY FailedKeeps
  <2>. QED
    BY <2>1 DEF decode_arg_shifter, ShiftKind
<1>3. shift = ShiftType(opcode, node.sub.shift)
  BY <1>2 DEF decode_any, Encoded, ShiftType, Raw
<1>4. /\ amount.definition = "ENCODEDIN"
      /\ amount.value = Num(ReadEncodedin(opcode, node.sub.amount.enc))
  BY AnyEncoded DEF IsAmount, Raw
<1>5. ShiftBy(w, node, shift) = ShiftAmount(w, shift, amount)
  BY DEF IsAmount, ShiftBy
<1>6. ShiftShown(opcode, node) =
        IF amount.value # 0 THEN <<shift, amount.value>>
        ELSE CASE shift \in {"ASR", "LSR"} -> <<shift, 32>>
               [] shift = "ROR" -> <<"RRX", 0>>
               [] OTHER -> <<shift, 0>>
  BY <1>3, <1>4 DEF ShiftShown
<1>. HIDE DEF found, amount, shift
<1>7. CASE amount.value # 0
  BY <1>1, <1>2, <1>5, <1>6, <1>7 DEF ShiftAmount
<1>8. CASE amount.value = 0
  <2>1. ShiftBy(w, node, shift) = ZeroAmount(w, shift)
    BY <1>4, <1>5, <1>8 DEF ShiftAmount
  <2>2. CASE shift \in {"ASR", "LSR"}
    BY <1>1, <1>2, <1>6, <1>8, <2>1, <2>2 DEF ZeroAmount
  <2>3. CASE shift = "ROR"
    BY <1>1, <1>2, <1>6, <1>8, <2>1, <2>3 DEF ZeroAmount
  <2>4. CASE shift \notin {"ASR", "LSR", "ROR"}
    BY <1>1, <1>2, <1>6, <1>8, <2>1, <2>4 DEF ZeroAmount
  <2>. QED
    BY <2>2, <2>3, <2>4
<1>. QED
  BY <1>7, <1>8

\* decode_arg_regsh
LEMMA RegshMeans ==
  ASSUME NEW w, IsWork(w), NEW node, IsNumber(node.sub.reg), IsAmount(node.sub.shifter),
         decode_arg_regsh(w, node).ok
  PROVE  LET a == decode_arg_regsh(w, node).arg
         IN  <<a.shift, a.amount>> = ShiftShown(opcode, node.sub.shifter)
<1>. DEFINE v == decode_arg_reg(w, node.sub.reg)
<1>1. IsWork(v)
  BY RegBuilds DEF Builds
<1>2. decode_arg_regsh(w, node) = decode_arg_shifter(v, node.sub.shifter)
  BY DEF decode_arg_regsh, Then
<1>. HIDE DEF v
<1>. QED
  BY <1>1, <1>2, ShifterMeans

\* decode_arg_mem: a shift of the offset is not changed by what comes after it.
LEMMA MemMeans ==
  ASSUME NEW w, IsWork(w), NEW node, IsPart(node.sub.base), Has(node, "regoff"),
         IsPart(node.sub.regoff), node.sub.regoff.type = "REGOFFSH",
         IsAmount(node.sub.regoff.sub.shifter), decode_arg_mem(w, node).ok
  PROVE  LET a == decode_arg_mem(w, node).arg
         IN  <<a.shift, a.amount>> = ShiftShown(opcode, node.sub.regoff.sub.shifter)
<1>. DEFINE u == decode_anynymous_immreg(w, node.sub.base)
            b == [u EXCEPT !.arg.base = u.arg.reg]
            s == decode_arg_regsh(b, node.sub.regoff)
            o == IF s.arg.type = "IMMEDIATE" THEN [s EXCEPT !.arg.immoff = s.arg.imm]
                 ELSE [s EXCEPT !.arg.regoff = s.arg.reg]
            v == IF u.ok THEN Offset(b, node) ELSE u
            shown == ShiftShown(opcode, node.sub.regoff.sub.shifter)
<1>1. IsWork(u)
  BY PartBuilds DEF Builds
<1>2. v.ok /\ u.ok /\ decode_arg_mem(w, node) = Memory(v, node) /\ v = Offset(b, node)
  BY DEF decode_arg_mem, Then
<1>. HIDE DEF u
<1>3. IsWork(b)
  BY <1>1 DEF IsWork, WorkFields, ArgumentFields
<1>. HIDE DEF b
<1>4. Offset(b, node) = IF s.ok THEN o ELSE s
  <2>1. decode_anynymous_immreg(b, node.sub.regoff) = s
    BY DEF decode_anynymous_immreg
  <2>2. ~Failed(b).ok
    BY <1>3, FailedKeeps
  <2>. QED
    BY <1>2, <2>1, <2>2 DEF Offset, Then
<1>. HIDE DEF v
<1>5. IsWork(s)
  BY <1>3, RegshBuilds DEF IsPart, Builds
<1>6. s.ok /\ <<s.arg.shift, s.arg.amount>> = shown
  <2>1. s.ok
    BY <1>2, <1>4
  <2>. QED
    BY <1>3, <2>1, RegshMeans DEF IsPart
<1>. HIDE DEF s, shown
<1>7. IsWork(o) /\ <<o.arg.shift, o.arg.amount>> = shown
  BY <1>5, <1>6 DEF IsWork, WorkFields, ArgumentFields
<1>8. v = o
  BY <1>2, <1>4, <1>6
<1>. HIDE DEF o
<1>9. ASSUME NEW attrs, NEW raised
      PROVE  LET m == Raise([v EXCEPT !.arg.type = "MEMORY", !.arg.attrs = attrs], raised)
             IN  m.arg.shift = v.arg.shift /\ m.arg.amount = v.arg.amount
  BY <1>7, <1>8 DEF Raise, IsWork, WorkFields, ArgumentFields
<1>10. ~Failed(v).ok
  BY <1>7, <1>8, FailedKeeps
<1>11. Memory(v, node).arg.shift = v.arg.shift /\ Memory(v, node).arg.amount = v.arg.amount
  <2>. DEFINE raised == Only("read" \in node.attrs, {"may_load"})
                          \union Only("write" \in node.attrs, {"may_store"})
                          \union decode_mem_access(node.value)
              attrs  == Attrs(v.arg, MemoryAttrs, node)
                          \union Only(node.attrs \cap {"pre_indexed", "post_indexed"} # {},
                                     {"write_back"})
                          \union Only(Addend(node).value = 1, {"is_adding"})
  <2>1. Memory(v, node) =
          Raise([v EXCEPT !.arg.type = "MEMORY", !.arg.attrs = attrs], raised)
    BY <1>2, <1>10 DEF Memory
  <2>. HIDE DEF raised, attrs
  <2>2. LET m == Raise([v EXCEPT !.arg.type = "MEMORY", !.arg.attrs = attrs], raised)
        IN  m.arg.shift = v.arg.shift /\ m.arg.amount = v.arg.amount
    BY <1>9
  <2>. QED
    BY <2>1, <2>2, Zenon
<1>12. <<Memory(v, node).arg.shift, Memory(v, node).arg.amount>> = shown
  BY <1>7, <1>8, <1>11
<1>. QED
  BY <1>2, <1>12 DEF shown

\* A list is what was put into it.
LEMMA ListMeans ==
  ASSUME NEW w, IsWork(w), NEW registers, NEW attrs, NEW raised
  PROVE  Raise(List(w, registers, attrs), raised).arg.list = registers
BY DEF Raise, List, IsWork, WorkFields, ArgumentFields

\* decode_arg_slist: one register is in its bank.
LEMMA SlistMeans ==
  ASSUME NEW w, IsWork(w), NEW node
  PROVE  StaysInBank(decode_arg_slist(w, node).arg.list)
<1>1. ASSUME NEW reg
      PROVE  StaysInBank(<<reg>>)
  BY DEF StaysInBank
<1>. QED
  BY <1>1, ListMeans DEF decode_arg_slist

\* decode_arg_glist: the registers of a mask of sixteen bits are general ones, and ascend.
LEMMA GlistMeans ==
  ASSUME NEW w, IsWork(w), NEW node, IsNumber(node), Len(node.enc) <= 16
  PROVE  StaysInBank(decode_arg_glist(w, node).arg.list)
<1>. DEFINE raw       == Raw(node)
            count     == Cardinality(raw)
            registers == [n \in 1..count |-> R0 + OneBits(raw)[n]]
<1>1. raw \in FiniteWords
  BY RawType DEF IsNumber
<1>2. raw \subseteq 0..15
  <2>. DEFINE length == Len(node.enc)
  <2>1. length \in Nat /\ length <= 16
    BY DEF IsNumber
  <2>2. raw \subseteq 0..length - 1
    BY DEF Raw, ReadEncodedin, Low
  <2>. HIDE DEF length
  <2>3. 0..length - 1 \subseteq 0..15
    BY <2>1
  <2>. QED
    BY <2>2, <2>3
<1>3. decode_arg_glist(w, node).arg.list = registers
  BY ListMeans DEF decode_arg_glist
<1>. HIDE DEF raw
<1>4. count \in Nat
  BY <1>1, WordParts
<1>5. \A n \in 1..count : OneBits(raw)[n] \in 0..15
  BY <1>1, <1>2, OneBitsRank
<1>6. ASSUME NEW n \in 1..count, n > 1
      PROVE  OneBits(raw)[n - 1] < OneBits(raw)[n]
  <2>1. n # 1
    BY <1>6
  <2>. QED
    BY <1>1, <2>1, OneBitsAscend
<1>. HIDE DEF count
<1>. DEFINE Bit(n) == OneBits(raw)[n]
<1>7. \A n \in 1..count : Bit(n) \in 0..15 /\ registers[n] = 1 + Bit(n)
  BY <1>5 DEF R0
<1>8. \A n \in 1..count : n > 1 => Bit(n - 1) < Bit(n)
  BY <1>6
<1>9. DOMAIN registers = 1..count
  OBVIOUS
<1>. HIDE DEF Bit, registers
<1>10. \A n \in 1..count : registers[n] \in 1..16 /\ BankOf(registers[n]) = "R"
  <2>1. \A n \in 1..count : registers[n] \in 1..16
    BY <1>7
  <2>2. ASSUME NEW reg \in 1..16
        PROVE  BankOf(reg) = "R"
    <3>1. reg \notin 17..48 /\ reg \notin 49..80
      OBVIOUS
    <3>. QED
      BY <3>1, Zenon DEF BankOf
  <2>. QED
    BY <2>1, <2>2
<1>11. ASSUME NEW n \in 1..count, n > 1
       PROVE  registers[n] > registers[n - 1]
  <2>1. n - 1 \in 1..count
    BY <1>4, <1>11
  <2>2. Bit(n - 1) < Bit(n)
    BY <1>8, <1>11
  <2>3. /\ registers[n] = 1 + Bit(n) /\ registers[n - 1] = 1 + Bit(n - 1)
        /\ Bit(n) \in Int /\ Bit(n - 1) \in Int
    BY <1>7, <2>1
  <2>. QED
    BY <2>2, <2>3
<1>12. \A n \in 1..count : 1 \in 1..count
  BY <1>4
<1>13. StaysInBank(registers)
  BY <1>9, <1>10, <1>11, <1>12 DEF StaysInBank
<1>. QED
  BY <1>3, <1>13

\* The registers of a bank from one of them on.
LEMMA BankListMeans ==
  ASSUME NEW w, IsWork(w), NEW count \in Int, NEW end \in {D0, Q0},
         NEW base \in end - 32..end - 1
  PROVE  StaysInBank(BankList(w, base, count, end).arg.list)
<1>. DEFINE room      == IF base <= end /\ end - base < count THEN end - base ELSE count
            registers == [i \in 1..room |-> base + i - 1]
<1>1. BankList(w, base, count, end).arg.list = registers
  BY ListMeans DEF BankList
<1>2. end \in {49, 81}
  BY DEF D0, Q0
<1>3. room \in Int /\ room <= end - base
  BY <1>2
<1>. HIDE DEF room
<1>4. DOMAIN registers = 1..room /\ \A i \in 1..room : registers[i] = base + i - 1
  OBVIOUS
<1>. HIDE DEF registers
<1>5. \A i \in 1..room : registers[i] \in end - 32..end - 1
  BY <1>2, <1>3, <1>4
<1>6. \A reg \in end - 32..end - 1 : BankOf(reg) = IF end = 49 THEN "S" ELSE "D"
  BY <1>2 DEF BankOf
<1>7. \A i \in 1..room : 1 \in 1..room
  BY <1>3
<1>8. ASSUME NEW i \in 1..room, i > 1
      PROVE  registers[i] = registers[i - 1] + 1
  <2>1. i - 1 \in 1..room
    BY <1>3, <1>8
  <2>. QED
    BY <1>2, <1>4, <2>1
<1>9. \A i \in 1..room : /\ BankOf(registers[i]) = BankOf(registers[1])
                         /\ BankOf(registers[1]) # "R"
  BY <1>5, <1>6, <1>7
<1>10. StaysInBank(registers)
  BY <1>4, <1>8, <1>9 DEF StaysInBank
<1>. QED
  BY <1>1, <1>10

\* The register a word encodes is the one that is shown.
LEMMA RegisterReadMeans ==
  ASSUME NEW w, IsWork(w), NEW node, NEW reg \in Int, NEW bad
  PROVE  RegisterRead(w, node, reg, bad).arg.reg = reg
<1>. DEFINE u == Registered(w, node, reg)
            v == Raise(u, Only(bad, {"unpredictable"}))
            c == CheckPcSp(v, node)
<1>1. Builds(w, u) /\ u.arg.reg = reg
  BY DEF Registered, IsWork, Builds, WorkFields, ArgumentFields
<1>2. IsWork(u)
  BY <1>1 DEF Builds
<1>. HIDE DEF u
<1>3. Builds(u, v) /\ v.arg = u.arg
  BY <1>2, RaiseBuilds, RaiseKeeps DEF Only, OperandFlags
<1>4. IsWork(v)
  BY <1>3 DEF Builds
<1>. HIDE DEF v
<1>5. c.arg = v.arg
  BY <1>4, RaiseKeeps, FailedKeeps DEF CheckPcSp
<1>6. IsWork(c)
  BY <1>4, CheckPcSpBuilds DEF Builds
<1>. HIDE DEF c
<1>7. Then(c, Destructive).arg.reg = reg
  BY <1>1, <1>3, <1>5, <1>6, DestructiveKeeps DEF Then, Keeps
<1>. QED
  BY <1>7 DEF RegisterRead, Registered, u, v, c

\* The base of a list of S or D registers is one of them, the second one of a pair too.
LEMMA BaseMeans ==
  ASSUME NEW w, IsWork(w), NEW node, IsNumber(node), Len(node.enc) = 5,
         NEW end \in {D0, Q0}, node.symbol = IF end = D0 THEN "SIMD32" ELSE "SIMD64"
  PROVE  decode_arg_reg(w, node).arg.reg \in end - 32..end - 1
<1>. DEFINE raw   == Num(Raw(node))
            first == decode_register_value(raw, node.symbol)
            other == IF first \in BankEnds THEN first ELSE first + 1
<1>1. node.enc # <<>>
  OBVIOUS
<1>2. end \in {49, 81} /\ (end = D0 <=> end = 49)
  BY DEF D0, Q0
<1>3. raw \in 0..31
  <2>1. Raw(node) \in SUBSET Low(5)
    BY DEF Raw, ReadEncodedin
  <2>2. 2 ^ 5 = 32 /\ 5 \in Nat
    OBVIOUS
  <2>3. raw \in 0..2 ^ 5 - 1
    BY <2>1, <2>2, NumBound
  <2>. QED
    BY <2>2, <2>3
<1>. HIDE DEF raw
<1>4. first = end - 32 + raw
  BY <1>2, <1>3 DEF decode_register_value, S0, D0
<1>. HIDE DEF first
<1>5. first \in end - 32..end - 1 /\ other \in end - 32..end - 1
  BY <1>2, <1>3, <1>4 DEF BankEnds, D0, Q0, PC
<1>. HIDE DEF other
<1>6. first \in Int /\ other \in Int
  BY <1>2, <1>5
<1>7. EncodedRegister(w, node, first).arg.reg \in {first, other}
  <2>1. ASSUME NEW bad
        PROVE  /\ RegisterRead(w, node, first, bad).arg.reg = first
               /\ RegisterRead(w, node, other, bad).arg.reg = other
    BY <1>6, RegisterReadMeans
  <2>. QED
    BY <2>1, Zenon DEF EncodedRegister, other
<1>. QED
  BY <1>1, <1>5, <1>7 DEF decode_arg_reg, first, raw

\* decode_arg_fslist and decode_arg_fdlist stay in their bank.
LEMMA FlistMeans ==
  ASSUME NEW w, IsWork(w), NEW node, IsNumber(node.sub.base), IsNumber(node.sub.count),
         Len(node.sub.base.enc) = 5
  PROVE  /\ node.sub.base.symbol = "SIMD32" /\ decode_arg_fslist(w, node).ok =>
              StaysInBank(decode_arg_fslist(w, node).arg.list)
         /\ node.sub.base.symbol = "SIMD64" /\ decode_arg_fdlist(w, node).ok =>
              StaysInBank(decode_arg_fdlist(w, node).arg.list)
<1>. DEFINE v     == decode_arg_reg(w, node.sub.base)
            count == decode_any(node.sub.count).value
<1>1. IsWork(v)
  BY RegBuilds DEF Builds
<1>2. count \in Int /\ count \div 2 \in Int
  BY DecodeAnyType
<1>3. /\ node.sub.base.symbol = "SIMD32" => v.arg.reg \in D0 - 32..D0 - 1
      /\ node.sub.base.symbol = "SIMD64" => v.arg.reg \in Q0 - 32..Q0 - 1
  <2>1. D0 # Q0
    BY DEF D0, Q0
  <2>. QED
    BY <2>1, BaseMeans
<1>4. /\ decode_arg_fslist(w, node).ok =>
           decode_arg_fslist(w, node) = BankList(v, v.arg.reg, count, D0)
      /\ decode_arg_fdlist(w, node).ok =>
           decode_arg_fdlist(w, node) = BankList(v, v.arg.reg, count \div 2, Q0)
  BY DEF decode_arg_fslist, decode_arg_fdlist, Then
<1>. HIDE DEF v, count
<1>. QED
  BY <1>1, <1>2, <1>3, <1>4, BankListMeans

\* What db.h says of a list's node.
IsListed(node) ==
  LET Starts(symbol) == node.sub.base.symbol = symbol /\ Len(node.sub.base.enc) = 5
  IN  /\ node.type = "GLIST"  => Len(node.enc) <= 16
      /\ node.type = "FSLIST" => Starts("SIMD32")
      /\ node.type = "FDLIST" => Starts("SIMD64")

\* decode_node: what is accepted means what its bits mean.
LEMMA NodeMeans ==
  ASSUME NEW w, IsWork(w), NEW node, IsNode(node), IsListed(node), decode_node(w, node).ok
  PROVE  Means(decode_node(w, node).arg, opcode, node)
<1>. DEFINE v == decode_node(w, node)
<1>1. ASSUME IsExpanded(node)
      PROVE  v.arg.imm = Expansion(opcode, node)
  <2>1. CASE node.type \in {"IMM", "FPIMM"}
    BY <1>1, <2>1, ImmMeans DEF decode_node
  <2>2. CASE node.type \in {"LABEL", "ADDR"}
    BY <1>1, <2>2, LabelMeans DEF decode_node
  <2>. QED
    BY <1>1, <2>1, <2>2 DEF IsExpanded
<1>2. ASSUME HasAmount(node)
      PROVE  <<v.arg.shift, v.arg.amount>> = ShiftShown(opcode, ShifterOf(node))
  <2>1. IsAmount(ShifterOf(node))
    BY <1>2 DEF HasAmount, IsAmount
  <2>2. CASE node.type = "REGSH"
    <3>1. v = decode_arg_regsh(w, node) /\ ShifterOf(node) = node.sub.shifter
      BY <2>2 DEF decode_node, ShifterOf
    <3>2. IsNumber(node.sub.reg)
      BY <2>2 DEF IsNode
    <3>. HIDE DEF v
    <3>. QED
      BY <2>1, <3>1, <3>2, RegshMeans DEF v
  <2>3. CASE /\ node.type \in {"LM", "MEM"} /\ Has(node, "regoff")
             /\ node.sub.regoff.type = "REGOFFSH"
    <3>1. v = decode_arg_mem(w, node) /\ ShifterOf(node) = node.sub.regoff.sub.shifter
      BY <2>3 DEF decode_node, ShifterOf
    <3>2. IsPart(node.sub.base) /\ IsPart(node.sub.regoff)
      BY <2>3 DEF IsNode
    <3>. HIDE DEF v
    <3>. QED
      BY <2>1, <2>3, <3>1, <3>2, MemMeans DEF v
  <2>. QED
    BY <1>2, <2>2, <2>3 DEF HasAmount
<1>3. ASSUME node.type \in {"GLIST", "SLIST", "FSLIST", "FDLIST"}
      PROVE  StaysInBank(v.arg.list)
  <2>1. CASE node.type = "GLIST"
    BY <2>1, GlistMeans DEF decode_node, IsNode, IsListed
  <2>2. CASE node.type = "SLIST"
    BY <2>2, SlistMeans DEF decode_node
  <2>3. CASE node.type \in {"FSLIST", "FDLIST"}
    BY <2>3, FlistMeans DEF decode_node, IsNode, IsListed
  <2>. QED
    BY <1>3, <2>1, <2>2, <2>3
<1>. HIDE DEF v
<1>4. Means(v.arg, opcode, node)
  BY <1>1, <1>2, <1>3 DEF Means
<1>. QED
  BY <1>4 DEF v

-----------------------------------------------------------------------------
(* decode_node: what is accepted shows its node, and a PC that is written. *)

\* An argument is that of its node.
LEMMA NodeShows ==
  ASSUME NEW w, IsWork(w), w.arg.type = "NONE", w.arg.reg # PC,
         "write_back" \notin w.arg.attrs, NEW node, IsNode(node), decode_node(w, node).ok
  PROVE  /\ decode_node(w, node).arg.type = ArgumentOf(node.type)
         /\ decode_node(w, node).arg.type = "REGISTER" => PcBranches(decode_node(w, node))
<1>. USE DEF IsNode, ArgumentOf
<1>1. CASE node.type \in {"CSPACE", "PSPACE", "COND", "ENDIAN", "SYNC_OP", "BARRIER"}
  <2>0. decode_node(w, node) = decode_arg_enum(w, node)
    BY <1>1 DEF decode_node
  <2>1. decode_node(w, node).arg.type = EnumTypes[node.type]
    BY <2>0, EnumShows
  <2>2. EnumTypes[node.type] = ArgumentOf(node.type)
    BY <1>1 DEF EnumTypes
  <2>3. ArgumentOf(node.type) # "REGISTER"
    BY <1>1
  <2>. QED
    BY <2>1, <2>2, <2>3
<1>2. CASE node.type \in {"BNKDREG", "SPECREG"}
  BY <1>2, SysregShows DEF decode_node, EnumTypes, IsRegister
<1>3. CASE node.type \in {"REG", "VREG", "EREG", "WREG", "REGSH"}
  BY <1>3, RegShows, VregShows, EregShows, WregShows, RegshShows DEF decode_node, IsRegister
<1>4. CASE node.type \in {"GLIST", "SLIST", "FSLIST", "FDLIST", "VLIST", "ELIST"}
  BY <1>4, GlistShows, FlistShows DEF decode_node
<1>5. CASE node.type \in {"IMM", "FPIMM", "LABEL", "ADDR", "IFLAGS"}
  BY <1>5, ImmShows DEF decode_node
<1>6. CASE node.type \in {"LM", "MEM"}
  BY <1>6, MemShows DEF decode_node
<1>7. CASE node.type \in {"SZ", "XYZ"}
  BY <1>7 DEF decode_node
<1>8. CASE node.type \notin {"SZ", "XYZ", "CSPACE", "PSPACE", "COND", "ENDIAN", "SYNC_OP",
                            "BARRIER", "BNKDREG", "SPECREG", "REG", "VREG", "EREG", "WREG",
                            "REGSH", "GLIST", "SLIST", "FSLIST", "FDLIST", "VLIST", "ELIST",
                            "IMM", "FPIMM", "LABEL", "ADDR", "LM", "MEM", "IFLAGS"}
  BY <1>8, FailedKeeps DEF decode_node
<1>. QED
  BY <1>1, <1>2, <1>3, <1>4, <1>5, <1>6, <1>7, <1>8

\* The argument decode_node starts from.
LEMMA FreshShows ==
  ASSUME NEW state, NEW mnemonic, NEW old \in Int, NEW raised
  PROVE  LET w == Fresh(state, mnemonic, old, raised)
         IN  w.arg.type = "NONE" /\ w.arg.reg # PC /\ "write_back" \notin w.arg.attrs
<1>. DEFINE blank == [BlankArgument EXCEPT !.attrs = {"is_representable"}, !.token = old]
<1>1. blank.type = "NONE" /\ blank.reg = 0 /\ blank.attrs = {"is_representable"}
  BY DEF BlankArgument
<1>2. Fresh(state, mnemonic, old, raised).arg = blank
  BY DEF Fresh
<1>. HIDE DEF blank
<1>. QED
  BY <1>1, <1>2 DEF PC
=============================================================================
