------------------------ MODULE AArch64OperandProofs ------------------------
(***************************************************************************)
(* What the operand decoders of AArch64Operands do to the record they work *)
(* on, and when they fail, for every node that is what db.h says of one    *)
(* and every word: one lemma per handler, in the order of the handlers.    *)
(***************************************************************************)
EXTENDS AArch64Invariants, ArmBitsProofs

-----------------------------------------------------------------------------
(* The helpers of ArmNodes.                                                *)

\* Handlers follow each other.
LEMMA BuildsTrans ==
  ASSUME NEW u, NEW v, NEW w, Builds(u, v), Builds(v, w)
  PROVE  Builds(u, w)
BY DEF Builds

\* A handler that does nothing.
LEMMA BuildsSame ==
  ASSUME NEW w, IsWork(w)
  PROVE  Builds(w, w)
BY DEF Builds

\* A handler that fails.
LEMMA FailedBuilds ==
  ASSUME NEW w, IsWork(w)
  PROVE  Builds(w, Failed(w)) /\ ~Failed(w).ok /\ Failed(w).arg = w.arg
BY DEF IsWork, Builds, Failed, WorkFields

\* A handler that raises flags.
LEMMA RaiseBuilds ==
  ASSUME NEW w, IsWork(w), NEW raised, raised \subseteq OperandFlags
  PROVE  /\ Builds(w, Raise(w, raised)) /\ Raise(w, raised).ok = w.ok
         /\ Raise(w, raised).arg = w.arg /\ raised \subseteq Raise(w, raised).flags
BY DEF FlagNames, OperandFlags, IsWork, Builds, Raise, WorkFields

\* decode_any finds what the node of a part stands for.
LEMMA FindsIsAny ==
  ASSUME NEW node
  PROVE  decode_any(node).definition # "NONE" <=> Finds(opcode, node)
<1>1. CASE node.enc = <<>>
  BY <1>1 DEF decode_any, Finds
<1>2. CASE node.enc # <<>>
  <2>1. Num(Raw(node)) = FieldOf(opcode, node)
    BY DEF Raw, FieldOf
  <2>2. decode_any(node) = Encoded(node, FieldOf(opcode, node))
    BY <1>2, <2>1 DEF decode_any
  <2>3. Encoded(node, FieldOf(opcode, node)).definition # "NONE" <=>
          node.table = <<>> \/ FieldOf(opcode, node) \in DOMAIN node.table
    BY DEF Encoded
  <2>. QED
    BY <1>2, <2>2, <2>3 DEF Finds
<1>. QED
  BY <1>1, <1>2

\* add_index, of an element whose index is in its table or not.
LEMMA WithIndexBuilds ==
  ASSUME NEW w, IsWork(w), w.ok, NEW idx
  PROVE  /\ Builds(w, WithIndex(w, idx))
         /\ WithIndex(w, idx).ok <=> idx.definition # "NONE"
         /\ WithIndex(w, idx).arg.type = w.arg.type /\ WithIndex(w, idx).arg.reg = w.arg.reg
<1>. DEFINE v == [w EXCEPT !.arg.index = idx.value, !.arg.attrs = @ \union {"has_index"}]
<1>1. Builds(w, v) /\ v.ok = w.ok /\ v.arg.type = w.arg.type /\ v.arg.reg = w.arg.reg
  BY DEF IsWork, Builds, WorkFields, ArgumentFields
<1>. HIDE DEF v
<1>2. WithIndex(w, idx) = IF idx.definition = "NONE" THEN Failed(w) ELSE v
  BY DEF WithIndex, v
<1>. QED
  BY <1>1, <1>2, FailedBuilds

-----------------------------------------------------------------------------
(* Registers.                                                              *)

\* A register is in the slot, and the last one written is remembered.
LEMMA RegisterReadBuilds ==
  ASSUME NEW w, IsWork(w), NEW node, NEW reg
  PROVE  LET v == RegisterRead(w, node, reg)
         IN  Builds(w, v) /\ v.ok = w.ok /\ v.arg.type = "REGISTER" /\ v.arg.reg = reg
<1>. DEFINE dst == IF "write" \in node.attrs THEN reg ELSE w.dst_reg
            attrs == Attrs(w.arg, {"read", "write"}, node)
            raised == Only("read" \in node.attrs /\ dst = reg, {"destructive"})
            u == [w EXCEPT !.arg.type = "REGISTER", !.arg.reg = reg, !.arg.attrs = attrs,
                           !.has_reg = TRUE, !.dst_reg = dst]
<1>. HIDE DEF dst, attrs
<1>1. Builds(w, u) /\ u.ok = w.ok /\ u.arg.type = "REGISTER" /\ u.arg.reg = reg
  BY DEF IsWork, Builds, WorkFields, ArgumentFields
<1>2. raised \subseteq OperandFlags
  BY DEF Only, OperandFlags
<1>. HIDE DEF u, raised
<1>3. /\ Builds(w, Raise(u, raised)) /\ Raise(u, raised).ok = u.ok
      /\ Raise(u, raised).arg = u.arg
  BY <1>1, <1>2, RaiseBuilds, BuildsTrans DEF Builds
<1>4. RegisterRead(w, node, reg) = Raise(u, raised)
  BY DEF RegisterRead, u, raised, dst, attrs
<1>. QED
  BY <1>1, <1>3, <1>4

\* The register of an encoded node; a bad pair is unpredictable.
LEMMA EncodedRegisterBuilds ==
  ASSUME NEW w, IsWork(w), NEW node, NEW first
  PROVE  LET v == EncodedRegister(w, node, first)
         IN  /\ Builds(w, v) /\ v.ok = w.ok /\ v.arg.type = "REGISTER"
             /\ v.arg.reg = first + NextTo(node, first) + StackPointer(opcode, node)
             /\ BadPair(w, node, first) => "unpredictable" \in v.flags
<1>. DEFINE reg == first + NextTo(node, first) + StackPointer(opcode, node)
            raised == Only(BadPair(w, node, first), {"unpredictable"})
            u == RegisterRead(w, node, reg)
<1>. HIDE DEF reg
<1>1. Builds(w, u) /\ u.ok = w.ok /\ u.arg.type = "REGISTER" /\ u.arg.reg = reg
  BY RegisterReadBuilds
<1>2. /\ raised \subseteq OperandFlags
      /\ BadPair(w, node, first) => "unpredictable" \in raised
  BY DEF Only, OperandFlags
<1>. HIDE DEF u, raised
<1>3. /\ Builds(w, Raise(u, raised)) /\ Raise(u, raised).ok = u.ok
      /\ Raise(u, raised).arg = u.arg /\ raised \subseteq Raise(u, raised).flags
  BY <1>1, <1>2, RaiseBuilds, BuildsTrans DEF Builds
<1>4. EncodedRegister(w, node, first) = Raise(u, raised)
  BY DEF EncodedRegister, u, raised, reg, NextTo, StackPointer, Raw
<1>. QED
  BY <1>1, <1>2, <1>3, <1>4 DEF reg

\* decode_arg_reg never fails.
LEMMA RegBuilds ==
  ASSUME NEW w, IsWork(w), NEW node
  PROVE  LET v == decode_arg_reg(w, node)
         IN  Builds(w, v) /\ v.ok = w.ok /\ v.arg.type = "REGISTER"
BY RegisterReadBuilds, EncodedRegisterBuilds DEF decode_arg_reg

\* The register of an encoded node, and what is said of half a pair.
LEMMA RegShows ==
  ASSUME NEW w, IsWork(w), NEW node, IsEncoded(node)
  PROVE  LET v == decode_arg_reg(w, node)
         IN  Shows(v.arg, v.flags, opcode, node)
<1>. DEFINE first == Encodes(opcode, node)
            v == EncodedRegister(w, node, first)
<1>1. decode_arg_reg(w, node) = v
  BY DEF decode_arg_reg, IsEncoded, Encodes, Raw
<1>2. BadPair(w, node, first) <=> BreaksPair(opcode, node)
  BY DEF BadPair, BreaksPair, Raw
<1>. HIDE DEF first
<1>3. /\ v.arg.type = "REGISTER"
      /\ v.arg.reg = first + NextTo(node, first) + StackPointer(opcode, node)
      /\ BadPair(w, node, first) => "unpredictable" \in v.flags
  BY EncodedRegisterBuilds
<1>. HIDE DEF v
<1>. QED
  BY <1>1, <1>2, <1>3 DEF Shows, ArgumentOf, IsEncoded, first

\* decode_arg_vreg
LEMMA VregBuilds ==
  ASSUME NEW w, IsWork(w), w.ok, NEW node
  PROVE  LET v == decode_arg_vreg(w, node)
         IN  /\ Builds(w, v) /\ v.ok /\ v.arg.type = "REGISTER"
             /\ v.arg.reg = decode_arg_reg(w, node.sub.reg).arg.reg
<1>. DEFINE r == decode_arg_reg(w, node.sub.reg)
            u == [r EXCEPT !.arg.attrs = @ \union {"is_vector"}]
<1>1. Builds(w, r) /\ r.ok = w.ok /\ r.arg.type = "REGISTER"
  BY RegBuilds
<1>. HIDE DEF r
<1>2. /\ Builds(r, u) /\ u.ok = r.ok /\ u.arg.type = r.arg.type
      /\ u.arg.reg = r.arg.reg
  BY <1>1 DEF IsWork, Builds, WorkFields, ArgumentFields
<1>3. decode_arg_vreg(w, node) = IF r.ok THEN Raise(u, {"vector"}) ELSE r
  BY DEF decode_arg_vreg, Then, r
<1>. HIDE DEF u
<1>4. /\ Builds(u, Raise(u, {"vector"})) /\ Raise(u, {"vector"}).ok = u.ok
      /\ Raise(u, {"vector"}).arg = u.arg
  BY <1>2, RaiseBuilds DEF Builds, OperandFlags
<1>5. Builds(w, Raise(u, {"vector"}))
  BY <1>1, <1>2, <1>4, BuildsTrans
<1>. QED
  BY <1>1, <1>2, <1>3, <1>4, <1>5 DEF r

\* decode_arg_ereg: the index may be in no table.
LEMMA EregBuilds ==
  ASSUME NEW w, IsWork(w), w.ok, NEW node
  PROVE  LET v == decode_arg_ereg(w, node)
         IN  /\ Builds(w, v) /\ (v.ok <=> Finds(opcode, node.sub.idx))
             /\ v.arg.type = "REGISTER"
             /\ v.arg.reg = decode_arg_reg(w, node.sub.reg).arg.reg
<1>. DEFINE r == decode_arg_reg(w, node.sub.reg)
            idx == decode_any(node.sub.idx)
<1>1. Builds(w, r) /\ r.ok = w.ok /\ r.arg.type = "REGISTER"
  BY RegBuilds
<1>2. idx.definition # "NONE" <=> Finds(opcode, node.sub.idx)
  BY FindsIsAny
<1>. HIDE DEF r, idx
<1>3. decode_arg_ereg(w, node) = IF r.ok THEN WithIndex(r, idx) ELSE r
  BY DEF decode_arg_ereg, Then, r, idx
<1>4. IsWork(r) /\ r.ok
  BY <1>1 DEF Builds
<1>5. /\ Builds(r, WithIndex(r, idx)) /\ (WithIndex(r, idx).ok <=> idx.definition # "NONE")
      /\ WithIndex(r, idx).arg.type = r.arg.type /\ WithIndex(r, idx).arg.reg = r.arg.reg
  BY <1>4, WithIndexBuilds
<1>6. Builds(w, WithIndex(r, idx))
  BY <1>1, <1>5, BuildsTrans
<1>. QED
  BY <1>1, <1>2, <1>3, <1>4, <1>5, <1>6 DEF r

\* decode_arg_preg
LEMMA PregBuilds ==
  ASSUME NEW w, IsWork(w), w.ok, NEW node
  PROVE  LET v == decode_arg_preg(w, node)
         IN  Builds(w, v) /\ v.ok /\ v.arg.type = "REGISTER"
<1>. DEFINE r == decode_arg_reg(w, node)
            u == [r EXCEPT !.arg.attrs = @ \union (node.attrs \cap {"zeroing", "merging"})]
<1>1. Builds(w, r) /\ r.ok = w.ok /\ r.arg.type = "REGISTER"
  BY RegBuilds
<1>. HIDE DEF r
<1>2. Builds(r, u) /\ u.ok = r.ok /\ u.arg.type = r.arg.type
  BY <1>1 DEF IsWork, Builds, WorkFields, ArgumentFields
<1>3. decode_arg_preg(w, node) = IF r.ok THEN Raise(u, {"predicated"}) ELSE r
  BY DEF decode_arg_preg, Then, r
<1>. HIDE DEF u
<1>4. /\ Builds(u, Raise(u, {"predicated"})) /\ Raise(u, {"predicated"}).ok = u.ok
      /\ Raise(u, {"predicated"}).arg = u.arg
  BY <1>2, RaiseBuilds DEF Builds, OperandFlags
<1>5. Builds(w, Raise(u, {"predicated"}))
  BY <1>1, <1>2, <1>4, BuildsTrans
<1>. QED
  BY <1>1, <1>2, <1>3, <1>4, <1>5
-----------------------------------------------------------------------------
(* Shifts, immediates and labels.                                          *)

\* A shift leaves the rest of the argument alone.
SameKind(w, v) ==
  /\ v.arg.type = w.arg.type /\ v.arg.reg = w.arg.reg /\ v.arg.list = w.arg.list
  /\ v.arg.token = w.arg.token

\* set_shifter
LEMMA ShifterBuilds ==
  ASSUME NEW w, IsWork(w), NEW shift, NEW amount, NEW attrs
  PROVE  LET v == Shifter(w, shift, amount, attrs)
         IN  Builds(w, v) /\ v.ok = w.ok /\ SameKind(w, v)
BY DEF Shifter, IsWork, Builds, SameKind, WorkFields, ArgumentFields

\* A shifter that is set before the handler fails.
LEMMA FailedShifter ==
  ASSUME NEW w, IsWork(w), NEW shift, NEW amount, NEW attrs
  PROVE  LET v == Failed(Shifter(w, shift, amount, attrs))
         IN  Builds(w, v) /\ ~v.ok /\ SameKind(w, v)
<1>. DEFINE u == Shifter(w, shift, amount, attrs)
<1>1. Builds(w, u) /\ SameKind(w, u)
  BY ShifterBuilds
<1>. HIDE DEF u
<1>2. Builds(u, Failed(u)) /\ ~Failed(u).ok /\ Failed(u).arg = u.arg
  BY <1>1, FailedBuilds DEF Builds
<1>3. Builds(w, Failed(u))
  BY <1>1, <1>2, BuildsTrans
<1>. QED
  BY <1>1, <1>2, <1>3 DEF SameKind, u

\* decode_arg_shifter fails if the shift or the amount is in no table.
LEMMA ShiftBuilds ==
  ASSUME NEW w, IsWork(w), w.ok, NEW node
  PROVE  LET v == decode_arg_shifter(w, node)
         IN  Builds(w, v) /\ (v.ok <=> ShifterFits(opcode, node)) /\ SameKind(w, v)
<1>1. ASSUME NEW shift, NEW any, NEW scale
      PROVE  LET v == ShiftAmount(w, shift, any, scale)
             IN  Builds(w, v) /\ (v.ok <=> any.definition # "NONE") /\ SameKind(w, v)
  BY ShifterBuilds, FailedShifter DEF ShiftAmount, ByAmount
<1>2. CASE node.enc = <<>>
  <2>. DEFINE shift == decode_any(node.sub.shift)
              v == ShiftKind(w, node, shift)
  <2>1. shift.definition # "NONE" <=> Finds(opcode, node.sub.shift)
    BY FindsIsAny
  <2>2. decode_any(node.sub.amount).definition # "NONE" <=> Finds(opcode, node.sub.amount)
    BY FindsIsAny
  <2>3. decode_arg_shifter(w, node) = v
    BY <1>2 DEF decode_arg_shifter
  <2>. HIDE DEF shift
  <2>4. CASE shift.definition = "NONE"
    BY <1>2, <2>1, <2>3, <2>4, FailedShifter DEF ShiftKind, ShifterFits
  <2>5. CASE shift.definition # "NONE" /\ ~Has(node, "amount")
    BY <1>2, <2>1, <2>3, <2>5, ShifterBuilds DEF ShiftKind, ShifterFits
  <2>6. CASE shift.definition # "NONE" /\ Has(node, "amount")
    BY <1>1, <1>2, <2>1, <2>2, <2>3, <2>6 DEF ShiftKind, ShifterFits
  <2>. QED
    BY <2>4, <2>5, <2>6
<1>3. CASE node.enc # <<>>
  <2>. DEFINE raw == Num(Raw(node))
  <2>1. raw = FieldOf(opcode, node)
    BY DEF Raw, FieldOf
  <2>2. decode_arg_shifter(w, node) = TabledShift(w, node, raw)
    BY <1>3 DEF decode_arg_shifter
  <2>3. ShifterFits(opcode, node) <=> raw \in DOMAIN node.table
    BY <1>3, <2>1 DEF ShifterFits
  <2>. HIDE DEF raw
  <2>4. LET v == TabledShift(w, node, raw)
        IN  Builds(w, v) /\ (v.ok <=> raw \in DOMAIN node.table) /\ SameKind(w, v)
    BY ShifterBuilds, FailedShifter DEF TabledShift
  <2>. QED
    BY <2>2, <2>3, <2>4
<1>. QED
  BY <1>2, <1>3

\* A handler and then a shifter.
LEMMA ThenShift ==
  ASSUME NEW w, NEW v, Builds(w, v), v.ok, NEW node
  PROVE  LET x == decode_arg_shifter(v, node)
         IN  Builds(w, x) /\ (x.ok <=> ShifterFits(opcode, node)) /\ SameKind(v, x)
BY ShiftBuilds, BuildsTrans DEF Builds

\* decode_arg_regsh
LEMMA RegshBuilds ==
  ASSUME NEW w, IsWork(w), w.ok, NEW node
  PROVE  LET v == decode_arg_regsh(w, node)
         IN  /\ Builds(w, v) /\ (v.ok <=> ShifterFits(opcode, node.sub.shifter))
             /\ v.arg.type = "REGISTER"
<1>. DEFINE r == decode_arg_reg(w, node.sub.reg)
<1>1. Builds(w, r) /\ r.ok /\ r.arg.type = "REGISTER"
  BY RegBuilds
<1>2. decode_arg_regsh(w, node) = decode_arg_shifter(r, node.sub.shifter)
  BY <1>1 DEF decode_arg_regsh, Then
<1>. HIDE DEF r
<1>. QED
  BY <1>1, <1>2, ThenShift DEF SameKind

\* decode_arg_vregsh
LEMMA VregshBuilds ==
  ASSUME NEW w, IsWork(w), w.ok, NEW node
  PROVE  LET v == decode_arg_vregsh(w, node)
         IN  /\ Builds(w, v) /\ (v.ok <=> ShifterFits(opcode, node.sub.shifter))
             /\ v.arg.type = "REGISTER"
<1>. DEFINE r == decode_arg_vreg(w, node.sub.reg)
<1>1. Builds(w, r) /\ r.ok /\ r.arg.type = "REGISTER"
  BY VregBuilds
<1>2. decode_arg_vregsh(w, node) = decode_arg_shifter(r, node.sub.shifter)
  BY <1>1 DEF decode_arg_vregsh, Then
<1>. HIDE DEF r
<1>. QED
  BY <1>1, <1>2, ThenShift DEF SameKind

\* decode_arg_imm takes whatever the field stands for.
LEMMA ImmBuilds ==
  ASSUME NEW w, IsWork(w), w.ok, NEW node
  PROVE  LET v == decode_arg_imm(w, node)
         IN  Builds(w, v) /\ v.ok /\ v.arg.type = "IMMEDIATE"
<1>1. ASSUME NEW any, NEW imm
      PROVE  LET v == Immediate(w, node, any, imm)
             IN  Builds(w, v) /\ v.ok = w.ok /\ v.arg.type = "IMMEDIATE"
  BY DEF Immediate, IsWork, Builds, WorkFields, ArgumentFields
<1>. QED
  BY <1>1 DEF decode_arg_imm

\* decode_arg_immsh
LEMMA ImmshBuilds ==
  ASSUME NEW w, IsWork(w), w.ok, NEW node
  PROVE  LET v == decode_arg_immsh(w, node)
         IN  /\ Builds(w, v) /\ (v.ok <=> ShifterFits(opcode, node.sub.shifter))
             /\ v.arg.type = "IMMEDIATE"
<1>. DEFINE r == decode_arg_imm(w, node.sub.imm)
<1>1. Builds(w, r) /\ r.ok /\ r.arg.type = "IMMEDIATE"
  BY ImmBuilds
<1>2. decode_arg_immsh(w, node) = decode_arg_shifter(r, node.sub.shifter)
  BY <1>1 DEF decode_arg_immsh, Then
<1>. HIDE DEF r
<1>. QED
  BY <1>1, <1>2, ThenShift DEF SameKind

\* decode_arg_label
LEMMA LabelBuilds ==
  ASSUME NEW w, IsWork(w), w.ok, NEW node
  PROVE  LET v == decode_arg_label(w, node)
         IN  Builds(w, v) /\ v.ok /\ v.arg.type = "LABEL"
<1>. DEFINE r == decode_arg_imm(w, node)
<1>1. Builds(w, r) /\ r.ok
  BY ImmBuilds
<1>2. decode_arg_label(w, node) = [r EXCEPT !.arg.type = "LABEL"]
  BY DEF decode_arg_label
<1>. HIDE DEF r
<1>3. LET v == [r EXCEPT !.arg.type = "LABEL"]
      IN  Builds(r, v) /\ v.ok = r.ok /\ v.arg.type = "LABEL"
  BY <1>1 DEF IsWork, Builds, WorkFields, ArgumentFields
<1>. QED
  BY <1>1, <1>2, <1>3, BuildsTrans

\* A power is at least as large as one of a smaller exponent.
LEMMA PowerGrows ==
  ASSUME NEW m \in Nat, NEW n \in Nat, m <= n
  PROVE  2 ^ m <= 2 ^ n
<1>. DEFINE T == {k \in Nat : ~(2 ^ m <= 2 ^ (m + k))}
<1>1. T = {}
  <2>. SUFFICES ASSUME T # {} PROVE FALSE
    OBVIOUS
  <2>1. PICK k \in T : \A j \in T : k <= j
    BY LeastNat
  <2>2. ~(2 ^ m <= 2 ^ (m + k))
    BY <2>1, Zenon
  <2>3. 2 ^ m \in Nat /\ 2 ^ (m + k) \in Nat
    BY <2>1, PowerType
  <2>4. k # 0
    <3>. SUFFICES ASSUME k = 0 PROVE FALSE
      OBVIOUS
    <3>1. m + k = m
      OBVIOUS
    <3>2. 2 ^ (m + k) = 2 ^ m
      BY <3>1
    <3>. QED
      BY <2>1, <2>3, <3>2
  <2>5. k - 1 \in Nat /\ k - 1 \notin T /\ m + (k - 1) \in Nat /\ m + k = (m + (k - 1)) + 1
    BY <2>1, <2>4
  <2>6. 2 ^ m <= 2 ^ (m + (k - 1)) /\ 2 ^ (m + (k - 1)) \in Nat
    BY <2>5, PowerType
  <2>7. 2 ^ (m + k) = 2 * 2 ^ (m + (k - 1))
    <3>. DEFINE d == m + (k - 1)
    <3>1. d \in Nat /\ m + k = d + 1
      BY <2>5
    <3>. HIDE DEF d
    <3>2. 2 ^ (d + 1) = 2 * 2 ^ d
      BY <3>1, PowerStep
    <3>. QED
      BY <3>1, <3>2 DEF d
  <2>8. ASSUME NEW p \in Nat, NEW q \in Nat, NEW r \in Nat, p <= q, r = 2 * q
        PROVE  p <= r
    BY <2>8
  <2>9. 2 ^ m <= 2 ^ (m + k)
    BY <2>3, <2>6, <2>7, <2>8
  <2>. QED
    BY <2>9, <2>2
<1>2. \A k \in Nat : 2 ^ m <= 2 ^ (m + k)
  BY <1>1, Zenon
<1>3. n - m \in Nat /\ m + (n - m) = n
  OBVIOUS
<1>. DEFINE d == n - m
<1>4. 2 ^ m <= 2 ^ (m + d)
  BY <1>2, <1>3
<1>. QED
  BY <1>3, <1>4

\* A small number survives the way into a word and back.
LEMMA SmallWord ==
  ASSUME NEW n \in 0..255
  PROVE  UInt(Word32Of(n)) = n
<1>. DEFINE v == Bits(n, 31)
<1>1. Word32Of(n) = v
  BY DEF Word32Of
<1>2. \A b \in Low(31) : b \in v <=> (n \div 2 ^ b) % 2 = 1
  BY DEF Bits
<1>3. \A b \in Low(31) : b \in v => b <= 7
  <2>1. ASSUME NEW b \in Low(31), b > 7 PROVE b \notin v
    <3>1. b \in Nat /\ 8 \in Nat /\ 8 <= b
      BY <2>1 DEF Low
    <3>2. 2 ^ b >= 256 /\ 2 ^ b \in Nat
      <4>1. 2 ^ 8 <= 2 ^ b /\ 2 ^ b \in Nat
        BY <3>1, PowerGrows, PowerType
      <4>. QED
        BY <4>1, BytePowers
    <3>. DEFINE p == 2 ^ b
    <3>3. p >= 256 /\ p \in Nat
      BY <3>2
    <3>. HIDE DEF p
    <3>4. n \div p = 0
      BY <3>3
    <3>. QED
      BY <1>2, <3>4 DEF p
  <2>. QED
    BY <2>1 DEF Low
<1>4. v \in SUBSET Low(8) /\ v \cap Low(31) = v
  <2>1. v \in SUBSET Low(31)
    BY DEF Bits
  <2>. HIDE DEF v
  <2>2. \A b \in v : b \in Low(31) /\ b <= 7
    BY <1>3, <2>1
  <2>3. \A b \in Low(31) : b <= 7 => b \in Low(8)
    BY DEF Low
  <2>. QED
    BY <2>1, <2>2, <2>3
<1>5. /\ 0 \in v <=> n % 2 = 1
      /\ 1 \in v <=> (n \div 2) % 2 = 1
      /\ 2 \in v <=> (n \div 4) % 2 = 1
      /\ 3 \in v <=> (n \div 8) % 2 = 1
      /\ 4 \in v <=> (n \div 16) % 2 = 1
      /\ 5 \in v <=> (n \div 32) % 2 = 1
      /\ 6 \in v <=> (n \div 64) % 2 = 1
      /\ 7 \in v <=> (n \div 128) % 2 = 1
  <2>1. 0..7 \subseteq Low(31) /\ n \div 1 = n
    BY DEF Low
  <2>. HIDE DEF v
  <2>2. \A b \in 0..7 : b \in v <=> (n \div 2 ^ b) % 2 = 1
    BY <1>2, <2>1
  <2>3. /\ 0 \in v <=> (n \div 2 ^ 0) % 2 = 1
        /\ 1 \in v <=> (n \div 2 ^ 1) % 2 = 1
        /\ 2 \in v <=> (n \div 2 ^ 2) % 2 = 1
        /\ 3 \in v <=> (n \div 2 ^ 3) % 2 = 1
        /\ 4 \in v <=> (n \div 2 ^ 4) % 2 = 1
        /\ 5 \in v <=> (n \div 2 ^ 5) % 2 = 1
        /\ 6 \in v <=> (n \div 2 ^ 6) % 2 = 1
        /\ 7 \in v <=> (n \div 2 ^ 7) % 2 = 1
    BY <2>2
  <2>. QED
    BY <2>1, <2>3, SmallPowers, BytePowers
<1>6. Num(v) = n
  <2>. DEFINE bit(b, p) == IF (n \div p) % 2 = 1 THEN p ELSE 0
  <2>1. Num(v) = Weighs(v, 7, 128) + Weighs(v, 6, 64) + Weighs(v, 5, 32)
                   + Weighs(v, 4, 16) + Weighs(v, 3, 8) + Weighs(v, 2, 4)
                   + Weighs(v, 1, 2) + Weighs(v, 0, 1)
    BY <1>4, ByteValue
  <2>. HIDE DEF v
  <2>. QED
    BY <1>5, <2>1 DEF Weighs
<1>. QED
  BY <1>1, <1>4, <1>6, UIntIsNum

\* decode_arg_imm leaves the lsb and the width of a bit field, and keeps the lsb for the width.
LEMMA BitfieldExpands ==
  ASSUME NEW w, IsWork(w), NEW node, node.type = "IMM", node.enc # <<>>, node.table = <<>>
  PROVE  LET v     == decode_node(w, node)
             field == FieldOf(opcode, node)
             lsb   == decode_imm_lsb(w.mnemonic, field, w.datasize)
         IN  /\ node.symbol = "lsb" => v.arg.imm = Word32Of(lsb) /\ v.lsb = lsb
             /\ node.symbol = "width" =>
                  v.arg.imm = Word32Of(decode_imm_width(w.mnemonic, field, w.lsb))
             /\ node.symbol = "other" /\ "signpos" \notin node.attrs /\ node.scale = 0 =>
                  v.arg.imm = ReadEncodedin(opcode, node.enc)
<1>. DEFINE field == FieldOf(opcode, node)
            lsb == decode_imm_lsb(w.mnemonic, field, w.datasize)
            any == decode_any(node)
            imm == ImmediateRead(w, node, any, Raw(node))
            v   == decode_arg_imm(w, node)
<1>1. any = [definition |-> "ENCODEDIN", value |-> field]
  BY DEF decode_any, Encoded, FieldOf, Raw
<1>2. any.definition = "ENCODEDIN" /\ any.value = field
  BY <1>1
<1>. HIDE DEF any
<1>3. /\ node.symbol = "lsb" => imm = Word32Of(lsb)
      /\ node.symbol = "width" => imm = Word32Of(decode_imm_width(w.mnemonic, field, w.lsb))
      /\ node.symbol = "other" => imm = PlainImmediate(node)
  BY <1>2 DEF ImmediateRead
<1>4. "signpos" \notin node.attrs /\ node.scale = 0 =>
        PlainImmediate(node) = ReadEncodedin(opcode, node.enc)
  BY DEF PlainImmediate, Raw
<1>5. v = Immediate(w, node, any, imm)
  BY DEF decode_arg_imm, any
<1>. HIDE DEF imm, lsb, field, v
<1>6. v.arg.imm = imm
  BY <1>5 DEF Immediate, IsWork, WorkFields, ArgumentFields
<1>7. node.symbol = "lsb" => v.lsb = lsb
  <2>1. v.lsb = IF any.definition = "ENCODEDIN" /\ node.symbol = "lsb"
                THEN decode_imm_lsb(w.mnemonic, any.value, w.datasize) ELSE w.lsb
    BY <1>5 DEF Immediate, IsWork, WorkFields, ArgumentFields
  <2>. QED
    BY <1>2, <2>1 DEF lsb
<1>8. decode_node(w, node) = v
  BY DEF decode_node, EnumTypes, v
<1>. QED
  BY <1>3, <1>4, <1>6, <1>7, <1>8 DEF field, lsb

\* What an encodedin reads that is one field, or one field above another.
LEMMA SpanIsField ==
  ASSUME NEW word, NEW hi \in Nat, NEW lo \in Nat, lo <= hi
  PROVE  /\ Len(Span(hi, lo)) = hi - lo + 1 /\ Span(hi, lo) # <<>>
         /\ ReadEncodedin(word, Span(hi, lo)) = Field(word, hi, lo)
         /\ Field(word, hi, lo) \in SUBSET (0..hi - lo)
BY RunIsField DEF Span

\* The offset of ADR and ADRP is immhi:immlo.
LEMMA OffsetIsSplit ==
  ASSUME NEW word
  PROVE  LET enc == Span(23, 5) \o Span(30, 29)
             imm21 == Shifted(Field(word, 23, 5), 2) \union Field(word, 30, 29)
         IN  /\ Len(enc) = 21 /\ enc # <<>> /\ ReadEncodedin(word, enc) = imm21
             /\ imm21 \in SUBSET (0..20)
<1>. DEFINE high == Span(23, 5)
            low  == Span(30, 29)
            enc  == high \o low
            imm21 == Shifted(Field(word, 23, 5), 2) \union Field(word, 30, 29)
<1>1. high = [i \in 1..19 |-> 24 - i] /\ low = [i \in 1..2 |-> 31 - i]
  <2>1. 23 - 5 + 1 = 19 /\ 23 + 1 = 24 /\ 30 - 29 + 1 = 2 /\ 30 + 1 = 31
    OBVIOUS
  <2>. QED
    BY <2>1 DEF Span
<1>. HIDE DEF high, low
<1>2. /\ high \in Seq(Int) /\ low \in Seq(Int) /\ Len(high) = 19 /\ Len(low) = 2
      /\ \A i \in 1..19 : high[i] = 24 - i
      /\ low[1] = 30 /\ low[2] = 29
  BY <1>1
<1>3. /\ Len(enc) = 21 /\ \A i \in 1..19 : enc[i] = 24 - i
      /\ enc[20] = 30 /\ enc[21] = 29
  <2>1. /\ Len(enc) = Len(high) + Len(low)
        /\ \A i \in 1..Len(high) + Len(low) :
             enc[i] = IF i <= Len(high) THEN high[i] ELSE low[i - Len(high)]
    <3>1. high \in Seq(Int) /\ low \in Seq(Int)
      BY <1>2
    <3>2. Len(high) \in Nat /\ Len(low) \in Nat
      BY <3>1
    <3>3. Len(enc) = Len(high) + Len(low)
      BY <3>1
    <3>4. ASSUME NEW i \in 1..Len(high) + Len(low)
          PROVE enc[i] = IF i <= Len(high) THEN high[i] ELSE low[i - Len(high)]
      BY <3>1, <3>2
    <3>. QED
      BY <3>3, <3>4
  <2>. HIDE DEF enc
  <2>2. Len(enc) = 21 /\ \A i \in 1..21 : enc[i] = IF i <= 19 THEN high[i] ELSE low[i - 19]
    BY <1>2, <2>1
  <2>3. 20 - 19 = 1 /\ 21 - 19 = 2
    OBVIOUS
  <2>4. enc[20] = low[1] /\ enc[21] = low[2]
    BY <2>2, <2>3
  <2>5. \A i \in 1..19 : enc[i] = high[i]
    BY <2>2
  <2>. QED
    BY <1>2, <2>2, <2>4, <2>5
<1>4. enc # <<>>
  BY <1>3
<1>. HIDE DEF enc
<1>5. ReadEncodedin(word, enc) = {i \in 0..20 : enc[21 - i] \in word}
  BY <1>3 DEF ReadEncodedin, Low
<1>6. ASSUME NEW i \in 0..20
      PROVE  enc[21 - i] = IF i = 0 THEN 29 ELSE IF i = 1 THEN 30 ELSE i + 3
  BY <1>3
<1>7. /\ Field(word, 23, 5) = {b \in 0..18 : b + 5 \in word}
      /\ Field(word, 30, 29) = {b \in 0..1 : b + 29 \in word}
  <2>1. 23 - 5 = 18 /\ 30 - 29 = 1
    OBVIOUS
  <2>. QED
    BY <2>1, SliceIsField DEF Slice
<1>8. Shifted(Field(word, 23, 5), 2) = {b \in 2..20 : b + 3 \in word}
  <2>1. ASSUME NEW c \in {b \in 2..20 : b + 3 \in word}
        PROVE  c \in Shifted(Field(word, 23, 5), 2)
    <3>1. c - 2 \in 0..18 /\ c - 2 + 5 = c + 3 /\ c = (c - 2) + 2
      OBVIOUS
    <3>2. c - 2 \in Field(word, 23, 5)
      BY <1>7, <3>1
    <3>. QED
      BY <3>1, <3>2 DEF Shifted
  <2>2. ASSUME NEW c \in Shifted(Field(word, 23, 5), 2)
        PROVE  c \in 2..20 /\ c + 3 \in word
    <3>1. PICK b \in Field(word, 23, 5) : c = b + 2
      BY DEF Shifted
    <3>2. b \in 0..18 /\ b + 5 \in word /\ c + 3 = b + 5
      BY <1>7, <3>1
    <3>. QED
      BY <3>1, <3>2
  <2>. QED
    BY <2>1, <2>2
<1>9. ReadEncodedin(word, enc) = imm21
  BY <1>5, <1>6, <1>7, <1>8
<1>10. imm21 \in SUBSET (0..20)
  BY <1>7, <1>8
<1>. QED
  BY <1>3, <1>4, <1>9, <1>10 DEF enc, high, low

\* decode_wide_imm_alias leaves in the bits of the register what MOVZ or MOVN loads.
LEMMA WideIsManual ==
  ASSUME NEW word, NEW datasize \in {32, 64}, datasize = 32 => 22 \notin word,
         NEW inverted \in BOOLEAN
  PROVE  decode_wide_imm_alias(ReadEncodedin(word, Span(22, 5)), datasize, inverted)
             \cap 0..datasize - 1
           = MoveWide(UInt(Field(word, 22, 21)), Field(word, 20, 5), inverted, datasize)
<1>. DEFINE raw == ReadEncodedin(word, Span(22, 5))
            hw  == UInt(Field(word, 22, 21))
            imm16 == Field(word, 20, 5)
<1>1. raw = {b \in 0..17 : b + 5 \in word}
  <2>1. 22 - 5 = 17 /\ 5 <= 22
    OBVIOUS
  <2>2. raw = Field(word, 22, 5) /\ Field(word, 22, 5) = Slice(word, 22, 5)
    BY <2>1, SpanIsField, SliceIsField
  <2>. QED
    BY <2>1, <2>2 DEF Slice
<1>. HIDE DEF raw
<1>2. raw \cap Low(16) = imm16
  <2>1. 20 - 5 = 15 /\ 16 - 1 = 15
    OBVIOUS
  <2>2. imm16 = {b \in 0..15 : b + 5 \in word}
    BY <2>1, SliceIsField DEF Slice
  <2>. QED
    BY <1>1, <2>1, <2>2 DEF Low
<1>3. Slice(raw, 17, 16) = Field(word, 22, 21) /\ Field(word, 22, 21) \in SUBSET Low(2)
  <2>1. 17 - 16 = 1 /\ 22 - 21 = 1 /\ 2 - 1 = 1
    OBVIOUS
  <2>2. Field(word, 22, 21) = {b \in 0..1 : b + 21 \in word}
    BY <2>1, SliceIsField DEF Slice
  <2>3. Slice(raw, 17, 16) = {b \in 0..1 : b + 16 \in raw}
    BY <2>1 DEF Slice
  <2>4. \A b \in 0..1 : b + 16 \in raw <=> b + 21 \in word
    BY <1>1
  <2>. QED
    BY <2>1, <2>2, <2>3, <2>4 DEF Low
<1>4. Num(Slice(raw, 17, 16)) = hw /\ hw \in 0..3
  <2>1. Field(word, 22, 21) \cap Low(31) = Field(word, 22, 21)
    BY <1>3 DEF Low
  <2>2. Num(Field(word, 22, 21)) = hw
    BY <2>1, UIntIsNum
  <2>. QED
    BY <1>3, <2>2, TwoBitsType
<1>. HIDE DEF hw, imm16
<1>5. ~(17 \in raw /\ datasize = 32)
  BY <1>1
<1>. DEFINE placed == Lsl(imm16, 16 * hw, 64)
<1>6. decode_wide_imm_alias(raw, datasize, inverted) =
        IF inverted THEN Low(64) \ placed ELSE placed
  BY <1>2, <1>4, <1>5 DEF decode_wide_imm_alias
<1>7. placed = {b \in 0..63 : b - 16 * hw \in imm16} /\ Low(64) = 0..63
  BY DEF Lsl, Low
<1>. HIDE DEF placed
<1>8. 0..datasize - 1 \subseteq 0..63
  OBVIOUS
<1>9. ASSUME NEW b \in 0..datasize - 1
      PROVE  b \in decode_wide_imm_alias(raw, datasize, inverted) <=>
               (b - 16 * hw \in imm16) # inverted
  BY <1>6, <1>7, <1>8
<1>10. decode_wide_imm_alias(raw, datasize, inverted) \cap 0..datasize - 1 =
         {b \in 0..datasize - 1 : (b - 16 * hw \in imm16) # inverted}
  BY <1>9
<1>. QED
  BY <1>10 DEF MoveWide, raw, hw, imm16

\* decode_arg_imm and decode_arg_label leave what such a field stands for.
LEMMA ImmExpands ==
  ASSUME NEW w, IsWork(w), NEW node, IsExpanded(node)
  PROVE  /\ decode_arg_imm(w, node).arg.imm = Expansion(opcode, w.datasize, node)
         /\ decode_arg_label(w, node).arg.imm = Expansion(opcode, w.datasize, node)
<1>. DEFINE any == decode_any(node)
            imm == ImmediateRead(w, node, any, Raw(node))
            v   == decode_arg_imm(w, node)
<1>1. any.definition = "ENCODEDIN"
  BY DEF IsExpanded, decode_any, Encoded
<1>. HIDE DEF any
<1>2. imm = Expansion(opcode, w.datasize, node)
  <2>1. CASE node.symbol = "aimm"
    <3>1. imm = decode_logimm(Raw(node), w.datasize).imm
      BY <1>1, <2>1 DEF ImmediateRead
    <3>2. Expansion(opcode, w.datasize, node) = decode_logimm(Raw(node), w.datasize).imm
      BY <2>1 DEF Expansion, Raw, Wide
    <3>. QED
      BY <3>1, <3>2
  <2>2. CASE node.symbol \in Wide
    <3>. DEFINE halfword ==
                  decode_wide_imm_alias(Raw(node), w.datasize, node.symbol = "WideImmInverted")
    <3>1. imm = halfword
      BY <1>1, <2>2 DEF ImmediateRead, Wide
    <3>2. Expansion(opcode, w.datasize, node) = halfword
      BY <2>2 DEF Expansion, Raw, Wide
    <3>. QED
      BY <3>1, <3>2
  <2>3. CASE node.symbol = "other" /\ "signpos" \in node.attrs
    <3>1. imm = PlainImmediate(node)
      BY <1>1, <2>3 DEF ImmediateRead
    <3>. QED
      BY <2>3, <3>1 DEF PlainImmediate, Expansion, Raw, Wide
  <2>. QED
    BY <2>1, <2>2, <2>3 DEF IsExpanded
<1>3. v = Immediate(w, node, any, imm)
  BY DEF decode_arg_imm, any
<1>. HIDE DEF imm
<1>4. Immediate(w, node, any, imm).arg.imm = imm
  BY DEF Immediate, IsWork, WorkFields, ArgumentFields
<1>5. IsWork(Immediate(w, node, any, imm))
  BY DEF Immediate, IsWork, WorkFields, ArgumentFields
<1>6. decode_arg_label(w, node) = [v EXCEPT !.arg.type = "LABEL"]
  BY DEF decode_arg_label
<1>7. IsWork(v) /\ v.arg.imm = imm
  BY <1>3, <1>4, <1>5
<1>. HIDE DEF v
<1>8. [v EXCEPT !.arg.type = "LABEL"].arg.imm = v.arg.imm
  BY <1>7 DEF IsWork, WorkFields, ArgumentFields
<1>. QED
  BY <1>2, <1>6, <1>7, <1>8 DEF v

-----------------------------------------------------------------------------
(* Memory.                                                                 *)

\* decode_anynymous_immreg
LEMMA PartBuilds ==
  ASSUME NEW w, IsWork(w), w.ok, NEW node
  PROVE  LET v == decode_anynymous_immreg(w, node)
         IN  Builds(w, v) /\ (v.ok <=> PartFits(opcode, node))
BY RegBuilds, VregBuilds, EregBuilds, RegshBuilds, VregshBuilds, ImmBuilds, ImmshBuilds,
   FailedBuilds DEF decode_anynymous_immreg, PartFits

\* An argument of its own for the parts, and the operand's in its place again.
LEMMA PlaceBuilds ==
  ASSUME NEW w, IsWork(w), NEW arg, DOMAIN arg = ArgumentFields
  PROVE  LET v == [w EXCEPT !.arg = arg]
         IN  Builds(w, v) /\ v.ok = w.ok /\ v.arg = arg
BY DEF IsWork, Builds, WorkFields

\* What is kept of an offset.
LEMMA WithOffsetType ==
  ASSUME NEW arg, DOMAIN arg = ArgumentFields, NEW offset
  PROVE  DOMAIN WithOffset(arg, offset) = ArgumentFields
BY DEF WithOffset, ArgumentFields

\* The operand as a whole.
LEMMA MemoryBuilds ==
  ASSUME NEW w, IsWork(w), NEW node
  PROVE  LET v == Memory(w, node)
         IN  Builds(w, v) /\ v.ok = w.ok /\ v.arg.type = "MEMORY"
<1>. DEFINE raised == Only("read" \in node.attrs, {"may_load"})
                        \union Only("write" \in node.attrs, {"may_store"})
            attrs == Attrs(w.arg, {"read", "write"}, node) \union (node.attrs \cap Indexed)
            u == [w EXCEPT !.arg.type = "MEMORY", !.arg.attrs = attrs]
<1>1. raised \subseteq OperandFlags
  BY DEF Only, OperandFlags
<1>. HIDE DEF raised, attrs
<1>2. Builds(w, u) /\ u.ok = w.ok /\ u.arg.type = "MEMORY"
  BY DEF IsWork, Builds, WorkFields, ArgumentFields
<1>. HIDE DEF u
<1>3. /\ Builds(u, Raise(u, raised)) /\ Raise(u, raised).ok = u.ok
      /\ Raise(u, raised).arg = u.arg
  BY <1>1, <1>2, RaiseBuilds DEF Builds
<1>4. Memory(w, node) = Raise(u, raised)
  BY DEF Memory, u, raised, attrs
<1>. QED
  BY <1>2, <1>3, <1>4, BuildsTrans
\* The offset, in an argument of its own, and the operand around it.
LEMMA OffsetBuilds ==
  ASSUME NEW w, IsWork(w), w.ok, NEW arg, DOMAIN arg = ArgumentFields, NEW node
  PROVE  LET v == Offset(decode_anynymous_immreg(w, node.sub.regoff), arg, node)
         IN  /\ Builds(w, v) /\ (v.ok <=> PartFits(opcode, node.sub.regoff))
             /\ v.ok => v.arg.type = "MEMORY"
<1>. DEFINE u == decode_anynymous_immreg(w, node.sub.regoff)
            with == WithOffset(arg, u.arg)
            x == [u EXCEPT !.arg = with]
            y == [u EXCEPT !.arg = arg]
<1>1. Builds(w, u) /\ (u.ok <=> PartFits(opcode, node.sub.regoff))
  BY PartBuilds
<1>2. DOMAIN with = ArgumentFields
  BY WithOffsetType
<1>3. Offset(u, arg, node) = IF u.ok THEN Memory(x, node) ELSE y
  BY DEF Offset
<1>. HIDE DEF u, with
<1>4. IsWork(u)
  BY <1>1 DEF Builds
<1>5. Builds(u, x) /\ x.ok = u.ok /\ Builds(u, y) /\ y.ok = u.ok
  BY <1>2, <1>4, PlaceBuilds
<1>. HIDE DEF x, y
<1>6. Builds(x, Memory(x, node)) /\ Memory(x, node).ok = x.ok
      /\ Memory(x, node).arg.type = "MEMORY"
  BY <1>5, MemoryBuilds DEF Builds
<1>7. Builds(w, Memory(x, node)) /\ Builds(w, y)
  BY <1>1, <1>5, <1>6, BuildsTrans
<1>8. CASE u.ok
  BY <1>1, <1>3, <1>5, <1>6, <1>7, <1>8 DEF u
<1>9. CASE ~u.ok
  BY <1>1, <1>3, <1>5, <1>7, <1>9 DEF u
<1>. QED
  BY <1>8, <1>9

\* What is made of a base, or of what has failed to be one.
LEMMA BasedBuilds ==
  ASSUME NEW w, IsWork(w), NEW arg, DOMAIN arg = ArgumentFields, NEW node
  PROVE  LET v == Based(w, arg, node)
         IN  /\ Builds(w, v)
             /\ v.ok <=> w.ok /\ (Has(node, "regoff") => PartFits(opcode, node.sub.regoff))
             /\ v.ok => v.arg.type = "MEMORY"
<1>. DEFINE x == [w EXCEPT !.arg = arg]
<1>1. Builds(w, x) /\ x.ok = w.ok
  BY PlaceBuilds
<1>2. CASE ~w.ok
  BY <1>1, <1>2 DEF Based
<1>3. CASE w.ok /\ ~Has(node, "regoff")
  <2>1. Based(w, arg, node) = Memory(x, node)
    BY <1>3 DEF Based
  <2>. HIDE DEF x
  <2>2. Builds(x, Memory(x, node)) /\ Memory(x, node).ok = x.ok
        /\ Memory(x, node).arg.type = "MEMORY"
    BY <1>1, MemoryBuilds DEF Builds
  <2>3. Builds(w, Memory(x, node))
    BY <1>1, <2>2, BuildsTrans
  <2>. QED
    BY <1>1, <1>3, <2>1, <2>2, <2>3
<1>4. CASE w.ok /\ Has(node, "regoff")
  BY <1>4, OffsetBuilds DEF Based
<1>. QED
  BY <1>2, <1>3, <1>4

\* decode_arg_mem fails if its base or its offset does.
LEMMA MemBuilds ==
  ASSUME NEW w, IsWork(w), w.ok, NEW node
  PROVE  LET v == decode_arg_mem(w, node)
         IN  /\ Builds(w, v)
             /\ v.ok <=> /\ PartFits(opcode, node.sub.base)
                         /\ Has(node, "regoff") => PartFits(opcode, node.sub.regoff)
             /\ v.ok => v.arg.type = "MEMORY"
<1>. DEFINE x == [w EXCEPT !.arg = BlankArgument]
            u == decode_anynymous_immreg(x, node.sub.base)
            arg == [w.arg EXCEPT !.base = u.arg.reg]
<1>1. DOMAIN BlankArgument = ArgumentFields
  BY DEF BlankArgument, ArgumentFields
<1>2. Builds(w, x) /\ x.ok = w.ok
  BY <1>1, PlaceBuilds
<1>. HIDE DEF x
<1>3. Builds(x, u) /\ (u.ok <=> PartFits(opcode, node.sub.base))
  BY <1>2, PartBuilds DEF Builds
<1>. HIDE DEF u
<1>4. DOMAIN arg = ArgumentFields
  BY DEF IsWork
<1>5. decode_arg_mem(w, node) = Based(u, arg, node)
  BY DEF decode_arg_mem, BaseFirst, u, x
<1>. HIDE DEF arg
<1>6. /\ Builds(u, Based(u, arg, node))
      /\ Based(u, arg, node).ok <=>
           u.ok /\ (Has(node, "regoff") => PartFits(opcode, node.sub.regoff))
      /\ Based(u, arg, node).ok => Based(u, arg, node).arg.type = "MEMORY"
  BY <1>3, <1>4, BasedBuilds DEF Builds
<1>7. Builds(w, Based(u, arg, node))
  BY <1>2, <1>3, <1>6, BuildsTrans
<1>. QED
  BY <1>3, <1>5, <1>6, <1>7

-----------------------------------------------------------------------------
(* Enumerations.                                                           *)

\* set_token, of the type of the node.
LEMMA TokenBuilds ==
  ASSUME NEW w, IsWork(w), NEW node, NEW tv
  PROVE  LET v == Token(w, node, tv)
         IN  Builds(w, v) /\ v.ok = w.ok /\ v.arg.type = EnumTypes[node.type]
<1>. DEFINE attrs == (w.arg.attrs \ {"is_representable"}) \union {"read"}
                        \union Only(tv.representable, {"is_representable"})
            type == EnumTypes[node.type]
<1>1. Token(w, node, tv) =
        [w EXCEPT !.arg.type = type, !.arg.token = tv.value, !.arg.attrs = attrs]
  BY DEF Token
<1>. HIDE DEF attrs, type
<1>2. LET v == [w EXCEPT !.arg.type = type, !.arg.token = tv.value, !.arg.attrs = attrs]
      IN  Builds(w, v) /\ v.ok = w.ok /\ v.arg.type = type
  BY DEF IsWork, Builds, WorkFields, ArgumentFields
<1>. QED
  BY <1>1, <1>2 DEF type

\* decode_arg_enum fails for a value that is not in the table of the node.
LEMMA EnumBuilds ==
  ASSUME NEW w, IsWork(w), w.ok, NEW node
  PROVE  LET v == decode_arg_enum(w, node)
         IN  /\ Builds(w, v) /\ (v.ok <=> Finds(opcode, node))
             /\ v.ok => v.arg.type = EnumTypes[node.type]
<1>1. CASE node.enc = <<>>
  BY <1>1, TokenBuilds DEF decode_arg_enum, Finds
<1>2. CASE node.enc # <<>>
  <2>. DEFINE raw == Num(Raw(node))
              v == EncodedToken(w, node, raw)
  <2>1. raw = FieldOf(opcode, node)
    BY DEF Raw, FieldOf
  <2>2. decode_arg_enum(w, node) = v
    BY <1>2 DEF decode_arg_enum
  <2>3. Finds(opcode, node) <=> node.table = <<>> \/ raw \in DOMAIN node.table
    BY <1>2, <2>1 DEF Finds
  <2>. HIDE DEF raw
  <2>4. CASE node.table # <<>> /\ raw \notin DOMAIN node.table
    BY <2>2, <2>3, <2>4, FailedBuilds DEF EncodedToken
  <2>5. CASE node.table # <<>> /\ raw \in DOMAIN node.table
    BY <2>2, <2>3, <2>5, TokenBuilds DEF EncodedToken
  <2>6. CASE node.table = <<>>
    BY <2>2, <2>3, <2>6, TokenBuilds DEF EncodedToken
  <2>. QED
    BY <2>4, <2>5, <2>6
<1>. QED
  BY <1>1, <1>2

\* decode_arg_invcond
LEMMA InvcondBuilds ==
  ASSUME NEW w, IsWork(w), NEW node
  PROVE  LET v == decode_arg_invcond(w, node)
         IN  /\ Builds(w, v) /\ v.ok = w.ok /\ v.arg.type = "CONDITION"
             /\ v.arg.token = Num(Inverted(ReadEncodedin(opcode, node.enc))) + 1
<1>. DEFINE number == Num(Inverted(Raw(node))) + 1
            v == [w EXCEPT !.arg.type = "CONDITION", !.arg.token = number,
                           !.arg.attrs = @ \union {"read", "is_representable"}]
<1>1. decode_arg_invcond(w, node) = v
  BY DEF decode_arg_invcond, Inverted
<1>2. number = Num(Inverted(ReadEncodedin(opcode, node.enc))) + 1
  BY DEF Raw
<1>. HIDE DEF number
<1>3. Builds(w, v) /\ v.ok = w.ok /\ v.arg.type = "CONDITION" /\ v.arg.token = number
  BY DEF IsWork, Builds, WorkFields, ArgumentFields
<1>. QED
  BY <1>1, <1>2, <1>3

\* decode_arg_patternsh
LEMMA PatternshBuilds ==
  ASSUME NEW w, IsWork(w), w.ok, NEW node, node.sub.pattern.type = "PATTERN"
  PROVE  LET v == decode_arg_patternsh(w, node)
         IN  /\ Builds(w, v)
             /\ v.ok <=> /\ Finds(opcode, node.sub.pattern)
                         /\ ShifterFits(opcode, node.sub.shifter)
             /\ v.ok => v.arg.type = "PATTERN"
<1>. DEFINE u == decode_arg_enum(w, node.sub.pattern)
<1>1. /\ Builds(w, u) /\ (u.ok <=> Finds(opcode, node.sub.pattern))
      /\ u.ok => u.arg.type = "PATTERN"
  BY EnumBuilds DEF EnumTypes
<1>2. decode_arg_patternsh(w, node) =
        IF u.ok THEN decode_arg_shifter(u, node.sub.shifter) ELSE u
  BY DEF decode_arg_patternsh, Then
<1>. HIDE DEF u
<1>. DEFINE x == decode_arg_shifter(u, node.sub.shifter)
<1>3. CASE u.ok
  <2>1. Builds(w, x) /\ (x.ok <=> ShifterFits(opcode, node.sub.shifter)) /\ SameKind(u, x)
    BY <1>1, <1>3, ThenShift
  <2>. HIDE DEF x
  <2>. QED
    BY <1>1, <1>2, <1>3, <2>1 DEF SameKind, x
<1>4. CASE ~u.ok
  BY <1>1, <1>2, <1>4
<1>. QED
  BY <1>3, <1>4

\* decode_arg_sysreg
LEMMA SysregBuilds ==
  ASSUME NEW w, IsWork(w), NEW node
  PROVE  LET v == decode_arg_sysreg(w, node)
         IN  Builds(w, v) /\ v.ok = w.ok /\ v.arg.type = "SYSREG_ENCODING"
<1>. DEFINE list == <<IF 19 \in opcode THEN 3 ELSE 2, Num(Slice(opcode, 18, 16)),
                      Num(Slice(opcode, 15, 12)) + 1, Num(Slice(opcode, 11, 8)) + 1,
                      Num(Slice(opcode, 7, 5))>>
            attrs == Attrs(w.arg, {"read", "write"}, node)
            v == [w EXCEPT !.arg.type = "SYSREG_ENCODING", !.arg.list = list,
                           !.arg.attrs = attrs]
<1>1. decode_arg_sysreg(w, node) = v
  BY DEF decode_arg_sysreg
<1>. HIDE DEF list, attrs
<1>2. Builds(w, v) /\ v.ok = w.ok /\ v.arg.type = "SYSREG_ENCODING"
  BY DEF IsWork, Builds, WorkFields, ArgumentFields
<1>. QED
  BY <1>1, <1>2
-----------------------------------------------------------------------------
(* Lists, and the dispatch on the type of a node.                          *)

\* A field of five bits is a number up to 31.
LEMMA FiveBits ==
  ASSUME NEW node, node.enc \in Seq(Nat), Len(node.enc) = 5
  PROVE  Raw(node) \subseteq Low(5) /\ Num(Raw(node)) \in 0..31
<1>1. Raw(node) \in SUBSET Low(5)
  BY DEF Raw, ReadEncodedin
<1>. QED
  BY <1>1, FiveBitsType

\* The first register of a list is one of V0..V31 or Z0..Z31.
LEMMA ListBaseIsVector ==
  ASSUME NEW w, IsWork(w), w.ok, NEW node, IsList(node)
  PROVE  decode_anynymous_immreg(w, node.sub.base).arg.reg
           \in V0..V0 + 31 \union Z0..Z0 + 31
<1>. DEFINE reg == node.sub.base.sub.reg
            first == decode_register_value(Raw(reg), reg.symbol)
<1>1. /\ node.sub.base.type \in {"VBASE", "EBASE"} /\ reg.symbol \in {"VECREG", "SVEREG"}
      /\ reg.attrs \cap {"pair", "sp"} = {} /\ reg.enc \in Seq(Nat) /\ Len(reg.enc) = 5
  BY DEF IsList
<1>. HIDE DEF reg
<1>2. Num(Raw(reg)) \in 0..31
  BY <1>1, FiveBits
<1>3. first \in V0..V0 + 31 \union Z0..Z0 + 31
  <2>1. CASE reg.symbol = "VECREG"
    BY <1>2, <2>1 DEF decode_register_value, Bank, V0
  <2>2. CASE reg.symbol = "SVEREG"
    BY <1>2, <2>2 DEF decode_register_value, Bank, Z0
  <2>. QED
    BY <1>1, <2>1, <2>2
<1>4. reg.enc # <<>>
  <2>1. reg.enc = <<>> => Len(reg.enc) = 0
    OBVIOUS
  <2>. QED
    BY <1>1, <2>1
<1>. HIDE DEF first
<1>5. decode_arg_reg(w, reg).arg.reg = first + NextTo(reg, first) + StackPointer(opcode, reg)
  BY <1>4, EncodedRegisterBuilds DEF decode_arg_reg, first
<1>6. NextTo(reg, first) = 0 /\ StackPointer(opcode, reg) = 0
  BY <1>1 DEF NextTo, StackPointer
<1>7. decode_arg_reg(w, reg).arg.reg = first
  <2>1. first \in Int
    BY <1>3 DEF V0, Z0, Bank
  <2>. QED
    BY <1>5, <1>6, <2>1
<1>8. decode_anynymous_immreg(w, node.sub.base).arg.reg = decode_arg_reg(w, reg).arg.reg
  <2>1. CASE node.sub.base.type = "VBASE"
    <3>1. decode_anynymous_immreg(w, node.sub.base) = decode_arg_vreg(w, node.sub.base)
      BY <2>1 DEF decode_anynymous_immreg
    <3>2. decode_arg_vreg(w, node.sub.base).arg.reg = decode_arg_reg(w, reg).arg.reg
      <4>1. LET v == decode_arg_vreg(w, node.sub.base)
            IN  v.arg.reg = decode_arg_reg(w, node.sub.base.sub.reg).arg.reg
        BY VregBuilds, Zenon
      <4>. QED
        BY <4>1 DEF reg
    <3>. QED
      BY <3>1, <3>2
  <2>2. CASE node.sub.base.type = "EBASE"
    <3>1. decode_anynymous_immreg(w, node.sub.base) = decode_arg_ereg(w, node.sub.base)
      BY <2>2 DEF decode_anynymous_immreg
    <3>2. decode_arg_ereg(w, node.sub.base).arg.reg = decode_arg_reg(w, reg).arg.reg
      <4>1. LET v == decode_arg_ereg(w, node.sub.base)
            IN  v.arg.reg = decode_arg_reg(w, node.sub.base.sub.reg).arg.reg
        BY EregBuilds, Zenon
      <4>. QED
        BY <4>1 DEF reg
    <3>. QED
      BY <3>1, <3>2
  <2>. QED
    BY <1>1, <2>1, <2>2
<1>. QED
  BY <1>3, <1>7, <1>8

\* A list that goes around its bank.
LEMMA AroundFollows ==
  ASSUME NEW reg, NEW first \in {V0, Z0}, reg \in first..first + 31, NEW count \in Nat
  PROVE  ListFollows([i \in 1..count |-> first + ((reg - first + i - 1) % 32)])
<1>. DEFINE list == [i \in 1..count |-> first + ((reg - first + i - 1) % 32)]
<1>1. V0 = 228 /\ Z0 = 276
  BY DEF V0, Z0, Bank
<1>2. first \in Int /\ reg \in Int /\ reg - first \in 0..31
  BY <1>1
<1>3. Len(list) = count
  <2>1. list \in Seq(Int)
    BY <1>2
  <2>. QED
    BY <2>1
<1>4. ASSUME NEW n \in 2..count
      PROVE  list[n] = Behind(list[n - 1])
  <2>. DEFINE d == reg - first
              x == (d + n - 2) % 32
              y == (d + n - 1) % 32
  <2>1. list[n] = first + y /\ list[n - 1] = first + x
    <3>1. n \in 1..count /\ n - 1 \in 1..count /\ d + (n - 1) - 1 = d + n - 2
      BY <1>2
    <3>. QED
      BY <3>1
  <2>2. x \in 0..31 /\ y = IF x = 31 THEN 0 ELSE x + 1
    <3>1. d + n - 2 \in Nat /\ d + n - 1 = (d + n - 2) + 1
      BY <1>2
    <3>2. \A z \in Nat : z % 32 \in 0..31 /\ (z + 1) % 32 = IF z % 32 = 31 THEN 0 ELSE (z % 32) + 1
      OBVIOUS
    <3>. QED
      BY <3>1, <3>2
  <2>. HIDE DEF list, x, y, d
  <2>3. first + x \in {V0 + 31, Z0 + 31} <=> x = 31
    BY <1>1, <2>2
  <2>. QED
    BY <1>1, <2>1, <2>2, <2>3 DEF Behind
<1>. HIDE DEF list
<1>5. ListFollows(list)
  BY <1>3, <1>4 DEF ListFollows
<1>. QED
  BY <1>5 DEF list

\* decode_arg_vlist fails if its base does.
LEMMA VlistBuilds ==
  ASSUME NEW w, IsWork(w), w.ok, NEW node, IsList(node)
  PROVE  LET v == decode_arg_vlist(w, node)
         IN  /\ Builds(w, v) /\ (v.ok <=> PartFits(opcode, node.sub.base))
             /\ v.ok => v.arg.type = "LIST" /\ ListFollows(v.arg.list)
<1>. DEFINE u == decode_anynymous_immreg(w, node.sub.base)
            count == node.sub.count.value
            first == IF u.arg.reg >= Z0 THEN Z0 ELSE V0
            list == [i \in 1..count |-> first + ((u.arg.reg - first + i - 1) % 32)]
            x == [u EXCEPT !.arg.type = "LIST", !.arg.list = list]
<1>1. Builds(w, u) /\ (u.ok <=> PartFits(opcode, node.sub.base))
  BY PartBuilds
<1>2. u.arg.reg \in V0..V0 + 31 \union Z0..Z0 + 31
  BY ListBaseIsVector
<1>3. count \in Nat
  BY DEF IsList
<1>4. decode_arg_vlist(w, node) = IF u.ok THEN Listed(u, count) ELSE u
  BY DEF decode_arg_vlist, Then
<1>. HIDE DEF u, count
<1>5. Listed(u, count) = x
  BY <1>2 DEF Listed
<1>6. first \in {V0, Z0} /\ u.arg.reg \in first..first + 31
  BY <1>2 DEF V0, Z0, Bank
<1>. HIDE DEF first
<1>7. ListFollows(list)
  BY <1>3, <1>6, AroundFollows
<1>. HIDE DEF list
<1>8. Builds(u, x) /\ x.ok = u.ok /\ x.arg.type = "LIST" /\ x.arg.list = list
  BY <1>1 DEF IsWork, Builds, WorkFields, ArgumentFields
<1>. HIDE DEF x
<1>9. Builds(w, x)
  BY <1>1, <1>8, BuildsTrans
<1>. QED
  BY <1>1, <1>4, <1>5, <1>7, <1>8, <1>9

\* decode_arg_elist
LEMMA ElistBuilds ==
  ASSUME NEW w, IsWork(w), w.ok, NEW node, IsList(node)
  PROVE  LET v == decode_arg_elist(w, node)
         IN  /\ Builds(w, v) /\ (v.ok <=> PartFits(opcode, node.sub.base))
             /\ v.ok => v.arg.type = "LIST" /\ ListFollows(v.arg.list)
<1>. DEFINE u == decode_arg_vlist(w, node)
            x == [u EXCEPT !.arg.attrs = @ \ {"is_vector"}]
<1>1. /\ Builds(w, u) /\ (u.ok <=> PartFits(opcode, node.sub.base))
      /\ u.ok => u.arg.type = "LIST" /\ ListFollows(u.arg.list)
  BY VlistBuilds
<1>2. decode_arg_elist(w, node) = IF u.ok THEN x ELSE u
  BY DEF decode_arg_elist, Then
<1>. HIDE DEF u
<1>3. Builds(u, x) /\ x.ok = u.ok /\ x.arg.type = u.arg.type /\ x.arg.list = u.arg.list
  BY <1>1 DEF IsWork, Builds, WorkFields, ArgumentFields
<1>. HIDE DEF x
<1>4. Builds(w, x)
  BY <1>1, <1>3, BuildsTrans
<1>. QED
  BY <1>1, <1>2, <1>3, <1>4
\* What a handler of the type shows.
NodeShows(w, node) ==
  LET v == decode_node(w, node)
  IN  /\ Builds(w, v) /\ (v.ok <=> NodeFits(opcode, node))
      /\ v.ok => Shows(v.arg, v.flags, opcode, node)

\* Types whose handler reads nothing from a table.
LEMMA PlainNodeShows ==
  ASSUME NEW w, IsWork(w), w.ok, NEW node,
         node.type \in {"SYSREG", "REG", "VREG", "PREG", "IMM", "FPIMM", "LABEL", "ADDR", "INVCOND"}
  PROVE  NodeShows(w, node)
<1>. DEFINE v == decode_node(w, node)
<1>1. NodeFits(opcode, node)
  BY DEF NodeFits, NodeTypes, EnumTypes
<1>. SUFFICES Builds(w, v) /\ v.ok /\ Shows(v.arg, v.flags, opcode, node)
  BY <1>1 DEF NodeShows
<1>2. CASE node.type = "SYSREG"
  <2>1. v = decode_arg_sysreg(w, node)
    BY <1>2 DEF decode_node, EnumTypes
  <2>. QED
    BY <1>2, <2>1, SysregBuilds DEF Shows, IsEncoded, ArgumentOf
<1>3. CASE node.type = "REG"
  <2>1. v = decode_arg_reg(w, node)
    BY <1>3 DEF decode_node, EnumTypes
  <2>2. ~IsEncoded(node) => Shows(v.arg, v.flags, opcode, node)
    BY <1>3, <2>1, RegBuilds DEF Shows, IsEncoded, ArgumentOf
  <2>. QED
    BY <2>1, <2>2, RegBuilds, RegShows
<1>4. CASE node.type = "VREG"
  <2>1. v = decode_arg_vreg(w, node)
    BY <1>4 DEF decode_node, EnumTypes
  <2>. QED
    BY <1>4, <2>1, VregBuilds DEF Shows, IsEncoded, ArgumentOf
<1>5. CASE node.type = "PREG"
  <2>1. v = decode_arg_preg(w, node)
    BY <1>5 DEF decode_node, EnumTypes
  <2>. QED
    BY <1>5, <2>1, PregBuilds DEF Shows, IsEncoded, ArgumentOf
<1>6. CASE node.type \in {"IMM", "FPIMM"}
  <2>1. v = decode_arg_imm(w, node)
    BY <1>6 DEF decode_node, EnumTypes
  <2>. QED
    BY <1>6, <2>1, ImmBuilds DEF Shows, IsEncoded, ArgumentOf
<1>7. CASE node.type \in {"LABEL", "ADDR"}
  <2>1. v = decode_arg_label(w, node)
    BY <1>7 DEF decode_node, EnumTypes
  <2>. QED
    BY <1>7, <2>1, LabelBuilds DEF Shows, IsEncoded, ArgumentOf
<1>8. CASE node.type = "INVCOND"
  <2>1. v = decode_arg_invcond(w, node)
    BY <1>8 DEF decode_node
  <2>. QED
    BY <1>8, <2>1, InvcondBuilds DEF Shows, IsEncoded, ArgumentOf
<1>. QED
  BY <1>2, <1>3, <1>4, <1>5, <1>6, <1>7, <1>8

\* Types whose handler may miss a row.
LEMMA TabledNodeShows ==
  ASSUME NEW w, IsWork(w), w.ok, NEW node, IsNode(node),
         node.type \in {"REGSH", "EREG", "VLIST", "ELIST", "PATTERNSH", "IMMSH", "MEM"}
  PROVE  NodeShows(w, node)
<1>. DEFINE v == decode_node(w, node)
<1>1. CASE node.type = "REGSH"
  <2>1. v = decode_arg_regsh(w, node)
    BY <1>1 DEF decode_node, EnumTypes
  <2>2. NodeFits(opcode, node) <=> ShifterFits(opcode, node.sub.shifter)
    BY <1>1 DEF NodeFits, NodeTypes, EnumTypes
  <2>. QED
    BY <1>1, <2>1, <2>2, RegshBuilds DEF NodeShows, Shows, IsEncoded, ArgumentOf
<1>2. CASE node.type = "IMMSH"
  <2>1. v = decode_arg_immsh(w, node)
    BY <1>2 DEF decode_node, EnumTypes
  <2>2. NodeFits(opcode, node) <=> ShifterFits(opcode, node.sub.shifter)
    BY <1>2 DEF NodeFits, NodeTypes, EnumTypes
  <2>. QED
    BY <1>2, <2>1, <2>2, ImmshBuilds DEF NodeShows, Shows, IsEncoded, ArgumentOf
<1>3. CASE node.type = "EREG"
  <2>1. v = decode_arg_ereg(w, node)
    BY <1>3 DEF decode_node, EnumTypes
  <2>2. NodeFits(opcode, node) <=> Finds(opcode, node.sub.idx)
    BY <1>3 DEF NodeFits, NodeTypes, EnumTypes
  <2>. QED
    BY <1>3, <2>1, <2>2, EregBuilds DEF NodeShows, Shows, IsEncoded, ArgumentOf
<1>4. CASE node.type = "PATTERNSH"
  <2>1. v = decode_arg_patternsh(w, node)
    BY <1>4 DEF decode_node, EnumTypes
  <2>2. NodeFits(opcode, node) <=> /\ Finds(opcode, node.sub.pattern)
                                   /\ ShifterFits(opcode, node.sub.shifter)
    BY <1>4 DEF NodeFits, NodeTypes, EnumTypes
  <2>3. node.sub.pattern.type = "PATTERN"
    BY <1>4 DEF IsNode
  <2>. QED
    BY <1>4, <2>1, <2>2, <2>3, PatternshBuilds DEF NodeShows, Shows, IsEncoded, ArgumentOf
<1>5. CASE node.type = "VLIST"
  <2>1. v = decode_arg_vlist(w, node)
    BY <1>5 DEF decode_node, EnumTypes
  <2>2. NodeFits(opcode, node) <=> PartFits(opcode, node.sub.base)
    BY <1>5 DEF NodeFits, NodeTypes, EnumTypes
  <2>3. IsList(node)
    BY <1>5 DEF IsNode
  <2>. QED
    BY <1>5, <2>1, <2>2, <2>3, VlistBuilds DEF NodeShows, Shows, IsEncoded, ArgumentOf
<1>6. CASE node.type = "ELIST"
  <2>1. v = decode_arg_elist(w, node)
    BY <1>6 DEF decode_node, EnumTypes
  <2>2. NodeFits(opcode, node) <=> PartFits(opcode, node.sub.base)
    BY <1>6 DEF NodeFits, NodeTypes, EnumTypes
  <2>3. IsList(node)
    BY <1>6 DEF IsNode
  <2>. QED
    BY <1>6, <2>1, <2>2, <2>3, ElistBuilds DEF NodeShows, Shows, IsEncoded, ArgumentOf
<1>7. CASE node.type = "MEM"
  <2>1. v = decode_arg_mem(w, node)
    BY <1>7 DEF decode_node, EnumTypes
  <2>2. NodeFits(opcode, node) <=>
          /\ PartFits(opcode, node.sub.base)
          /\ Has(node, "regoff") => PartFits(opcode, node.sub.regoff)
    BY <1>7 DEF NodeFits, NodeTypes, EnumTypes
  <2>. QED
    BY <1>7, <2>1, <2>2, MemBuilds DEF NodeShows, Shows, IsEncoded, ArgumentOf
<1>. QED
  BY <1>1, <1>2, <1>3, <1>4, <1>5, <1>6, <1>7

\* Members of enumerations.
LEMMA EnumNodeShows ==
  ASSUME NEW w, IsWork(w), w.ok, NEW node, node.type \in DOMAIN EnumTypes \ {"INVCOND"}
  PROVE  NodeShows(w, node)
<1>. DEFINE v == decode_node(w, node)
<1>1. v = decode_arg_enum(w, node)
  BY DEF decode_node, EnumTypes
<1>2. NodeFits(opcode, node) <=> Finds(opcode, node)
  BY DEF NodeFits, NodeTypes, EnumTypes
<1>3. EnumTypes[node.type] = ArgumentOf(node.type) /\ EnumTypes[node.type] # "LIST"
  BY DEF EnumTypes, ArgumentOf
<1>. QED
  BY <1>1, <1>2, <1>3, EnumBuilds DEF NodeShows, Shows, IsEncoded, EnumTypes

\* decode_node goes on exactly with a node that fits the word, whatever it works on, and
\* fills its slot with what the node says.
LEMMA NodeBuilds ==
  ASSUME NEW w, IsWork(w), w.ok, NEW node, IsNode(node)
  PROVE  NodeShows(w, node)
<1>1. CASE node.type \notin NodeTypes
  <2>1. decode_node(w, node) = Failed(w)
    BY <1>1 DEF decode_node, NodeTypes, EnumTypes
  <2>. QED
    BY <1>1, <2>1, FailedBuilds DEF NodeShows, NodeFits
<1>2. CASE node.type \in NodeTypes
  <2>1. \/ node.type \in DOMAIN EnumTypes \ {"INVCOND"}
        \/ node.type \in {"SYSREG", "REG", "VREG", "PREG", "IMM", "FPIMM", "LABEL", "ADDR",
                          "INVCOND"}
        \/ node.type \in {"REGSH", "EREG", "VLIST", "ELIST", "PATTERNSH", "IMMSH", "MEM"}
    BY <1>2 DEF NodeTypes
  <2>. QED
    BY <2>1, PlainNodeShows, TabledNodeShows, EnumNodeShows
<1>. QED
  BY <1>1, <1>2

\* An offset, a logical and a wide immediate leave what their field stands for.
LEMMA NodeExpands ==
  ASSUME NEW w, IsWork(w), NEW node
  PROVE  Expands(decode_node(w, node).arg, opcode, w.datasize, node)
<1>. SUFFICES ASSUME IsExpanded(node)
              PROVE  decode_node(w, node).arg.imm = Expansion(opcode, w.datasize, node)
  BY DEF Expands
<1>1. CASE node.type = "IMM"
  <2>1. decode_node(w, node) = decode_arg_imm(w, node)
    BY <1>1 DEF decode_node, EnumTypes
  <2>. QED
    BY <2>1, ImmExpands
<1>2. CASE node.type \in {"LABEL", "ADDR"}
  <2>1. decode_node(w, node) = decode_arg_label(w, node)
    BY <1>2 DEF decode_node, EnumTypes
  <2>. QED
    BY <2>1, ImmExpands
<1>. QED
  BY <1>1, <1>2 DEF IsExpanded

\* The record a node is decoded on.
LEMMA FreshWork ==
  ASSUME NEW state, NEW mnemonic, NEW datasize, NEW old, old \subseteq FlagNames
  PROVE  LET w == Fresh(state, mnemonic, datasize, old)
         IN  /\ IsWork(w) /\ w.ok /\ w.flags = old /\ w.datasize = datasize
             /\ w.mnemonic = mnemonic /\ w.lsb = state.lsb
<1>. DEFINE blank == [BlankArgument EXCEPT !.attrs = {"is_representable"}]
<1>1. DOMAIN blank = ArgumentFields
  BY DEF BlankArgument, ArgumentFields
<1>. HIDE DEF blank
<1>. DEFINE w == [ok |-> TRUE, flags |-> old, mnemonic |-> mnemonic, datasize |-> datasize,
                  lsb |-> state.lsb, dst_reg |-> state.dst_reg, has_reg |-> state.has_reg,
                  arg |-> blank]
<1>2. /\ IsWork(w) /\ w.ok /\ w.flags = old /\ w.datasize = datasize
      /\ w.mnemonic = mnemonic /\ w.lsb = state.lsb
  BY <1>1 DEF IsWork, WorkFields
<1>. QED
  BY <1>2 DEF Fresh, blank
=============================================================================
