----------------------------- MODULE X86Proofs -----------------------------
(***************************************************************************)
(* Proof that the x86 decoder is type correct: every variable keeps its C  *)
(* type, and the walk over a template's argument nodes stays in the node   *)
(* list and in the slots.  One lemma per handler, then TypeCorrect.        *)
(***************************************************************************)
EXTENDS X86Invariants, TLAPS

-----------------------------------------------------------------------------
(* Reading and consuming.                                                  *)

\* Every byte the decoder looks at is a byte, also behind the image.
LEMMA ByteAtType ==
  ASSUME CallerType, NEW i \in Int
  PROVE  ByteAt(i) \in Byte
<1>1. memory \in Seq(Byte)
  BY DEF CallerType
<1>2. Filler \in Byte
  BY ImagesAssumption
<1>. QED
  BY <1>1, <1>2 DEF ByteAt

\* n bytes of the stream are n bytes.
LEMMA BytesType ==
  ASSUME CallerType, NEW i \in Int, NEW n \in Nat
  PROVE  Bytes(i, n) \in Seq(Byte) /\ Len(Bytes(i, n)) = n
<1>1. \A k \in 1..n : ByteAt(i + k - 1) \in Byte
  BY ByteAtType
<1>. QED
  BY <1>1 DEF Bytes

\* pc stays a uint8_t, wrap or not.
LEMMA AdvanceType ==
  ASSUME CursorType, NEW n \in Nat, Advance(n)
  PROVE  pc' \in 0..Wrap - 1
BY WrapAssumption DEF CursorType, Advance

\* add_bytecode keeps the record list typed, full or not.
LEMMA AddBytecodeType ==
  ASSUME RecordsType, NEW type \in BytecodeTypes, NEW bytes \in Seq(Byte),
         AddBytecode(type, bytes)
  PROVE  RecordsType'
<1>. DEFINE record == [type |-> type, bytes |-> bytes]
            R == [type : BytecodeTypes, bytes : Seq(Byte)]
<1>1. record \in R
  OBVIOUS
<1>2. bytecodes \in Seq(R) /\ bytecode_count \in Nat
  BY DEF RecordsType
<1>3. Append(bytecodes, record) \in Seq(R)
  <2>. HIDE DEF record, R
  <2>. QED
    BY <1>1, <1>2
<1>4. CASE bytecode_count >= MaxBytecodes
  BY <1>2, <1>4 DEF AddBytecode, records, RecordsType
<1>5. CASE ~(bytecode_count >= MaxBytecodes)
  <2>1. bytecodes' = Append(bytecodes, record) /\ bytecode_count' = bytecode_count + 1
    BY <1>5 DEF AddBytecode
  <2>. QED
    BY <1>2, <1>3, <2>1 DEF RecordsType
<1>. QED
  BY <1>4, <1>5

\* So does consuming bytes under one record.
LEMMA TakeType ==
  ASSUME CallerType, CursorType, RecordsType, NEW type \in BytecodeTypes, NEW n \in Nat,
         Take(type, n)
  PROVE  pc' \in 0..Wrap - 1 /\ RecordsType'
<1>1. Bytes(pc, n) \in Seq(Byte)
  BY BytesType DEF CursorType
<1>. QED
  BY <1>1, AdvanceType, AddBytecodeType DEF Take

\* The three fields of a byte read as ModRM.
LEMMA ModRMFieldsType ==
  ASSUME NEW modrm \in Byte
  PROVE  ModOf(modrm) \in 0..3 /\ RegOf(modrm) \in 0..7 /\ RmOf(modrm) \in 0..7
BY DEF ModOf, RegOf, RmOf, Byte

\* set_modrm_field keeps the diagram typed.
LEMMA SetModRMType ==
  ASSUME NEW d \in DiagramType, NEW modrm \in Byte
  PROVE  SetModRM(d, modrm) \in DiagramType
<1>. DEFINE mod == ModOf(modrm)
            reg == RegOf(modrm)
            rm  == RmOf(modrm)
<1>1. mod \in 0..3 /\ reg \in 0..7 /\ rm \in 0..7
  BY ModRMFieldsType
<1>2. SetModRM(d, modrm) = [d EXCEPT !.mod = mod, !.reg = reg, !.rm = rm, !.modreg = mod = 3]
  BY DEF SetModRM
<1>. HIDE DEF mod, reg, rm
<1>. QED
  BY <1>1, <1>2, ZenonT(180) DEF DiagramType

\* set_w_field keeps the diagram typed.
LEMMA SetWType ==
  ASSUME NEW d \in DiagramType, NEW w \in BOOLEAN
  PROVE  SetW(d, w) \in DiagramType
<1>1. (IF w THEN 2 ELSE d.osz) \in 0..2
  BY DEF DiagramType
<1>. QED
  BY <1>1, ZenonT(180) DEF DiagramType, SetW

\* set_pp_field keeps the diagram typed.
LEMMA SetPPType ==
  ASSUME NEW d \in DiagramType, NEW pp
  PROVE  SetPP(d, pp) \in DiagramType
<1>. DEFINE p66 == d.p66 \/ pp = 1
            f3  == d.f3 \/ pp = 2
            f2  == d.f2 \/ pp = 3
<1>1. p66 \in BOOLEAN /\ f3 \in BOOLEAN /\ f2 \in BOOLEAN
  OBVIOUS
<1>2. SetPP(d, pp) = [d EXCEPT !.p66 = p66, !.f3 = f3, !.f2 = f2]
  BY DEF SetPP
<1>. HIDE DEF p66, f3, f2
<1>. QED
  BY <1>1, <1>2, ZenonT(180) DEF DiagramType
-----------------------------------------------------------------------------
(* Type correctness, one lemma per group of actions.                       *)

\* What is left of TypeOK when the parts an action rewrites are known to hold.
LEMMA Unchanged ==
  ASSUME TypeOK
  PROVE  /\ UNCHANGED caller => CallerType'
         /\ UNCHANGED result => ResultType'
         /\ UNCHANGED records => RecordsType'
         /\ UNCHANGED <<loc, ret>> => PlaceType'
         /\ UNCHANGED <<nb, pc>> => CursorType'
         /\ UNCHANGED prefixes => PrefixesType'
         /\ UNCHANGED <<diagram, addressing>> => FieldsType'
         /\ UNCHANGED walk => WalkType'
BY DEF TypeOK, CallerType, ResultType, RecordsType, PlaceType, CursorType, PrefixesType,
       FieldsType, WalkType, caller, result, records, prefixes, walk

\* The row x86_lookup answers for `not found' is a row.
LEMMA FirstEntryType == FirstEntry \in Entries
BY EntriesAssumption

\* Every field of the cleared diagram is in its range.
LEMMA BlankDiagramType == BlankDiagram \in DiagramType
BY DEF BlankDiagram, DiagramType, Encodings, Byte

\* The caller's state before the call is typed.
LEMMA TypeInit == Init => TypeOK
<1>. SUFFICES ASSUME Init PROVE TypeOK
  OBVIOUS
<1>1. CallerType
  BY ImagesAssumption, LengthsAssumption DEF Init, CallerType
<1>2. ResultType
  <2>1. insn \in InsnType
    BY DEF Init, StaleInsn, InsnType, Written, STALE, Functionalities
  <2>2. arguments \in [0..Slots - 1 -> [type : ArgumentTypes, base : Bases]]
    <3>1. PICK base \in OldBases :
            arguments = [i \in 0..Slots - 1 |-> [type |-> "NONE", base |-> base]]
      BY DEF Init
    <3>2. [type |-> "NONE", base |-> base] \in [type : ArgumentTypes, base : Bases]
      BY CountsAssumption DEF ArgumentTypes
    <3>. QED
      BY <3>1, <3>2
  <2>. QED
    BY <2>1, <2>2 DEF Init, ResultType
<1>3. RecordsType
  BY CountsAssumption DEF Init, RecordsType
<1>4. PlaceType
  BY DEF Init, PlaceType, Locations
<1>8. CursorType
  BY WrapAssumption DEF Init, CursorType
<1>5. PrefixesType
  BY WrapAssumption DEF Init, PrefixesType, Maps, Segments
<1>6. FieldsType
  BY BlankDiagramType DEF Init, FieldsType, NoBase
<1>7. WalkType
  <2>1. vmem \in BOOLEAN /\ src_reg \in BOOLEAN
    BY DEF Init
  <2>2. entry \in Entries /\ node \in 1..Slots + 1 /\ slot \in 0..Slots
    BY FirstEntryType DEF Init, Slots
  <2>. QED
    BY <2>1, <2>2 DEF WalkType
<1>. QED
  BY <1>1, <1>2, <1>3, <1>4, <1>5, <1>6, <1>7, <1>8 DEF TypeOK

\* The refusal of an empty buffer, the start of decode_entry and the return.
LEMMA CallType ==
  ASSUME TypeOK, RejectEmpty \/ Begin \/ Return
  PROVE  TypeOK'
<1>1. CASE RejectEmpty
  <2>1. PlaceType'
    BY <1>1 DEF RejectEmpty, PlaceType, Locations
  <2>. QED
    BY <1>1, <2>1, Unchanged DEF RejectEmpty, TypeOK
<1>2. CASE Begin
  <2>1. CallerType'
    BY <1>2, Unchanged DEF Begin
  <2>2. ResultType'
    BY <1>2 DEF Begin, TypeOK, ResultType
  <2>3. RecordsType'
    BY <1>2 DEF Begin, TypeOK, RecordsType
  <2>4. PlaceType'
    BY <1>2 DEF Begin, TypeOK, PlaceType, Locations
  <2>5. CursorType'
    BY <1>2, WrapAssumption DEF Begin, TypeOK, CallerType, CursorType
  <2>6. PrefixesType'
    BY <1>2, WrapAssumption DEF Begin, PrefixesType, Maps, Segments
  <2>7. diagram' \in DiagramType
    <3>1. CASE context.machine_mode \in {16, 32, 64}
      <4>. DEFINE mode == context.machine_mode = 64
                  asz  == DefaultAddressSize
                  osz  == DefaultOperandSize
      <4>1. mode \in BOOLEAN /\ asz \in 0..2 /\ osz \in 0..2
        BY DEF DefaultAddressSize, DefaultOperandSize
      <4>2. diagram' = [BlankDiagram EXCEPT !.long_mode = mode, !.asz = asz, !.osz = osz]
        BY <1>2, <3>1 DEF Begin
      <4>. HIDE DEF mode, asz, osz
      <4>. QED
        BY <4>1, <4>2, BlankDiagramType, ZenonT(180) DEF DiagramType
    <3>2. CASE context.machine_mode \notin {16, 32, 64}
      BY <1>2, <3>2, BlankDiagramType DEF Begin
    <3>. QED
      BY <3>1, <3>2
  <2>8. FieldsType'
    BY <1>2, <2>7 DEF Begin, FieldsType, NoBase
  <2>9. WalkType'
    <3>1. vmem' \in BOOLEAN /\ src_reg' \in BOOLEAN
      BY <1>2 DEF Begin
    <3>2. entry' \in Entries /\ node' \in 1..Slots + 1 /\ slot' \in 0..Slots
      BY <1>2, FirstEntryType DEF Begin, Slots
    <3>. QED
      BY <3>1, <3>2 DEF WalkType
  <2>. QED
    BY <2>1, <2>2, <2>3, <2>4, <2>5, <2>6, <2>8, <2>9 DEF TypeOK
<1>3. CASE Return
  <2>1. pc \in Nat
    BY WrapAssumption DEF TypeOK, CursorType
  <2>2. insn' \in InsnType
    BY <1>3, <2>1 DEF Return, TypeOK, ResultType, InsnType, Written
  <2>3. ResultType' /\ PlaceType'
    BY <1>3, <2>2 DEF Return, TypeOK, ResultType, PlaceType, Locations
  <2>. QED
    BY <1>3, <2>3, Unchanged DEF Return, TypeOK
<1>. QED
  BY <1>1, <1>2, <1>3

\* The handlers of the legacy prefixes and of REX.
LEMMA PrefixBytesType ==
  ASSUME TypeOK, Rex \/ SegmentPrefix \/ OperandSizePrefix \/ AddressSizePrefix
                   \/ LockPrefix \/ RepeatPrefix
  PROVE  TypeOK'
<1>1. diagram \in DiagramType /\ vfpc \in 0..Wrap - 1
  BY DEF TypeOK, FieldsType, PrefixesType
<1>2. \E type \in BytecodeTypes : Take(type, 1)
  BY DEF Rex, SegmentPrefix, OperandSizePrefix, AddressSizePrefix, LockPrefix, RepeatPrefix,
         BytecodeTypes
<1>3. pc' \in 0..Wrap - 1 /\ RecordsType'
  BY <1>2, TakeType DEF TypeOK
<1>4. CursorType'
  BY <1>3 DEF Rex, SegmentPrefix, OperandSizePrefix, AddressSizePrefix, LockPrefix,
              RepeatPrefix, TypeOK, CursorType
<1>5. CallerType' /\ PlaceType' /\ WalkType'
  BY Unchanged DEF Rex, SegmentPrefix, OperandSizePrefix, AddressSizePrefix, LockPrefix,
                   RepeatPrefix
<1>6. ResultType'
  <2>1. CASE SegmentPrefix
    BY <2>1 DEF SegmentPrefix, TypeOK, ResultType, Flags
  <2>2. CASE ~SegmentPrefix
    BY <2>2, Unchanged DEF Rex, OperandSizePrefix, AddressSizePrefix, LockPrefix, RepeatPrefix
  <2>. QED
    BY <2>1, <2>2
<1>7. addressing' = addressing
  BY DEF Rex, SegmentPrefix, OperandSizePrefix, AddressSizePrefix, LockPrefix, RepeatPrefix
<1>8. diagram' \in DiagramType
  <2>1. CASE Rex
    <3>. DEFINE x == Bit(op, 1)
                b == Bit(op, 0)
                d == SetW(diagram, Bit(op, 3))
    <3>1. x \in BOOLEAN /\ b \in BOOLEAN /\ d \in DiagramType
      BY <1>1, SetWType DEF Bit
    <3>2. diagram' = [d EXCEPT !.x = x, !.fb = b, !.has_rex = TRUE]
      BY <2>1 DEF Rex
    <3>. HIDE DEF x, b, d
    <3>. QED
      BY <3>1, <3>2, ZenonT(180) DEF DiagramType
  <2>2. CASE SegmentPrefix
    BY <2>2, <1>1 DEF SegmentPrefix
  <2>3. CASE OperandSizePrefix
    <3>1. OverrideSize \in 0..2
      BY DEF OverrideSize, DefaultOperandSize
    <3>. QED
      BY <2>3, <3>1, <1>1 DEF OperandSizePrefix, DiagramType
  <2>4. CASE AddressSizePrefix
    <3>. DEFINE asz == DefaultAddressSize \div 2
    <3>1. asz \in 0..2
      BY DEF DefaultAddressSize
    <3>2. diagram' = [diagram EXCEPT !.asz = asz]
      BY <2>4 DEF AddressSizePrefix
    <3>. HIDE DEF asz
    <3>. QED
      BY <3>1, <3>2, <1>1 DEF DiagramType
  <2>5. CASE LockPrefix
    BY <2>5, <1>1 DEF LockPrefix, DiagramType
  <2>6. CASE RepeatPrefix
    <3>. DEFINE f2 == diagram.f2 \/ op = REPNE
                f3 == diagram.f3 \/ op = REP
    <3>1. f2 \in BOOLEAN /\ f3 \in BOOLEAN
      OBVIOUS
    <3>2. diagram' = [diagram EXCEPT !.f2 = f2, !.f3 = f3]
      BY <2>6 DEF RepeatPrefix
    <3>. HIDE DEF f2, f3
    <3>. QED
      BY <3>1, <3>2, <1>1, ZenonT(180) DEF DiagramType
  <2>. QED
    BY <2>1, <2>2, <2>3, <2>4, <2>5, <2>6
<1>9. FieldsType'
  BY <1>7, <1>8 DEF TypeOK, FieldsType
<1>10. vfpc' \in 0..Wrap - 1
  BY <1>1, WrapAssumption DEF Rex, SegmentPrefix, OperandSizePrefix, AddressSizePrefix,
                              LockPrefix, RepeatPrefix, prefixes
<1>11. mapidx' \in Maps /\ segment' \in Segments /\ last_f_prefix' \in {0, REPNE, REP}
  <2>1. CASE SegmentPrefix
    <3>1. SegmentOf[op] \in Segments
      BY <2>1 DEF SegmentPrefix, SegmentBytes, SegmentOf, Segments
    <3>. QED
      BY <2>1, <3>1 DEF SegmentPrefix, NewSegment, TypeOK, PrefixesType
  <2>2. CASE ~SegmentPrefix
    BY <2>2 DEF Rex, OperandSizePrefix, AddressSizePrefix, LockPrefix, RepeatPrefix, TypeOK,
                PrefixesType, prefixes
  <2>. QED
    BY <2>1, <2>2
<1>. QED
  BY <1>3, <1>4, <1>5, <1>6, <1>9, <1>10, <1>11 DEF TypeOK, PrefixesType

\* decode_map.
LEMMA EscapeMapType ==
  ASSUME TypeOK, EscapeMap
  PROVE  TypeOK'
<1>. DEFINE next == IF pc + 2 <= nb THEN ByteAt(pc + 1) ELSE 0
<1>1. next \in Byte /\ 15 \in Byte
  <2>1. pc + 1 \in Int
    BY DEF TypeOK, CursorType
  <2>. QED
    BY <2>1, ByteAtType DEF TypeOK, Byte
<1>2. pc' \in 0..Wrap - 1 /\ RecordsType' /\ mapidx' \in Maps
  <2>1. CASE pc + 2 <= nb /\ next \in {15, 56, 58}
    <3>1. <<next, 15>> \in Seq(Byte)
      BY <1>1
    <3>2. Advance(2) /\ AddBytecode("MAP", <<next, 15>>)
      BY <2>1 DEF EscapeMap
    <3>3. mapidx' \in Maps
      BY <2>1 DEF EscapeMap, Maps
    <3>. HIDE DEF next
    <3>. QED
      BY <3>1, <3>2, <3>3, AdvanceType, AddBytecodeType DEF TypeOK, BytecodeTypes
  <2>2. CASE ~(pc + 2 <= nb /\ next \in {15, 56, 58})
    <3>1. Advance(1) /\ AddBytecode("MAP", <<15>>) /\ mapidx' = "0F"
      BY <2>2 DEF EscapeMap
    <3>2. <<15>> \in Seq(Byte)
      BY <1>1
    <3>. QED
      BY <3>1, <3>2, AdvanceType, AddBytecodeType DEF TypeOK, BytecodeTypes, Maps
  <2>. QED
    BY <2>1, <2>2
<1>3. CallerType' /\ ResultType' /\ FieldsType' /\ WalkType'
  BY Unchanged DEF EscapeMap
<1>4. PlaceType' /\ nb' = nb
  BY DEF EscapeMap, TypeOK, PlaceType, Locations
<1>5. CursorType'
  BY <1>2, <1>4 DEF TypeOK, CursorType
<1>6. PrefixesType'
  BY <1>2 DEF EscapeMap, TypeOK, PrefixesType
<1>. QED
  BY <1>2, <1>3, <1>4, <1>5, <1>6 DEF TypeOK

\* What the five vector prefix handlers share.
LEMMA VectorType ==
  ASSUME TypeOK, NEW map \in Maps, NEW d \in DiagramType, NEW type \in BytecodeTypes,
         NEW n \in Nat, Vector(map, d, type, n)
  PROVE  TypeOK'
<1>1. pc' \in 0..Wrap - 1 /\ RecordsType'
  BY TakeType DEF Vector, TypeOK
<1>2. CallerType' /\ ResultType' /\ WalkType'
  BY Unchanged DEF Vector
<1>3. PlaceType' /\ CursorType' /\ PrefixesType'
  BY <1>1 DEF Vector, TypeOK, PlaceType, Locations, CursorType, PrefixesType
<1>4. FieldsType'
  <2>1. diagram' \in DiagramType
    BY DEF Vector, DiagramType
  <2>. QED
    BY <2>1 DEF Vector, TypeOK, FieldsType
<1>. QED
  BY <1>1, <1>2, <1>3, <1>4 DEF TypeOK

\* The five vector prefix handlers: the diagram each of them writes.
LEMMA VectorPrefixType ==
  ASSUME TypeOK, Vex2 \/ Vex3 \/ Xop \/ Evex \/ Mvex
  PROVE  TypeOK'
<1>. DEFINE p1 == ByteAt(pc + 1)
            p2 == ByteAt(pc + 2)
            p3 == ByteAt(pc + 3)
            x  == Inverted(p1, 6)
            w  == Bit(p2, 7)
            b  == Bit(p3, 4)
<1>1. diagram \in DiagramType /\ x \in BOOLEAN /\ w \in BOOLEAN /\ b \in BOOLEAN
  BY DEF TypeOK, FieldsType, Inverted, Bit
<1>2. p1 \in Byte /\ p2 \in Byte /\ p3 \in Byte
  <2>1. pc + 1 \in Int /\ pc + 2 \in Int /\ pc + 3 \in Int
    BY DEF TypeOK, CursorType
  <2>. QED
    BY <2>1, ByteAtType DEF TypeOK
<1>3. p3 % 8 \in 0..7 /\ (p3 \div 16) % 8 \in 0..7
  BY <1>2 DEF Byte
<1>4. \A pp : SetPP(SetW(diagram, w), pp) \in DiagramType
  BY <1>1, SetWType, SetPPType
<1>5. {"VEX2", "VEX3", "EVEX", "MVEX"} \subseteq BytecodeTypes
  BY DEF BytecodeTypes
<1>6. CASE Vex2
  <2>. DEFINE d == [SetPP(diagram, p1 % 4) EXCEPT !.enc = "VEX"]
  <2>1. SetPP(diagram, p1 % 4) \in DiagramType
    BY <1>1, SetPPType
  <2>2. d \in DiagramType
    BY <2>1 DEF DiagramType, Encodings
  <2>3. Vector("0F", d, "VEX2", 2) /\ "0F" \in Maps
    BY <1>6 DEF Vex2, Maps
  <2>. HIDE DEF d
  <2>. QED
    BY <1>5, <2>2, <2>3, VectorType
<1>7. CASE Vex3
  <2>. DEFINE e   == SetPP(SetW(diagram, w), p2 % 4)
              d   == [e EXCEPT !.enc = "VEX", !.x = x]
              map == VexMap[p1 % 32]
  <2>1. Vector(map, d, "VEX3", 3) /\ p1 % 32 \in DOMAIN VexMap
    BY <1>7 DEF Vex3, IsVex3
  <2>2. map \in Maps
    BY <2>1 DEF VexMap, Maps
  <2>3. e \in DiagramType
    BY <1>4
  <2>4. d \in DiagramType
    <3>. HIDE DEF e, x
    <3>. QED
      BY <1>1, <2>3 DEF DiagramType, Encodings
  <2>. HIDE DEF d, map
  <2>. QED
    BY <1>5, <2>1, <2>2, <2>4, VectorType
<1>8. CASE Xop
  <2>. DEFINE e   == SetW(diagram, w)
              d   == [e EXCEPT !.enc = "XOP", !.x = x]
              map == XopMap[p1 % 32]
  <2>1. Vector(map, d, "VEX3", 3) /\ p1 % 32 \in DOMAIN XopMap
    BY <1>8 DEF Xop, IsXop
  <2>2. map \in Maps
    BY <2>1 DEF XopMap, Maps
  <2>3. e \in DiagramType
    BY <1>1, SetWType
  <2>4. d \in DiagramType
    <3>. HIDE DEF e, x
    <3>. QED
      BY <1>1, <2>3 DEF DiagramType, Encodings
  <2>. HIDE DEF d, map
  <2>. QED
    BY <1>5, <2>1, <2>2, <2>4, VectorType
<1>9. CASE Evex
  <2>. DEFINE e   == SetPP(SetW(diagram, w), p2 % 4)
              aaa == p3 % 8
              d   == [e EXCEPT !.enc = "EVEX", !.x = x, !.bp = b, !.fb = b, !.aaa = aaa]
              map == VexMap[p1 % 4]
  <2>1. Vector(map, d, "EVEX", 4) /\ p1 % 4 \in DOMAIN VexMap
    BY <1>9 DEF Evex, IsEvex
  <2>2. map \in Maps
    BY <2>1 DEF VexMap, Maps
  <2>3. e \in DiagramType
    BY <1>4
  <2>4. d \in DiagramType
    <3>. HIDE DEF e, x, b
    <3>. QED
      BY <1>1, <1>3, <2>3 DEF DiagramType, Encodings
  <2>. HIDE DEF d, map
  <2>. QED
    BY <1>5, <2>1, <2>2, <2>4, VectorType
<1>10. CASE Mvex
  <2>. DEFINE e   == SetPP(SetW(diagram, w), p2 % 4)
              aaa == p3 % 8
              sss == (p3 \div 16) % 8
              d   == [e EXCEPT !.enc = "MVEX", !.x = x, !.aaa = aaa, !.sss = sss]
              map == MvexMap[p1 % 16]
  <2>1. Vector(map, d, "MVEX", 4) /\ p1 % 16 \in DOMAIN MvexMap
    BY <1>10 DEF Mvex, IsMvex
  <2>2. map \in Maps
    BY <2>1 DEF MvexMap, Maps
  <2>3. e \in DiagramType
    BY <1>4
  <2>4. d \in DiagramType
    <3>. HIDE DEF e, x
    <3>. QED
      BY <1>1, <1>3, <2>3 DEF DiagramType, Encodings
  <2>. HIDE DEF d, map
  <2>. QED
    BY <1>5, <2>1, <2>2, <2>4, VectorType
<1>. QED
  BY <1>6, <1>7, <1>8, <1>9, <1>10

\* Every step of the prefix scan.
LEMMA PrefixType ==
  ASSUME TypeOK, Prefix
  PROVE  TypeOK'
<1>1. CASE OpcodeByte
  <2>1. PlaceType'
    BY <1>1 DEF OpcodeByte, TypeOK, PlaceType, Locations
  <2>. QED
    BY <1>1, <2>1, Unchanged DEF OpcodeByte, TypeOK
<1>. QED
  BY <1>1, PrefixBytesType, EscapeMapType, VectorPrefixType DEF Prefix

\* A row of the tables has its type, and its nodes fit the slots.
LEMMA EntryNodes ==
  ASSUME NEW e \in Entries
  PROVE  e \in EntryType /\ e.nodes \in Seq(NodeType) /\ Len(e.nodes) \in 0..Slots
<1>1. e \in EntryType /\ Len(e.nodes) <= Slots
  BY EntriesAssumption
<1>2. e.nodes \in Seq(NodeType)
  BY <1>1 DEF EntryType
<1>3. Len(e.nodes) \in 0..Slots
  <2>. DEFINE nodes == e.nodes
  <2>1. nodes \in Seq(NodeType) /\ Len(nodes) <= Slots
    BY <1>1, <1>2
  <2>. HIDE DEF nodes
  <2>2. Len(nodes) \in Nat
    BY <2>1
  <2>3. \A n \in Nat : n <= Slots => n \in 0..Slots
    BY DEF Slots
  <2>4. Len(nodes) \in 0..Slots
    BY <2>1, <2>2, <2>3
  <2>. QED
    BY <2>4 DEF nodes
<1>. QED
  BY <1>1, <1>2, <1>3

\* x86_lookup answers a row of the tables.
LEMMA LookupRow ==
  ASSUME NEW map, NEW d, NEW e \in Lookup(map, d)
  PROVE  e \in Entries
BY FirstEntryType DEF Lookup

\* REX.W and the operand size of the lookup.
LEMMA SizedDiagramType ==
  ASSUME diagram \in DiagramType
  PROVE  SizedDiagram \in DiagramType
<1>. DEFINE osz == IF diagram.enc = "NONE" /\ diagram.w THEN 2 ELSE diagram.osz
<1>1. osz \in 0..2
  BY DEF DiagramType
<1>2. SizedDiagram = [diagram EXCEPT !.osz = osz]
  BY DEF SizedDiagram
<1>. HIDE DEF osz
<1>. QED
  BY <1>1, <1>2 DEF DiagramType

\* The operand size and the ModRM fields an encoding forces.
LEMMA EnteredDiagramType ==
  ASSUME NEW d \in DiagramType, NEW e
  PROVE  EnteredDiagram(d, e) \in DiagramType
<1>. DEFINE osz == ForcedSize(d, e)
<1>1. osz \in 0..2
  <2>1. d.osz \in 0..2
    BY DEF DiagramType
  <2>. QED
    BY <2>1 DEF ForcedSize
<1>. HIDE DEF osz
<1>2. [d EXCEPT !.osz = osz] \in DiagramType
  BY <1>1 DEF DiagramType
<1>3. [d EXCEPT !.osz = osz, !.mod = 0, !.reg = 0, !.rm = 0] \in DiagramType
  <2>1. \A mod \in 0..3, reg, rm \in 0..7 :
          [d EXCEPT !.osz = osz, !.mod = mod, !.reg = reg, !.rm = rm] \in DiagramType
    BY <1>1, ZenonT(180) DEF DiagramType
  <2>2. 0 \in 0..3 /\ 0 \in 0..7
    OBVIOUS
  <2>. QED
    BY <2>1, <2>2
<1>. QED
  BY <1>2, <1>3 DEF EnteredDiagram, osz

\* The opcode, the guessed ModRM and the lookup.
LEMMA OpcodeType ==
  ASSUME TypeOK, Opcode
  PROVE  TypeOK'
<1>1. diagram \in DiagramType /\ addressing \in [has_base : BOOLEAN, has_index : BOOLEAN,
                                                base_ip : BOOLEAN]
  BY DEF TypeOK, FieldsType
<1>2. op \in Byte /\ ByteAt(pc + 1) \in Byte /\ 0 \in Byte
  <2>1. pc \in Int /\ pc + 1 \in Int
    BY DEF TypeOK, CursorType
  <2>. QED
    BY <2>1, ByteAtType DEF TypeOK, op, Byte
<1>3. PlaceType'
  BY DEF Opcode, NoOpcode, ModRMFirst, OpcodeFirst, OpcodeLast, LookUp, Fail, TypeOK,
         PlaceType, Locations
<1>4. CASE NoOpcode
  BY <1>3, <1>4, Unchanged DEF NoOpcode, TypeOK
<1>5. CASE ModRMFirst
  <2>1. diagram' \in DiagramType
    BY <1>1, <1>2, <1>5, SetModRMType DEF ModRMFirst
  <2>2. FieldsType'
    BY <1>1, <1>5, <2>1 DEF ModRMFirst, FieldsType
  <2>. QED
    BY <1>3, <1>5, <2>2, Unchanged DEF ModRMFirst, TypeOK
<1>6. CASE OpcodeFirst
  <2>. DEFINE modrm == IF Has(2) THEN ByteAt(pc + 1) ELSE 0
              d     == SetModRM(diagram, modrm)
  <2>1. d \in DiagramType
    BY <1>1, <1>2, SetModRMType
  <2>2. diagram' = [d EXCEPT !.opcode = op]
    BY <1>6 DEF OpcodeFirst
  <2>. HIDE DEF d
  <2>3. diagram' \in DiagramType
    BY <1>2, <2>1, <2>2 DEF DiagramType
  <2>4. FieldsType'
    BY <1>1, <1>6, <2>3 DEF OpcodeFirst, FieldsType
  <2>5. CursorType' /\ RecordsType'
    BY <1>6, TakeType DEF OpcodeFirst, TypeOK, CursorType, BytecodeTypes
  <2>. QED
    BY <1>3, <1>6, <2>4, <2>5, Unchanged DEF OpcodeFirst, TypeOK
<1>7. CASE OpcodeLast
  <2>1. diagram' \in DiagramType
    BY <1>1, <1>2, <1>7 DEF OpcodeLast, DiagramType
  <2>2. FieldsType'
    BY <1>1, <1>7, <2>1 DEF OpcodeLast, FieldsType
  <2>3. CursorType' /\ RecordsType'
    BY <1>7, TakeType DEF OpcodeLast, TypeOK, CursorType, BytecodeTypes
  <2>. QED
    BY <1>3, <1>7, <2>2, <2>3, Unchanged DEF OpcodeLast, TypeOK
<1>8. CASE LookUp
  <2>1. PICK e \in Lookup(mapidx, SizedDiagram) :
          /\ entry' = e
          /\ diagram' = EnteredDiagram(SizedDiagram, e)
          /\ flags' = LookUpFlags(e)
    BY <1>8 DEF LookUp
  <2>2. entry' \in Entries
    BY <2>1, LookupRow
  <2>3. diagram' \in DiagramType
    BY <1>1, <2>1, SizedDiagramType, EnteredDiagramType
  <2>4. flags' \subseteq Flags
    BY <2>1 DEF LookUpFlags, TypeOK, ResultType, Flags
  <2>5. FieldsType'
    BY <1>1, <1>8, <2>3 DEF LookUp, FieldsType
  <2>6. ResultType'
    BY <1>8, <2>4 DEF LookUp, TypeOK, ResultType
  <2>7. WalkType'
    BY <1>8, <2>2 DEF LookUp, TypeOK, WalkType
  <2>. QED
    BY <1>3, <1>8, <2>5, <2>6, <2>7, Unchanged DEF LookUp, TypeOK
<1>. QED
  BY <1>4, <1>5, <1>6, <1>7, <1>8 DEF Opcode

\* The diagram and the place decode_modrm leaves, wherever it is in its bytes.
LEMMA ModRMReturnsType ==
  ASSUME PlaceType, NEW ok \in BOOLEAN, ModRMReturns(ok)
  PROVE  PlaceType'
BY DEF PlaceType, ModRMReturns, Fail, Locations

\* What decode_modrm does behind the SIB byte.
LEMMA AfterSibType ==
  ASSUME PlaceType, NEW d \in DiagramType, AfterSib(d)
  PROVE  PlaceType' /\ diagram' \in DiagramType
<1>1. [d EXCEPT !.has_modrm = TRUE] \in DiagramType
  BY DEF DiagramType
<1>2. CASE DispSize(d.mod, d.rm) > 0
  BY <1>2 DEF AfterSib, PlaceType, Locations
<1>3. CASE ~(DispSize(d.mod, d.rm) > 0)
  BY <1>1, <1>3, ModRMReturnsType DEF AfterSib
<1>. QED
  BY <1>2, <1>3

\* A displacement is one or four bytes where there is one.
LEMMA DispSizes ==
  ASSUME NEW mod, NEW rm
  PROVE  DispSize(mod, rm) \in {0, 1, 4} /\ SibDispSize(mod, rm) \in {0, 1, 4}
BY DEF DispSize, SibDispSize

\* The ModRM byte put together again is a byte.
LEMMA ModRMFieldBytes ==
  ASSUME NEW d \in DiagramType
  PROVE  <<ModRMByte(d.mod, d.reg, d.rm)>> \in Seq(Byte)
<1>1. d.mod \in 0..3 /\ d.reg \in 0..7 /\ d.rm \in 0..7
  BY DEF DiagramType
<1>2. ModRMByte(d.mod, d.reg, d.rm) \in Byte
  BY <1>1 DEF ModRMByte, Byte
<1>. QED
  BY <1>2

\* ModRM, SIB and the displacements.
LEMMA AddressingType ==
  ASSUME TypeOK, Addressing
  PROVE  TypeOK'
<1>. DEFINE A == [has_base : BOOLEAN, has_index : BOOLEAN, base_ip : BOOLEAN]
<1>1. diagram \in DiagramType /\ addressing \in A
  BY DEF TypeOK, FieldsType
<1>2. CallerType' /\ ResultType' /\ PrefixesType' /\ WalkType' /\ nb' = nb
  BY Unchanged DEF Addressing, ModRM, SibMissing, Sib, SibDisp, ModRMDisp
<1>3. [diagram EXCEPT !.has_disp = TRUE] \in DiagramType
  BY <1>1 DEF DiagramType
<1>4. CASE ModRM
  <2>. DEFINE base == (diagram.mod = 0 /\ diagram.rm = 5)
                        => (diagram.long_mode /\ diagram.asz # 0)
              ip   == (diagram.mod = 0 /\ diagram.rm = 5)
                        /\ (diagram.long_mode /\ diagram.asz # 0)
  <2>1. addressing' = [addressing EXCEPT !.has_base = base, !.base_ip = ip]
    BY <1>4 DEF ModRM
  <2>2. base \in BOOLEAN /\ ip \in BOOLEAN
    OBVIOUS
  <2>3. addressing' \in A
    <3>. HIDE DEF base, ip
    <3>. QED
      BY <1>1, <2>1, <2>2
  <2>4. PlaceType' /\ diagram' \in DiagramType
    <3>1. CASE NeedsSib(diagram.mod, diagram.rm)
      BY <1>1, <1>4, <3>1 DEF ModRM, TypeOK, PlaceType, Locations
    <3>2. CASE ~NeedsSib(diagram.mod, diagram.rm)
      BY <1>1, <1>4, <3>2, AfterSibType DEF ModRM, TypeOK
    <3>. QED
      BY <3>1, <3>2
  <2>5. pc' \in 0..Wrap - 1 /\ RecordsType'
    <3>1. Advance(1)
      BY <1>4 DEF ModRM
    <3>2. AddBytecode("MODRM", <<ModRMByte(diagram.mod, diagram.reg, diagram.rm)>>)
      BY <1>4 DEF ModRM
    <3>. QED
      BY <1>1, <3>1, <3>2, ModRMFieldBytes, AdvanceType, AddBytecodeType
         DEF TypeOK, BytecodeTypes
  <2>. QED
    BY <1>2, <2>3, <2>4, <2>5 DEF TypeOK, FieldsType, CursorType
<1>5. CASE SibMissing
  <2>1. PlaceType'
    BY <1>5, ModRMReturnsType DEF SibMissing, TypeOK
  <2>. QED
    BY <1>2, <1>5, <2>1, Unchanged DEF SibMissing, TypeOK
<1>6. CASE Sib
  <2>. DEFINE index == IndexOf(op)
              base  == BaseOf(op)
              d     == [diagram EXCEPT !.index = index, !.base = base, !.has_sib = TRUE]
              has_index == d.enc # "NONE" \/ d.x \/ d.index # 4
              has_base  == addressing.has_base /\ ~(d.base = 5 /\ d.mod = 0)
  <2>1. index \in 0..7 /\ base \in 0..7
    <3>1. op \in Byte
      BY ByteAtType DEF TypeOK, CursorType, op
    <3>. QED
      BY <3>1 DEF IndexOf, BaseOf, Byte
  <2>2. d \in DiagramType
    <3>. HIDE DEF index, base
    <3>. QED
      BY <1>1, <2>1 DEF DiagramType
  <2>3. addressing' = [addressing EXCEPT !.has_index = has_index, !.has_base = has_base]
    BY <1>6 DEF Sib
  <2>4. addressing' \in A
    <3>1. has_index \in BOOLEAN /\ has_base \in BOOLEAN
      OBVIOUS
    <3>. HIDE DEF has_index, has_base
    <3>. QED
      BY <1>1, <2>3, <3>1
  <2>5. PlaceType' /\ diagram' \in DiagramType
    <3>1. IF SibDispSize(d.mod, d.base) > 0
          THEN loc' = "sibdisp" /\ diagram' = d /\ UNCHANGED ret
          ELSE AfterSib(d)
      BY <1>6 DEF Sib
    <3>. HIDE DEF d
    <3>2. CASE SibDispSize(d.mod, d.base) > 0
      BY <2>2, <3>1, <3>2 DEF TypeOK, PlaceType, Locations
    <3>3. CASE ~(SibDispSize(d.mod, d.base) > 0)
      BY <2>2, <3>1, <3>3, AfterSibType DEF TypeOK
    <3>. QED
      BY <3>2, <3>3
  <2>6. pc' \in 0..Wrap - 1 /\ RecordsType'
    BY <1>6, TakeType DEF Sib, TypeOK, BytecodeTypes
  <2>. QED
    BY <1>2, <2>4, <2>5, <2>6 DEF TypeOK, FieldsType, CursorType
<1>7. ASSUME NEW n \in {0, 1, 4}, DispMissing(n), addressing' = addressing
      PROVE  TypeOK'
  <2>1. PlaceType'
    BY <1>7, ModRMReturnsType DEF DispMissing, TypeOK
  <2>2. FieldsType' /\ CursorType' /\ RecordsType'
    BY <1>2, <1>7, Unchanged DEF DispMissing
  <2>. QED
    BY <1>2, <2>1, <2>2 DEF TypeOK
<1>8. ASSUME NEW n \in {0, 1, 4}, Take("DISP", n), addressing' = addressing,
             diagram' \in DiagramType, PlaceType'
      PROVE  TypeOK'
  <2>1. pc' \in 0..Wrap - 1 /\ RecordsType'
    BY <1>8, TakeType DEF TypeOK, BytecodeTypes
  <2>2. FieldsType'
    BY <1>1, <1>8 DEF FieldsType
  <2>. QED
    BY <1>2, <1>8, <2>1, <2>2 DEF TypeOK, CursorType
<1>9. CASE SibDisp
  <2>1. PICK n \in {0, 1, 4} : DispMissing(n) \/ Disp(n, AfterSib)
    BY <1>9, DispSizes DEF SibDisp
  <2>2. addressing' = addressing
    BY <1>9 DEF SibDisp
  <2>3. CASE Disp(n, AfterSib)
    <3>1. Take("DISP", n) /\ AfterSib([diagram EXCEPT !.has_disp = TRUE])
      BY <2>3 DEF Disp
    <3>2. PlaceType' /\ diagram' \in DiagramType
      BY <1>3, <3>1, AfterSibType DEF TypeOK
    <3>. QED
      BY <1>8, <2>2, <3>1, <3>2
  <2>. QED
    BY <1>7, <2>1, <2>2, <2>3
<1>10. CASE ModRMDisp
  <2>1. PICK n \in {0, 1, 4} : DispMissing(n) \/ Disp(n, ModRMDone)
    BY <1>10, DispSizes DEF ModRMDisp
  <2>2. addressing' = addressing
    BY <1>10 DEF ModRMDisp
  <2>3. CASE Disp(n, ModRMDone)
    <3>. DEFINE d == [diagram EXCEPT !.has_disp = TRUE]
    <3>1. Take("DISP", n) /\ diagram' = [d EXCEPT !.has_modrm = TRUE] /\ ModRMReturns(TRUE)
      BY <2>3 DEF Disp, ModRMDone
    <3>. HIDE DEF d
    <3>2. d \in DiagramType
      BY <1>3 DEF d
    <3>3. diagram' \in DiagramType
      BY <3>1, <3>2 DEF DiagramType
    <3>4. PlaceType'
      BY <3>1, ModRMReturnsType DEF TypeOK
    <3>. QED
      BY <1>8, <2>2, <3>1, <3>3, <3>4
  <2>. QED
    BY <1>7, <2>1, <2>2, <2>3
<1>. QED
  BY <1>4, <1>5, <1>6, <1>9, <1>10 DEF Addressing

\* On a node of the list there is a slot to write and a node to pass.
LEMMA NodeAt ==
  ASSUME TypeOK, WalkInv, node <= Len(entry.nodes)
  PROVE  /\ Node \in NodeType
         /\ slot \in 0..Slots - 1 /\ slot + 1 \in 0..Slots
         /\ node + 1 \in 1..Slots + 1
         /\ OldBase \in Bases
<1>. DEFINE nodes == entry.nodes
<1>1. nodes \in Seq(NodeType) /\ Len(nodes) \in 0..Slots
  BY EntryNodes DEF TypeOK, WalkType
<1>2. node \in 1..Slots + 1 /\ slot \in 0..Slots /\ slot < node /\ node <= Len(nodes)
  BY DEF TypeOK, WalkType, WalkInv
<1>3. Node = nodes[node]
  BY DEF Node
<1>. HIDE DEF nodes
<1>4. node \in 1..Len(nodes) /\ node \in 1..Slots
  <2>1. \A n \in 0..Slots, k \in 1..Slots + 1 : k <= n => k \in 1..n /\ k \in 1..Slots
    BY DEF Slots
  <2>. QED
    BY <1>1, <1>2, <2>1
<1>5. Node \in NodeType
  BY <1>1, <1>3, <1>4
<1>6. slot \in 0..Slots - 1 /\ slot + 1 \in 0..Slots /\ node + 1 \in 1..Slots + 1
  BY <1>2, <1>4 DEF Slots
<1>7. OldBase \in Bases
  <2>1. arguments[slot] \in [type : ArgumentTypes, base : Bases]
    BY <1>6 DEF TypeOK, ResultType
  <2>. QED
    BY <2>1 DEF OldBase
<1>. QED
  BY <1>5, <1>6, <1>7

\* The slot written keeps the type of the arguments.
LEMMA SetType ==
  ASSUME ResultType, NEW type \in ArgumentTypes, NEW base \in Bases, Set(type, base)
  PROVE  arguments' \in [0..Slots - 1 -> [type : ArgumentTypes, base : Bases]]
<1>. DEFINE argument == [type |-> type, base |-> base]
<1>1. argument \in [type : ArgumentTypes, base : Bases]
  OBVIOUS
<1>2. arguments' = [arguments EXCEPT ![slot] = argument]
  BY DEF Set
<1>. HIDE DEF argument
<1>. QED
  BY <1>1, <1>2 DEF ResultType

\* The slot and node after a decoded node stay in their ranges.
LEMMA FillType ==
  ASSUME TypeOK, WalkInv, node <= Len(entry.nodes), NEW type, Fill(type)
  PROVE  /\ PlaceType'
         /\ node' \in 1..Slots + 1 /\ slot' \in 0..Slots
BY NodeAt DEF Fill, TypeOK, PlaceType, WalkType

\* The byte register and immediate share, read or not.
LEMMA TakeIs4Type ==
  ASSUME TypeOK, TakeIs4 \/ UNCHANGED <<records, pc, diagram>>
  PROVE  pc' \in 0..Wrap - 1 /\ RecordsType' /\ diagram' \in DiagramType
<1>1. diagram \in DiagramType
  BY DEF TypeOK, FieldsType
<1>2. CASE UNCHANGED <<records, pc, diagram>>
  BY <1>1, <1>2, Unchanged DEF TypeOK, CursorType
<1>3. CASE Take("IMM", 1) /\ diagram' = [diagram EXCEPT !.has_is4 = TRUE]
  <2>1. diagram' \in DiagramType
    BY <1>1, <1>3, ZenonT(180) DEF DiagramType
  <2>. QED
    BY <1>3, <2>1, TakeType DEF TypeOK, BytecodeTypes
<1>. QED
  BY <1>2, <1>3 DEF TakeIs4

\* What every node handler but PtrOffset does to its slot.
LEMMA SlotType ==
  ASSUME TypeOK, WalkInv, node <= Len(entry.nodes), UNCHANGED insn,
         flags' \subseteq Flags, NEW type \in ArgumentTypes, NEW base \in Bases,
         Set(type, base)
  PROVE  ResultType'
<1>1. arguments' \in [0..Slots - 1 -> [type : ArgumentTypes, base : Bases]]
  BY SetType DEF TypeOK
<1>. QED
  BY <1>1 DEF TypeOK, ResultType

\* An immediate is at most eight bytes.
LEMMA ImmediateSizes ==
  ASSUME TypeOK, WalkInv, node <= Len(entry.nodes)
  PROVE  Node.bytes[diagram.osz] \in 0..8
<1>1. Node.bytes \in [0..2 -> 0..8]
  BY NodeAt DEF NodeType
<1>2. diagram.osz \in 0..2
  BY DEF TypeOK, FieldsType, DiagramType
<1>. QED
  BY <1>1, <1>2

\* decode_arg_reg.
LEMMA RegisterNodeType ==
  ASSUME TypeOK, WalkInv, RegisterNode
  PROVE  TypeOK'
<1>1. node <= Len(entry.nodes)
  BY DEF RegisterNode, At
<1>2. pc' \in 0..Wrap - 1 /\ RecordsType' /\ diagram' \in DiagramType
  BY TakeIs4Type DEF RegisterNode
<1>3. flags' \subseteq Flags
  BY DEF RegisterNode, TypeOK, ResultType, Flags
<1>4. ResultType'
  <2>1. Set("REGISTER", OldBase) /\ UNCHANGED insn
    BY DEF RegisterNode
  <2>2. OldBase \in Bases /\ "REGISTER" \in ArgumentTypes
    BY <1>1, NodeAt DEF ArgumentTypes
  <2>. QED
    BY <1>1, <1>3, <2>1, <2>2, SlotType
<1>5. PlaceType' /\ node' \in 1..Slots + 1 /\ slot' \in 0..Slots
  BY <1>1, FillType DEF RegisterNode
<1>6. src_reg' \in BOOLEAN /\ vmem' = vmem /\ entry' = entry
  BY DEF RegisterNode
<1>7. WalkType'
  BY <1>5, <1>6 DEF TypeOK, WalkType
<1>8. FieldsType' /\ CursorType'
  BY <1>2 DEF RegisterNode, TypeOK, FieldsType, CursorType
<1>9. CallerType' /\ PrefixesType'
  BY Unchanged DEF RegisterNode
<1>. QED
  BY <1>2, <1>4, <1>5, <1>7, <1>8, <1>9 DEF TypeOK

\* decode_arg_mem, and the address nodes built on it.
LEMMA MemoryNodeType ==
  ASSUME TypeOK, WalkInv, MemoryNode
  PROVE  TypeOK'
<1>. DEFINE type == IF Node.type = "MEM" THEN "MEMORY" ELSE "ADDRESS"
            base == IF Node.encoded THEN MemoryBase ELSE "REG"
<1>1. node <= Len(entry.nodes)
  BY DEF MemoryNode, At
<1>2. flags' \subseteq Flags
  BY DEF MemoryNode, TypeOK, ResultType, Flags
<1>3. Set(type, base) /\ Fill(type) /\ UNCHANGED insn
  BY DEF MemoryNode
<1>4. type \in ArgumentTypes /\ base \in Bases
  BY DEF ArgumentTypes, MemoryBase, Bases
<1>. HIDE DEF type, base
<1>5. ResultType'
  BY <1>1, <1>2, <1>3, <1>4, SlotType
<1>6. PlaceType' /\ node' \in 1..Slots + 1 /\ slot' \in 0..Slots
  BY <1>1, <1>3, FillType
<1>7. vmem' \in BOOLEAN /\ src_reg' = src_reg /\ entry' = entry
  BY DEF MemoryNode
<1>8. WalkType'
  BY <1>6, <1>7 DEF TypeOK, WalkType
<1>9. CallerType' /\ RecordsType' /\ CursorType' /\ PrefixesType' /\ FieldsType'
  BY Unchanged DEF MemoryNode
<1>. QED
  BY <1>5, <1>6, <1>8, <1>9 DEF TypeOK

\* decode_arg_imm with its bytes inside the buffer.
LEMMA ImmediateNodeType ==
  ASSUME TypeOK, WalkInv, ImmediateNode
  PROVE  TypeOK'
<1>. DEFINE n    == Node.bytes[diagram.osz]
            base == IF Node.type = "CC" /\ op <= 31 THEN "NONE" ELSE OldBase
<1>1. node <= Len(entry.nodes)
  BY DEF ImmediateNode, At
<1>2. n \in Nat
  BY <1>1, ImmediateSizes
<1>3. flags' \subseteq Flags
  BY DEF ImmediateNode, MayBeUgly, TypeOK, ResultType, Flags
<1>4. Set(ImmediateArgument, base) /\ Fill(ImmediateArgument) /\ UNCHANGED insn
  BY DEF ImmediateNode
<1>5. base \in Bases /\ ImmediateArgument \in ArgumentTypes
  <2>1. OldBase \in Bases
    BY <1>1, NodeAt
  <2>. QED
    BY <2>1 DEF Bases, ImmediateArgument, ArgumentTypes
<1>6. pc' \in 0..Wrap - 1 /\ RecordsType'
  <2>1. CASE n > 0
    <3>1. Take("IMM", n)
      BY <2>1 DEF ImmediateNode
    <3>. HIDE DEF n
    <3>. QED
      BY <1>2, <3>1, TakeType DEF TypeOK, BytecodeTypes
  <2>2. CASE ~(n > 0)
    BY <2>2, Unchanged DEF ImmediateNode, TypeOK, CursorType
  <2>. QED
    BY <2>1, <2>2
<1>. HIDE DEF base, n
<1>7. ResultType'
  BY <1>1, <1>3, <1>4, <1>5, SlotType
<1>8. PlaceType' /\ node' \in 1..Slots + 1 /\ slot' \in 0..Slots
  BY <1>1, <1>4, FillType
<1>9. WalkType'
  BY <1>8 DEF ImmediateNode, TypeOK, WalkType
<1>10. CallerType' /\ PrefixesType' /\ FieldsType' /\ nb' = nb
  BY Unchanged DEF ImmediateNode
<1>. QED
  BY <1>6, <1>7, <1>8, <1>9, <1>10 DEF TypeOK, CursorType

\* A node whose bytes are missing.
LEMMA MissingType ==
  ASSUME TypeOK, WalkInv, ImmediateMissing \/ MoffsMissing
  PROVE  TypeOK'
<1>1. node <= Len(entry.nodes) /\ UNCHANGED <<insn, flags>>
  BY DEF ImmediateMissing, MoffsMissing, At
<1>2. OldBase \in Bases
  BY <1>1, NodeAt
<1>3. \E type \in ArgumentTypes : Set(type, OldBase)
  BY DEF ImmediateMissing, MoffsMissing, ArgumentTypes
<1>4. ResultType'
  <2>1. flags' \subseteq Flags
    BY <1>1 DEF TypeOK, ResultType
  <2>. QED
    BY <1>1, <1>2, <1>3, <2>1, SlotType
<1>5. PlaceType'
  BY DEF ImmediateMissing, MoffsMissing, GiveUp, PlaceType, Locations
<1>6. CallerType' /\ RecordsType' /\ CursorType' /\ PrefixesType' /\ FieldsType'
  BY Unchanged DEF ImmediateMissing, MoffsMissing
<1>7. WalkType'
  BY Unchanged DEF ImmediateMissing, MoffsMissing, GiveUp, walk
<1>. QED
  BY <1>4, <1>5, <1>6, <1>7 DEF TypeOK

\* decode_arg_moffs with its bytes inside the buffer.
LEMMA MoffsNodeType ==
  ASSUME TypeOK, WalkInv, MoffsNode
  PROVE  TypeOK'
<1>1. node <= Len(entry.nodes) /\ Set("MEMORY", OldBase) /\ Fill("MEMORY") /\ UNCHANGED insn
  BY DEF MoffsNode, At
<1>2. ResultType'
  <2>1. flags' \subseteq Flags
    BY DEF MoffsNode, TypeOK, ResultType, Flags
  <2>2. "MEMORY" \in ArgumentTypes /\ OldBase \in Bases
    BY <1>1, NodeAt DEF ArgumentTypes
  <2>. QED
    BY <1>1, <2>1, <2>2, SlotType
<1>3. pc' \in 0..Wrap - 1 /\ RecordsType'
  <2>1. MoffsSize \in Nat /\ Take("DISP", MoffsSize)
    BY DEF MoffsNode, MoffsSize
  <2>. QED
    BY <2>1, TakeType DEF TypeOK, BytecodeTypes
<1>4. PlaceType' /\ node' \in 1..Slots + 1 /\ slot' \in 0..Slots
  BY <1>1, FillType
<1>5. WalkType'
  BY <1>4 DEF MoffsNode, TypeOK, WalkType
<1>6. CallerType' /\ PrefixesType' /\ FieldsType' /\ nb' = nb
  BY Unchanged DEF MoffsNode
<1>. QED
  BY <1>2, <1>3, <1>4, <1>5, <1>6 DEF TypeOK, CursorType

\* decode_arg_ptr, segment and offset.
LEMMA PtrType ==
  ASSUME TypeOK, WalkInv, PtrSegment \/ PtrOffset
  PROVE  TypeOK'
<1>1. node <= Len(entry.nodes) /\ UNCHANGED <<insn, flags>>
  BY DEF PtrSegment, PtrOffset, At, WalkInv
<1>2. /\ OldBase \in Bases
      /\ node + 1 \in 1..Slots + 1 /\ slot + 1 \in 0..Slots
  BY <1>1, NodeAt
<1>3. flags' \subseteq Flags
  BY <1>1 DEF TypeOK, ResultType
<1>4. CallerType' /\ PrefixesType' /\ FieldsType' /\ nb' = nb
  BY Unchanged DEF PtrSegment, PtrOffset
<1>5. PlaceType'
  BY DEF PtrSegment, PtrOffset, GiveUp, TypeOK, PlaceType, Locations
<1>6. ResultType'
  <2>1. CASE Set("NONE", OldBase) \/ Set("PTR", OldBase)
    <3>1. "NONE" \in ArgumentTypes /\ "PTR" \in ArgumentTypes
      BY DEF ArgumentTypes
    <3>. QED
      BY <1>1, <1>2, <1>3, <2>1, <3>1, SlotType
  <2>2. CASE UNCHANGED arguments
    BY <1>1, <2>2, Unchanged DEF result
  <2>. QED
    BY <2>1, <2>2 DEF PtrSegment, PtrOffset
<1>7. pc' \in 0..Wrap - 1 /\ RecordsType'
  <2>1. CASE UNCHANGED <<records, pc>>
    BY <2>1, Unchanged DEF TypeOK, CursorType
  <2>2. CASE Take("ABS_SEG", 2)
    BY <2>2, TakeType DEF TypeOK, BytecodeTypes
  <2>3. CASE Take("DISP", PtrSize)
    <3>1. PtrSize \in Nat
      BY DEF PtrSize
    <3>. QED
      BY <2>3, <3>1, TakeType DEF TypeOK, BytecodeTypes
  <2>. QED
    BY <2>1, <2>2, <2>3 DEF PtrSegment, PtrOffset
<1>8. node' \in 1..Slots + 1 /\ slot' \in 0..Slots
  BY <1>2 DEF PtrSegment, PtrOffset, GiveUp, TypeOK, WalkType
<1>9. WalkType'
  BY <1>8 DEF PtrSegment, PtrOffset, TypeOK, WalkType
<1>. QED
  BY <1>4, <1>5, <1>6, <1>7, <1>9 DEF TypeOK, CursorType

\* Nodes that take no byte and leave a token, or nothing, in the slot.
LEMMA TokenType ==
  ASSUME TypeOK, WalkInv, TokenNode \/ QualifierNode
  PROVE  TypeOK'
<1>1. node <= Len(entry.nodes) /\ UNCHANGED insn
  BY DEF TokenNode, QualifierNode, At
<1>2. PICK type \in ArgumentTypes, base \in Bases : Set(type, base) /\ Fill(type)
  <2>1. CASE TokenNode
    <3>. DEFINE type == IF Node.type = "RC" THEN "ROUNDING" ELSE Node.type
    <3>1. Set(type, "NONE") /\ Fill(type)
      BY <2>1 DEF TokenNode
    <3>2. type \in ArgumentTypes /\ "NONE" \in Bases
      BY <2>1 DEF TokenNode, At, Node, ArgumentTypes, Bases
    <3>. QED
      BY <3>1, <3>2
  <2>2. CASE QualifierNode
    <3>1. Set("NONE", OldBase) /\ Fill("NONE")
      BY <2>2 DEF QualifierNode
    <3>2. "NONE" \in ArgumentTypes /\ OldBase \in Bases
      BY <1>1, NodeAt DEF ArgumentTypes
    <3>. QED
      BY <3>1, <3>2
  <2>. QED
    BY <2>1, <2>2
<1>3. ResultType'
  <2>1. flags' \subseteq Flags
    BY DEF TokenNode, QualifierNode, TypeOK, ResultType, Flags
  <2>. QED
    BY <1>1, <1>2, <2>1, SlotType
<1>4. PlaceType' /\ node' \in 1..Slots + 1 /\ slot' \in 0..Slots
  BY <1>1, <1>2, FillType
<1>5. WalkType'
  BY <1>4 DEF TokenNode, QualifierNode, TypeOK, WalkType
<1>6. CallerType' /\ RecordsType' /\ CursorType' /\ PrefixesType' /\ FieldsType'
  BY Unchanged DEF TokenNode, QualifierNode
<1>. QED
  BY <1>3, <1>4, <1>5, <1>6 DEF TypeOK

\* The head and the end of decode_template.
LEMMA TemplateType ==
  ASSUME TypeOK, Template \/ NodesDone
  PROVE  TypeOK'
<1>1. entry \in EntryType /\ slot \in Nat
  BY EntryNodes DEF TypeOK, WalkType
<1>2. insn' \in InsnType
  <2>1. CASE Template
    <3>. DEFINE f == Functionality
    <3>1. f \in Functionalities /\ entry.template \in Written
      BY <1>1 DEF Functionality, Functionalities, EntryType, Written
    <3>2. insn' = [insn EXCEPT !.iform = entry.template, !.prefix_functionality = f]
      BY <2>1 DEF Template
    <3>. HIDE DEF f
    <3>. QED
      BY <3>1, <3>2 DEF TypeOK, ResultType, InsnType
  <2>2. CASE NodesDone
    <3>1. slot \in Written /\ entry.encoding \in Written
      BY <1>1 DEF EntryType, Written
    <3>. QED
      BY <2>2, <3>1 DEF NodesDone, TypeOK, ResultType, InsnType
  <2>. QED
    BY <2>1, <2>2
<1>3. ResultType'
  BY <1>2 DEF Template, NodesDone, TypeOK, ResultType, Flags
<1>4. PlaceType'
  BY DEF Template, NodesDone, TypeOK, PlaceType, Locations
<1>5. CallerType' /\ RecordsType' /\ CursorType' /\ PrefixesType' /\ FieldsType' /\ WalkType'
  BY Unchanged DEF Template, NodesDone
<1>. QED
  BY <1>3, <1>4, <1>5 DEF TypeOK

\* Every step of decode_template.
LEMMA ArgumentsType ==
  ASSUME TypeOK, WalkInv, Arguments
  PROVE  TypeOK'
BY RegisterNodeType, MemoryNodeType, ImmediateNodeType, MissingType, MoffsNodeType, PtrType,
   TokenType, TemplateType DEF Arguments
-----------------------------------------------------------------------------
(* The walk over the nodes.                                                *)

\* Where an action leaves the walk alone.
LEMMA WalkStays ==
  ASSUME WalkInv, UNCHANGED walk, loc' # "ptr", loc' \in BeforeNodes => loc \in BeforeNodes
  PROVE  WalkInv'
BY DEF WalkInv, walk

\* Where a node has been decoded.
LEMMA WalkFills ==
  ASSUME TypeOK, WalkInv, node <= Len(entry.nodes), loc \in {"nodes", "ptr"},
         loc' = "nodes", entry' = entry, node' = node + 1, slot' \in {slot, slot + 1}
  PROVE  WalkInv'
<1>. DEFINE n == Len(entry.nodes)
<1>1. n \in Nat /\ node \in Nat /\ slot \in Nat /\ slot < node /\ node <= n
  BY EntryNodes DEF TypeOK, WalkType, WalkInv, Slots
<1>2. Len(entry'.nodes) = n
  OBVIOUS
<1>. HIDE DEF n
<1>3. slot' < node' /\ node' <= n + 1
  BY <1>1
<1>. QED
  BY <1>2, <1>3 DEF WalkInv, BeforeNodes

\* Node and slot move together through decode_nodes.
LEMMA WalkStep ==
  ASSUME TypeOK, WalkInv, DecodeInsn
  PROVE  WalkInv'
<1>1. CASE RejectEmpty \/ Return
  BY <1>1, WalkStays DEF RejectEmpty, Return, BeforeNodes
<1>2. CASE Begin
  <2>1. FirstEntry \in Entries
    BY FirstEntryType
  <2>2. 1 <= Len(FirstEntry.nodes) + 1
    BY <2>1, EntryNodes DEF Slots
  <2>3. loc' # "ptr"
    BY <1>2 DEF Begin
  <2>. QED
    BY <1>2, <2>2, <2>3 DEF Begin, WalkInv
<1>3. CASE Prefix
  BY <1>3, WalkStays DEF Prefix, Rex, SegmentPrefix, OperandSizePrefix, AddressSizePrefix,
     LockPrefix, RepeatPrefix, EscapeMap, Vex2, Vex3, Xop, Evex, Mvex, Vector, OpcodeByte,
     BeforeNodes
<1>4. CASE Opcode
  <2>1. CASE LookUp
    <3>1. PICK e \in Entries : entry' = e
      BY <2>1, LookupRow DEF LookUp
    <3>2. node' = 1 /\ slot' = 0
      BY <2>1 DEF LookUp, WalkInv, BeforeNodes
    <3>3. 1 <= Len(entry'.nodes) + 1
      BY <3>1, EntryNodes DEF Slots
    <3>4. loc' # "ptr"
      BY <2>1 DEF LookUp
    <3>. QED
      BY <3>2, <3>3, <3>4 DEF WalkInv
  <2>2. CASE NoOpcode \/ ModRMFirst \/ OpcodeFirst \/ OpcodeLast
    BY <2>2, WalkStays DEF NoOpcode, ModRMFirst, OpcodeFirst, OpcodeLast, Fail, BeforeNodes
  <2>. QED
    BY <1>4, <2>1, <2>2 DEF Opcode
<1>5. CASE Addressing
  <2>1. loc \in BeforeNodes /\ UNCHANGED walk
    BY <1>5 DEF Addressing, ModRM, SibMissing, Sib, SibDisp, ModRMDisp, BeforeNodes
  <2>2. loc' # "ptr"
    BY <1>5 DEF Addressing, ModRM, SibMissing, Sib, SibDisp, ModRMDisp, AfterSib, DispMissing,
                Disp, ModRMDone, ModRMReturns, Fail
  <2>. QED
    BY <2>1, <2>2, WalkStays
<1>6. CASE Template \/ NodesDone
  BY <1>6, WalkStays DEF Template, NodesDone, BeforeNodes
<1>7. CASE RegisterNode \/ MemoryNode \/ ImmediateNode \/ MoffsNode \/ TokenNode
           \/ QualifierNode
  <2>1. /\ node <= Len(entry.nodes) /\ loc = "nodes" /\ entry' = entry
        /\ \E type : Fill(type)
    BY <1>7 DEF RegisterNode, MemoryNode, ImmediateNode, MoffsNode, TokenNode, QualifierNode,
                At
  <2>. QED
    BY <2>1, WalkFills DEF Fill
<1>8. CASE ImmediateMissing \/ MoffsMissing
  BY <1>8, WalkStays DEF ImmediateMissing, MoffsMissing, GiveUp, BeforeNodes, walk
<1>9. CASE PtrSegment
  <2>1. CASE loc' = "ptr"
    <3>1. /\ node <= Len(entry.nodes) /\ Node.type = "PTR" /\ UNCHANGED <<entry, node, slot>>
      BY <1>9, <2>1 DEF PtrSegment, At, GiveUp, Node
    <3>. QED
      BY <2>1, <3>1 DEF WalkInv, BeforeNodes, Node
  <2>2. CASE loc' # "ptr"
    BY <1>9, <2>2, WalkStays DEF PtrSegment, GiveUp, BeforeNodes, walk
  <2>. QED
    BY <2>1, <2>2
<1>10. CASE PtrOffset
  <2>1. CASE loc' = "nodes"
    <3>1. /\ node <= Len(entry.nodes) /\ loc = "ptr" /\ entry' = entry
          /\ node' = node + 1 /\ slot' = slot + 1
      BY <1>10, <2>1 DEF PtrOffset, GiveUp, WalkInv
    <3>. QED
      BY <2>1, <3>1, WalkFills
  <2>2. CASE loc' # "nodes"
    BY <1>10, <2>2, WalkStays DEF PtrOffset, GiveUp, BeforeNodes, walk
  <2>. QED
    BY <2>1, <2>2
<1>. QED
  BY <1>1, <1>2, <1>3, <1>4, <1>5, <1>6, <1>7, <1>8, <1>9, <1>10 DEF DecodeInsn, Arguments

\* No node has been decoded before the call.
LEMMA WalkInit == Init => WalkInv
<1>. SUFFICES ASSUME Init PROVE WalkInv
  OBVIOUS
<1>1. 1 <= Len(FirstEntry.nodes) + 1
  BY FirstEntryType, EntryNodes DEF Slots
<1>. QED
  BY <1>1 DEF Init, WalkInv

\* The type invariant is inductive with WalkInv.
LEMMA TypeStep ==
  ASSUME TypeOK, WalkInv, DecodeInsn
  PROVE  TypeOK'
BY CallType, PrefixType, OpcodeType, AddressingType, ArgumentsType DEF DecodeInsn

\* Nothing moves once the call has returned, nor in a step of anybody else.
LEMMA Stutter ==
  ASSUME Finished \/ UNCHANGED vars
  PROVE  /\ UNCHANGED caller /\ UNCHANGED result /\ UNCHANGED records
         /\ UNCHANGED <<loc, ret, nb, pc, diagram, addressing>>
         /\ UNCHANGED prefixes /\ UNCHANGED walk
BY DEF Finished, vars

\* The type invariant: whatever the tables, the image, its length and the caller's
\* amed_insn are, each variable of the decoder keeps the range of its C type, and the
\* node and the slot stay in the node list and in what can be written of the arguments.
THEOREM TypeCorrect == Spec => [](TypeOK /\ WalkInv)
<1>1. Init => TypeOK /\ WalkInv
  BY TypeInit, WalkInit
<1>2. TypeOK /\ WalkInv /\ [Next]_vars => (TypeOK /\ WalkInv)'
  <2>. SUFFICES ASSUME TypeOK, WalkInv, [Next]_vars PROVE (TypeOK /\ WalkInv)'
    OBVIOUS
  <2>1. CASE DecodeInsn
    BY <2>1, TypeStep, WalkStep
  <2>2. CASE Finished \/ UNCHANGED vars
    <3>1. TypeOK'
      BY <2>2, Stutter, Unchanged DEF TypeOK
    <3>2. WalkInv'
      BY <2>2, Stutter DEF WalkInv, Node, walk
    <3>. QED
      BY <3>1, <3>2
  <2>. QED
    BY <2>1, <2>2 DEF Next
<1>. QED
  BY <1>1, <1>2, PTL DEF Spec
=============================================================================
