-------------------------- MODULE X86SafetyProofs --------------------------
(***************************************************************************)
(* Proofs of the safety properties of X86Properties: the inductive         *)
(* invariant of X86Invariants, conjunct by conjunct, and what follows.     *)
(***************************************************************************)
EXTENDS X86Proofs

-----------------------------------------------------------------------------
(* The cursor.                                                             *)

\* A handler that has looked does not leave the buffer, and pc does not wrap.
LEMMA TakeInside ==
  ASSUME CursorType, NEW n \in Nat, Has(n), Advance(n)
  PROVE  pc' = pc + n /\ pc' <= nb
BY WrapAssumption DEF CursorType, Has, Advance

\* Inside the buffer, past the places where ModRM is guessed.
LEMMA CursorInside ==
  ASSUME CursorType', pc' <= nb',
         loc' \notin {"call", "scan", "opcode", "lookup", "modrm"},
         loc' = "opcode2" => mapidx' = "0F0F"
  PROVE  CursorInv'
<1>1. pc' \in Nat /\ nb' \in Nat
  BY WrapAssumption DEF CursorType
<1>2. \A a, b \in Nat : a <= b => a <= b + 1 /\ ~(a > b)
  OBVIOUS
<1>3. pc' <= nb' + 1 /\ ~(pc' > nb')
  BY <1>1, <1>2
<1>. QED
  BY <1>3 DEF CursorInv, OvershootIsModRM

\* Behind ModRM, where nothing is consumed.
LEMMA CursorStays ==
  ASSUME CursorInv, UNCHANGED <<nb, pc, entry, diagram>>,
         loc \in {"template", "nodes", "return"}, loc' \in {"nodes", "return", "done"}
  PROVE  CursorInv'
BY DEF CursorInv, OvershootIsModRM

\* The buffer has not been left before ModRM.
LEMMA PlaceInside ==
  ASSUME CursorType, CursorInv, loc \notin {"template", "nodes", "return", "done"}
  PROVE  pc <= nb
<1>1. pc \in Nat /\ nb \in Nat
  BY WrapAssumption DEF CursorType
<1>2. ~(pc > nb)
  BY DEF CursorInv, OvershootIsModRM
<1>. QED
  BY <1>1, <1>2

\* The helpers that write the diagram before the lookup leave alone what decode_modrm
\* and is4 set.
Read(d) == <<d.has_sib, d.has_disp, d.has_is4>>

\* set_w_field, set_pp_field and set_modrm_field are such helpers.
LEMMA SettersRead ==
  ASSUME NEW d \in DiagramType, NEW w, NEW pp, NEW modrm
  PROVE  /\ Read(SetW(d, w)) = Read(d)
         /\ Read(SetPP(d, pp)) = Read(d)
         /\ Read(SetModRM(d, modrm)) = Read(d)
BY DEF Read, SetW, SetPP, SetModRM, DiagramType

\* So are the vector prefix handlers.
LEMMA VectorRead ==
  ASSUME TypeOK, Vex2 \/ Vex3 \/ Xop \/ Evex \/ Mvex
  PROVE  Read(diagram') = Read(diagram)
<1>1. diagram \in DiagramType
  BY DEF TypeOK, FieldsType
<1>2. CASE Vex2
  <2>. DEFINE d == SetPP(diagram, ByteAt(pc + 1) % 4)
  <2>1. d \in DiagramType /\ Read(d) = Read(diagram)
    BY <1>1, SetPPType, SettersRead
  <2>2. diagram' = [[d EXCEPT !.enc = "VEX"] EXCEPT !.has_rex = TRUE]
    BY <1>2 DEF Vex2, Vector
  <2>. HIDE DEF d
  <2>. QED
    BY <2>1, <2>2 DEF Read, DiagramType
<1>3. CASE Vex3 \/ Xop \/ Evex \/ Mvex
  <2>. DEFINE w == Bit(ByteAt(pc + 2), 7)
              e == SetW(diagram, w)
              d == SetPP(e, ByteAt(pc + 2) % 4)
  <2>1. w \in BOOLEAN
    BY DEF Bit
  <2>2. e \in DiagramType /\ Read(e) = Read(diagram)
    BY <1>1, <2>1, SetWType, SettersRead
  <2>3. d \in DiagramType /\ Read(d) = Read(diagram)
    BY <2>2, SetPPType, SettersRead
  <2>. HIDE DEF d, e
  <2>4. CASE Vex3
    <3>1. diagram' = [[d EXCEPT !.enc = "VEX", !.x = Inverted(ByteAt(pc + 1), 6)]
                        EXCEPT !.has_rex = TRUE]
      BY <2>4 DEF Vex3, Vector, d, e
    <3>. QED
      BY <2>3, <3>1 DEF Read, DiagramType
  <2>5. CASE Xop
    <3>1. diagram' = [[e EXCEPT !.enc = "XOP", !.x = Inverted(ByteAt(pc + 1), 6)]
                        EXCEPT !.has_rex = TRUE]
      BY <2>5 DEF Xop, Vector, e
    <3>. QED
      BY <2>2, <3>1 DEF Read, DiagramType
  <2>6. CASE Evex
    <3>1. diagram' = [[d EXCEPT !.enc = "EVEX", !.x = Inverted(ByteAt(pc + 1), 6),
                                !.bp = Bit(ByteAt(pc + 3), 4),
                                !.fb = Bit(ByteAt(pc + 3), 4), !.aaa = ByteAt(pc + 3) % 8]
                        EXCEPT !.has_rex = TRUE]
      BY <2>6 DEF Evex, Vector, d, e
    <3>. QED
      BY <2>3, <3>1 DEF Read, DiagramType
  <2>7. CASE Mvex
    <3>1. diagram' = [[d EXCEPT !.enc = "MVEX", !.x = Inverted(ByteAt(pc + 1), 6),
                                !.aaa = ByteAt(pc + 3) % 8,
                                !.sss = (ByteAt(pc + 3) \div 16) % 8]
                        EXCEPT !.has_rex = TRUE]
      BY <2>7 DEF Mvex, Vector, d, e
    <3>. QED
      BY <2>3, <3>1 DEF Read, DiagramType
  <2>. QED
    BY <1>3, <2>4, <2>5, <2>6, <2>7
<1>. QED
  BY <1>2, <1>3

\* So is the whole prefix scan.
LEMMA PrefixRead ==
  ASSUME TypeOK, Prefix
  PROVE  Read(diagram') = Read(diagram)
<1>1. diagram \in DiagramType
  BY DEF TypeOK, FieldsType
<1>2. CASE Rex
  <2>. DEFINE w == Bit(op, 3)
              d == SetW(diagram, w)
  <2>1. w \in BOOLEAN
    BY DEF Bit
  <2>2. d \in DiagramType /\ Read(d) = Read(diagram)
    BY <1>1, <2>1, SetWType, SettersRead
  <2>3. diagram' = [d EXCEPT !.x = Bit(op, 1), !.fb = Bit(op, 0), !.has_rex = TRUE]
    BY <1>2 DEF Rex
  <2>. HIDE DEF d
  <2>. QED
    BY <2>2, <2>3 DEF Read, DiagramType
<1>3. CASE OperandSizePrefix \/ AddressSizePrefix \/ LockPrefix \/ RepeatPrefix
  BY <1>1, <1>3 DEF OperandSizePrefix, AddressSizePrefix, LockPrefix, RepeatPrefix, Read,
                    DiagramType
<1>4. CASE SegmentPrefix \/ EscapeMap \/ OpcodeByte
  BY <1>4 DEF SegmentPrefix, EscapeMap, OpcodeByte
<1>. QED
  BY <1>2, <1>3, <1>4, VectorRead DEF Prefix

\* Where an action stays inside the buffer and keeps what CursorInv says of a place.
LEMMA CursorBefore ==
  ASSUME CursorType', pc' <= nb', Read(diagram') = <<FALSE, FALSE, FALSE>>,
         loc' \in {"scan", "opcode", "return"}
  PROVE  CursorInv'
<1>1. pc' \in Nat /\ nb' \in Nat
  BY WrapAssumption DEF CursorType
<1>2. \A a, b \in Nat : a <= b => a <= b + 1 /\ ~(a > b)
  OBVIOUS
<1>3. pc' <= nb' + 1 /\ ~(pc' > nb')
  BY <1>1, <1>2
<1>. QED
  BY <1>3 DEF CursorInv, OvershootIsModRM, NothingRead, Read

\* NothingRead is kept where these three fields are.
LEMMA NothingIsRead ==
  ASSUME NEW d \in DiagramType
  PROVE  Read(d) = <<FALSE, FALSE, FALSE>> <=> ~d.has_sib /\ ~d.has_disp /\ ~d.has_is4
<1>1. d.has_sib \in BOOLEAN /\ d.has_disp \in BOOLEAN /\ d.has_is4 \in BOOLEAN
  BY DEF DiagramType
<1>. QED
  BY <1>1 DEF Read

\* The prefix scan only consumes bytes it has peeked.
LEMMA CursorPrefix ==
  ASSUME TypeOK, CursorType', CursorInv, Prefix
  PROVE  CursorInv'
<1>1. Read(diagram') = <<FALSE, FALSE, FALSE>>
  <2>1. diagram \in DiagramType /\ NothingRead
    BY DEF TypeOK, FieldsType, CursorInv, Prefix, Rex, SegmentPrefix, OperandSizePrefix,
           AddressSizePrefix, LockPrefix, RepeatPrefix, EscapeMap, Vex2, Vex3, Xop, Evex,
           Mvex, OpcodeByte
  <2>. QED
    BY <2>1, PrefixRead, NothingIsRead DEF NothingRead
<1>2. CursorType /\ pc <= nb
  BY PlaceInside DEF TypeOK, Prefix, Rex, SegmentPrefix, OperandSizePrefix,
     AddressSizePrefix, LockPrefix, RepeatPrefix, EscapeMap, Vex2, Vex3, Xop, Evex, Mvex,
     OpcodeByte
<1>3. /\ nb' = nb /\ loc' \in {"scan", "opcode"}
      /\ \/ pc' = pc
         \/ \E n \in 1..4 : Has(n) /\ Advance(n)
  <2>1. CASE Rex \/ SegmentPrefix \/ OperandSizePrefix \/ AddressSizePrefix \/ LockPrefix
             \/ RepeatPrefix
    BY <2>1 DEF Rex, SegmentPrefix, OperandSizePrefix, AddressSizePrefix, LockPrefix,
                RepeatPrefix, Take
  <2>2. CASE EscapeMap
    BY <2>2 DEF EscapeMap, Has
  <2>3. CASE Vex2 \/ Vex3 \/ Xop \/ Evex \/ Mvex
    BY <2>3 DEF Vex2, Vex3, Xop, Evex, Mvex, IsVex2, IsVex3, IsXop, IsEvex, IsMvex, Vector,
                Take
  <2>4. CASE OpcodeByte
    BY <2>4 DEF OpcodeByte
  <2>. QED
    BY <2>1, <2>2, <2>3, <2>4 DEF Prefix
<1>4. pc' <= nb'
  BY <1>2, <1>3, TakeInside
<1>. QED
  BY <1>1, <1>3, <1>4, CursorBefore

\* Opcode and lookup: where no byte follows the opcode the guessed ModRM is 0.
LEMMA CursorOpcode ==
  ASSUME TypeOK, CursorType', CursorInv, Opcode
  PROVE  CursorInv'
<1>1. CursorType /\ pc <= nb /\ nb \in Nat /\ pc \in Nat /\ diagram \in DiagramType
  BY PlaceInside, WrapAssumption DEF TypeOK, CursorType, FieldsType, Opcode, NoOpcode,
     ModRMFirst, OpcodeFirst, OpcodeLast, LookUp
<1>2. CASE NoOpcode
  BY <1>1, <1>2, CursorInside DEF NoOpcode, Fail
<1>3. CASE ModRMFirst
  <2>1. pc' = pc /\ nb' = nb /\ pc < nb
    BY <1>1, <1>3 DEF ModRMFirst, Has
  <2>2. NothingRead'
    <3>1. Read(diagram') = Read(diagram) /\ NothingRead
      BY <1>1, <1>3, SettersRead DEF ModRMFirst, CursorInv
    <3>. QED
      BY <3>1 DEF NothingRead, Read
  <2>3. pc' < nb' /\ pc' <= nb' + 1 /\ ~(pc' > nb')
    BY <1>1, <2>1
  <2>. QED
    BY <1>3, <2>2, <2>3 DEF ModRMFirst, CursorInv, OvershootIsModRM, prefixes
<1>4. CASE OpcodeFirst
  <2>. DEFINE modrm == IF Has(2) THEN ByteAt(pc + 1) ELSE 0
              d     == SetModRM(diagram, modrm)
  <2>1. pc' = pc + 1 /\ pc' <= nb /\ nb' = nb
    BY <1>1, <1>4, TakeInside DEF OpcodeFirst, Take
  <2>2. diagram' = [d EXCEPT !.opcode = op]
    BY <1>4 DEF OpcodeFirst
  <2>3. d \in DiagramType
    <3>1. ByteAt(pc + 1) \in Byte /\ 0 \in Byte
      BY <1>1, ByteAtType DEF TypeOK, Byte
    <3>. QED
      BY <1>1, <3>1, SetModRMType
  <2>4. Read(d) = Read(diagram) /\ NothingRead
    BY <1>1, <1>4, SettersRead DEF OpcodeFirst, CursorInv
  <2>5. pc' = nb' => d.mod = 0 /\ d.rm = 0
    <3>1. SUFFICES ASSUME pc' = nb' PROVE d.mod = 0 /\ d.rm = 0
      OBVIOUS
    <3>2. modrm = 0
      BY <1>1, <2>1, <3>1 DEF Has
    <3>3. ModOf(0) = 0 /\ RmOf(0) = 0
      BY DEF ModOf, RmOf
    <3>. QED
      BY <1>1, <3>2, <3>3 DEF SetModRM, DiagramType
  <2>. HIDE DEF d
  <2>6. NothingRead'
    BY <2>2, <2>3, <2>4 DEF NothingRead, Read, DiagramType
  <2>7. pc' = nb' => diagram'.mod = 0 /\ diagram'.rm = 0
    BY <2>2, <2>3, <2>5 DEF DiagramType
  <2>8. pc' <= nb' + 1 /\ ~(pc' > nb')
    BY <1>1, <2>1
  <2>. QED
    BY <1>4, <2>6, <2>7, <2>8 DEF OpcodeFirst, CursorInv, OvershootIsModRM
<1>5. CASE OpcodeLast
  <2>1. pc' <= nb /\ nb' = nb
    BY <1>1, <1>5, TakeInside DEF OpcodeLast, Take
  <2>2. pc' <= nb' + 1 /\ ~(pc' > nb')
    <3>1. pc' \in Nat
      BY WrapAssumption DEF CursorType
    <3>. QED
      BY <1>1, <2>1, <3>1
  <2>3. mapidx' = "0F0F" /\ loc' = "lookup"
    BY <1>5 DEF OpcodeLast, CursorInv, prefixes
  <2>. QED
    BY <2>2, <2>3 DEF CursorInv, OvershootIsModRM
<1>6. CASE LookUp
  <2>1. PICK e \in Lookup(mapidx, SizedDiagram) :
          /\ entry' = e
          /\ diagram' = EnteredDiagram(SizedDiagram, e)
          /\ loc' = IF e.has_modrm /\ mapidx # "0F0F" THEN "modrm" ELSE "template"
    BY <1>6 DEF LookUp
  <2>2. pc' = pc /\ nb' = nb /\ mapidx' = mapidx /\ loc = "lookup"
    BY <1>6 DEF LookUp, prefixes
  <2>3. CASE loc' = "modrm"
    <3>. DEFINE d == SizedDiagram
    <3>1. e.has_modrm /\ mapidx # "0F0F"
      BY <2>1, <2>3
    <3>2. /\ d \in DiagramType /\ Read(d) = Read(diagram)
          /\ d.mod = diagram.mod /\ d.rm = diagram.rm
      BY <1>1, SizedDiagramType DEF SizedDiagram, DiagramType, Read
    <3>. HIDE DEF d
    <3>3. diagram' = [d EXCEPT !.osz = ForcedSize(d, e)]
      BY <2>1, <3>1 DEF EnteredDiagram, d
    <3>4. /\ diagram'.mod = diagram.mod /\ diagram'.rm = diagram.rm
          /\ Read(diagram') = Read(diagram)
      BY <3>2, <3>3 DEF DiagramType, Read
    <3>5. NothingRead /\ (pc = nb => diagram.mod = 0 /\ diagram.rm = 0)
      BY <2>2, <3>1 DEF CursorInv
    <3>6. NothingRead' /\ (pc' = nb' => diagram'.mod = 0 /\ diagram'.rm = 0)
      BY <2>2, <3>4, <3>5 DEF NothingRead, Read
    <3>7. pc' <= nb' + 1 /\ ~(pc' > nb')
      BY <1>1, <2>2
    <3>. QED
      BY <2>1, <2>2, <2>3, <3>1, <3>6, <3>7 DEF CursorInv, OvershootIsModRM
  <2>4. CASE loc' = "template"
    BY <1>1, <2>2, <2>4, CursorInside
  <2>. QED
    BY <2>1, <2>3, <2>4
<1>. QED
  BY <1>2, <1>3, <1>4, <1>5, <1>6 DEF Opcode

\* Where decode_modrm returns, it is not before its own byte any more.
LEMMA ModRMReturnsPlace ==
  ASSUME NEW ok, ModRMReturns(ok), UNCHANGED mapidx
  PROVE  /\ loc' \in {"template", "opcode2", "return"}
         /\ loc' = "opcode2" => mapidx' = "0F0F"
         /\ mapidx # "0F0F" => loc' = "template"
BY DEF ModRMReturns, Fail

\* Behind the SIB byte decode_modrm reads a displacement or returns.
LEMMA AfterSibPlace ==
  ASSUME NEW d, AfterSib(d), UNCHANGED mapidx
  PROVE  /\ loc' \in {"disp", "template", "opcode2", "return"}
         /\ loc' = "opcode2" => mapidx' = "0F0F"
BY ModRMReturnsPlace DEF AfterSib

\* decode_modrm: the one byte that is not peeked, and what follows it.
LEMMA CursorAddressing ==
  ASSUME TypeOK, CursorType', CursorInv, Addressing
  PROVE  CursorInv'
<1>1. CursorType /\ pc <= nb /\ nb \in Nat /\ pc \in Nat /\ diagram \in DiagramType
  <2>1. loc \in {"modrm", "sib", "sibdisp", "disp"}
    BY DEF Addressing, ModRM, SibMissing, Sib, SibDisp, ModRMDisp
  <2>2. CursorType /\ nb \in Nat /\ pc \in Nat /\ diagram \in DiagramType
    BY WrapAssumption DEF TypeOK, CursorType, FieldsType
  <2>. QED
    BY <2>1, <2>2, PlaceInside
<1>2. nb' = nb /\ mapidx' = mapidx /\ entry' = entry
  BY DEF Addressing, ModRM, SibMissing, Sib, SibDisp, ModRMDisp, prefixes, walk
<1>3. CASE ModRM
  <2>1. Advance(1)
    BY <1>3 DEF ModRM
  <2>2. /\ loc' \in {"sib", "disp", "template", "opcode2", "return"}
        /\ loc' = "opcode2" => mapidx' = "0F0F"
    <3>1. CASE NeedsSib(diagram.mod, diagram.rm)
      BY <1>3, <3>1 DEF ModRM
    <3>2. CASE AfterSib(diagram)
      BY <1>2, <3>2, AfterSibPlace
    <3>. QED
      BY <1>3, <3>1, <3>2 DEF ModRM
  <2>3. CASE pc < nb
    <3>1. Has(1)
      BY <1>1, <2>3 DEF Has
    <3>2. pc' <= nb'
      BY <1>1, <1>2, <2>1, <3>1, TakeInside
    <3>. QED
      BY <2>2, <3>2, CursorInside
  <2>4. CASE ~(pc < nb)
    <3>1. pc = nb
      BY <1>1, <2>4
    <3>2. entry.has_modrm /\ mapidx # "0F0F" /\ NothingRead
      BY <1>3, <2>4 DEF ModRM, CursorInv
    <3>3. diagram.mod = 0 /\ diagram.rm = 0
      BY <1>3, <3>1, <3>2 DEF ModRM, CursorInv
    <3>4. AfterSib(diagram) /\ ~(DispSize(diagram.mod, diagram.rm) > 0)
      BY <1>3, <3>3 DEF ModRM, NeedsSib, DispSize
    <3>5. diagram' = [diagram EXCEPT !.has_modrm = TRUE] /\ loc' = "template"
      BY <1>2, <3>2, <3>4, ModRMReturnsPlace DEF AfterSib
    <3>6. NothingRead'
      BY <1>1, <3>2, <3>5 DEF NothingRead, DiagramType
    <3>7. pc' <= nb' + 1
      <4>1. pc' = (nb + 1) % Wrap
        BY <2>1, <3>1 DEF Advance
      <4>2. nb \in 0..Wrap - 1
        BY <1>1 DEF CursorType
      <4>. QED
        BY <1>2, <4>1, <4>2, WrapAssumption
    <3>. QED
      BY <1>2, <3>2, <3>5, <3>6, <3>7 DEF CursorInv, OvershootIsModRM, NothingRead
  <2>. QED
    BY <2>3, <2>4
<1>4. CASE SibMissing
  <2>1. pc' <= nb' /\ ModRMReturns(FALSE)
    BY <1>1, <1>4 DEF SibMissing
  <2>. QED
    BY <1>2, <2>1, ModRMReturnsPlace, CursorInside
<1>5. CASE Sib
  <2>1. Has(1) /\ Advance(1)
    BY <1>5 DEF Sib, Take
  <2>2. pc' <= nb'
    BY <1>1, <1>2, <2>1, TakeInside
  <2>3. /\ loc' \in {"sibdisp", "disp", "template", "opcode2", "return"}
        /\ loc' = "opcode2" => mapidx' = "0F0F"
    <3>1. loc' = "sibdisp" \/ \E d : AfterSib(d)
      BY <1>5 DEF Sib
    <3>. QED
      BY <1>2, <3>1, AfterSibPlace
  <2>. QED
    BY <2>2, <2>3, CursorInside
<1>6. ASSUME NEW n \in {0, 1, 4},
             DispMissing(n) \/ Disp(n, AfterSib) \/ Disp(n, ModRMDone)
      PROVE  CursorInv'
  <2>1. pc' <= nb'
    <3>1. CASE DispMissing(n)
      BY <1>1, <1>2, <3>1 DEF DispMissing
    <3>2. CASE Has(n) /\ Advance(n)
      BY <1>1, <1>2, <3>2, TakeInside
    <3>. QED
      BY <1>6, <3>1, <3>2 DEF Disp, Take
  <2>2. /\ loc' \in {"disp", "template", "opcode2", "return"}
        /\ loc' = "opcode2" => mapidx' = "0F0F"
    BY <1>2, <1>6, ModRMReturnsPlace, AfterSibPlace DEF DispMissing, Disp, ModRMDone
  <2>. QED
    BY <2>1, <2>2, CursorInside
<1>7. CASE SibDisp
  <2>1. \E n \in {0, 1, 4} : DispMissing(n) \/ Disp(n, AfterSib)
    BY <1>7, DispSizes DEF SibDisp
  <2>. QED
    BY <1>6, <2>1
<1>8. CASE ModRMDisp
  <2>1. \E n \in {0, 1, 4} : DispMissing(n) \/ Disp(n, ModRMDone)
    BY <1>8, DispSizes DEF ModRMDisp
  <2>. QED
    BY <1>6, <2>1
<1>. QED
  BY <1>3, <1>4, <1>5, <1>7, <1>8 DEF Addressing

\* The argument nodes only consume bytes they have peeked.
LEMMA CursorArguments ==
  ASSUME TypeOK, WalkInv, CursorType', CursorInv, Arguments
  PROVE  CursorInv'
<1>1. /\ CursorType
      /\ loc \in {"template", "nodes", "ptr"} /\ loc' \in {"nodes", "ptr", "return"}
      /\ UNCHANGED <<nb, entry>>
  BY DEF TypeOK, Arguments, Template, RegisterNode, MemoryNode, ImmediateNode,
         ImmediateMissing, MoffsNode, MoffsMissing, PtrSegment, PtrOffset, TokenNode,
         QualifierNode, NodesDone, At, Fill, GiveUp, walk
<1>2. ASSUME NEW n \in Nat, Has(n), Advance(n)
      PROVE  CursorInv'
  <2>1. pc' <= nb'
    BY <1>1, <1>2, TakeInside
  <2>. QED
    BY <1>1, <2>1, CursorInside
<1>3. ASSUME UNCHANGED <<pc, diagram>>
      PROVE  CursorInv'
  <2>1. CASE loc = "ptr"
    <3>1. pc' <= nb'
      BY <1>1, <1>3, <2>1, PlaceInside
    <3>. QED
      BY <1>1, <3>1, CursorInside
  <2>2. CASE loc' = "ptr" /\ loc # "ptr"
    <3>1. PtrSegment
      BY <1>1, <2>2 DEF Arguments, Template, RegisterNode, MemoryNode, ImmediateNode,
         ImmediateMissing, MoffsNode, MoffsMissing, PtrOffset, TokenNode,
         QualifierNode, NodesDone, At, Fill, GiveUp
    <3>2. Has(2) /\ Advance(2)
      BY <2>2, <3>1 DEF PtrSegment, GiveUp, Take
    <3>. QED
      BY <1>2, <3>2
  <2>3. CASE loc # "ptr" /\ loc' # "ptr"
    BY <1>1, <1>3, <2>3, CursorStays
  <2>. QED
    BY <2>1, <2>2, <2>3
<1>4. CASE Template \/ NodesDone \/ MemoryNode \/ ImmediateMissing \/ MoffsMissing \/ TokenNode
           \/ QualifierNode
  BY <1>3, <1>4 DEF Template, NodesDone, MemoryNode, ImmediateMissing, MoffsMissing,
                    TokenNode, QualifierNode
<1>5. CASE RegisterNode
  <2>1. (Has(1) /\ Advance(1)) \/ UNCHANGED <<pc, diagram>>
    BY <1>5 DEF RegisterNode, TakeIs4, Take
  <2>. QED
    BY <1>2, <1>3, <2>1
<1>6. CASE ImmediateNode
  <2>. DEFINE n == Node.bytes[diagram.osz]
  <2>1. n \in Nat
    BY <1>6, ImmediateSizes DEF ImmediateNode, At
  <2>2. (Has(n) /\ Advance(n)) \/ UNCHANGED <<pc, diagram>>
    BY <1>6, <2>1 DEF ImmediateNode, Take
  <2>. QED
    BY <1>2, <1>3, <2>1, <2>2
<1>7. CASE MoffsNode
  BY <1>2, <1>7 DEF MoffsNode, MoffsSize, Take
<1>8. CASE PtrSegment \/ PtrOffset
  BY <1>2, <1>3, <1>8 DEF PtrSegment, PtrOffset, PtrSize, Take
<1>. QED
  BY <1>4, <1>5, <1>6, <1>7, <1>8 DEF Arguments

\* A call begins at the start of its buffer, whatever the cursor was before.
LEMMA CursorBegin ==
  ASSUME TypeOK, CursorType', Begin
  PROVE  CursorInv'
<1>1. pc' <= nb' /\ loc' \in {"scan", "return"}
  <2>1. nb' \in Nat /\ pc' = 0
    BY WrapAssumption DEF Begin, CursorType
  <2>. QED
    BY <2>1 DEF Begin
<1>2. Read(diagram') = <<FALSE, FALSE, FALSE>>
  <2>0. Read(BlankDiagram) = <<FALSE, FALSE, FALSE>>
    BY DEF BlankDiagram, Read
  <2>1. CASE context.machine_mode \in {16, 32, 64}
    <3>. DEFINE mode == context.machine_mode = 64
                asz  == DefaultAddressSize
                osz  == DefaultOperandSize
    <3>1. diagram' = [BlankDiagram EXCEPT !.long_mode = mode, !.asz = asz, !.osz = osz]
      BY <2>1 DEF Begin
    <3>. HIDE DEF mode, asz, osz
    <3>2. /\ diagram'.has_sib = BlankDiagram.has_sib
          /\ diagram'.has_disp = BlankDiagram.has_disp
          /\ diagram'.has_is4 = BlankDiagram.has_is4
      BY <3>1, BlankDiagramType DEF DiagramType
    <3>. QED
      BY <3>2, <2>0 DEF Read
  <2>2. CASE context.machine_mode \notin {16, 32, 64}
    BY <2>2, <2>0 DEF Begin
  <2>. QED
    BY <2>1, <2>2
<1>. QED
  BY <1>1, <1>2, CursorBefore

\* The start and the end of a call.
LEMMA CursorCall ==
  ASSUME TypeOK, CursorType', CursorInv, RejectEmpty \/ Begin \/ Return
  PROVE  CursorInv'
<1>1. CASE RejectEmpty
  <2>1. pc' = 0 /\ nb' = 0 /\ loc' = "done"
    BY <1>1 DEF RejectEmpty, CursorInv
  <2>. QED
    BY <2>1, CursorInside
<1>2. CASE Begin
  BY <1>2, CursorBegin
<1>3. CASE Return
  BY <1>3, CursorStays DEF Return, walk
<1>. QED
  BY <1>1, <1>2, <1>3

\* CursorInv is inductive with the type invariant.
LEMMA CursorStep ==
  ASSUME TypeOK, TypeOK', WalkInv, CursorInv, DecodeInsn
  PROVE  CursorInv'
<1>1. CursorType'
  BY DEF TypeOK
<1>. QED
  BY <1>1, CursorCall, CursorPrefix, CursorOpcode, CursorAddressing, CursorArguments
     DEF DecodeInsn

\* The cursor before the call.
LEMMA CursorInit == Init => CursorInv
<1>1. 0 <= 0 + 1 /\ ~(0 > 0)
  OBVIOUS
<1>. QED
  BY <1>1 DEF Init, CursorInv, OvershootIsModRM

\* CursorInv speaks of nothing outside vars.
LEMMA CursorStutters ==
  ASSUME CursorInv, Finished \/ UNCHANGED vars
  PROVE  CursorInv'
<1>1. UNCHANGED <<loc, nb, pc, mapidx, diagram, entry>>
  BY Stutter DEF prefixes, walk
<1>. QED
  BY <1>1 DEF CursorInv, OvershootIsModRM, NothingRead

\* decode_modrm is the only handler that consumes without looking: pc is never more than
\* one byte behind the buffer, and only where ModRM was that byte and was guessed to be 0,
\* so that SIB, displacement and is4 stay unread, for every image, length and table.
THEOREM OvershootBounded == Spec => []OvershootIsModRM
<1>1. Init => TypeOK /\ WalkInv /\ CursorInv
  BY TypeInit, WalkInit, CursorInit
<1>2. TypeOK /\ TypeOK' /\ WalkInv /\ CursorInv /\ [Next]_vars => CursorInv'
  BY CursorStep, CursorStutters DEF Next
<1>3. CursorInv => OvershootIsModRM
  BY DEF CursorInv
<1>. QED
  BY <1>1, <1>2, <1>3, TypeCorrect, PTL DEF Spec

-----------------------------------------------------------------------------
(* The answer.                                                             *)

\* A place still inside the call owes no answer.
LEMMA NoAnswerYet ==
  ASSUME loc' \notin {"return", "done"}
  PROVE  AnswerInv'
BY DEF AnswerInv

\* A refusal with the next n bytes not there, n at most 4.
LEMMA RefusalAnswers ==
  ASSUME CursorType, NEW n \in 0..4, ~Has(n), UNCHANGED <<nb, pc>>, ret' = FALSE
  PROVE  AnswerInv'
<1>1. pc + 4 > nb
  BY WrapAssumption DEF CursorType, Has
<1>. QED
  BY <1>1 DEF AnswerInv

\* decode_template gives up with the next n bytes not there, n at most 8.
LEMMA GiveUpAnswers ==
  ASSUME CursorType, NEW n \in 0..8, ~Has(n), UNCHANGED <<nb, pc>>, ret' = TRUE
  PROVE  AnswerInv'
<1>1. pc + 8 > nb
  BY WrapAssumption DEF CursorType, Has
<1>. QED
  BY <1>1 DEF AnswerInv

\* An empty buffer is refused, and so is a machine mode of no x86.
LEMMA AnswerCall ==
  ASSUME TypeOK, CursorInv, AnswerInv, RejectEmpty \/ Begin \/ Return
  PROVE  AnswerInv'
<1>1. CASE RejectEmpty
  <2>1. pc = 0 /\ nb = 0
    BY <1>1 DEF RejectEmpty, CursorInv
  <2>2. ~Has(1) /\ UNCHANGED <<nb, pc>> /\ ret' = FALSE
    BY <1>1, <2>1 DEF RejectEmpty, Has
  <2>3. 1 \in 0..4
    OBVIOUS
  <2>. QED
    BY <2>2, <2>3, RefusalAnswers DEF TypeOK
<1>2. CASE Begin
  <2>1. context' = context /\ (loc' \in {"return", "done"} =>
                                 context.machine_mode \notin {16, 32, 64} /\ ret' = FALSE)
    BY <1>2 DEF Begin, caller
  <2>. QED
    BY <2>1 DEF AnswerInv
<1>3. CASE Return
  <2>1. insn'.encoding = insn.encoding
    BY <1>3 DEF Return, TypeOK, ResultType, InsnType
  <2>2. loc = "return" /\ UNCHANGED <<context, ret, nb, pc, diagram, entry, node>>
    BY <1>3 DEF Return, caller, walk
  <2>. QED
    BY <2>1, <2>2 DEF AnswerInv, Node
<1>. QED
  BY <1>1, <1>2, <1>3

\* Only 3DNow! gives up in decode_modrm, with fewer than 4 bytes left.
LEMMA AnswerAddressing ==
  ASSUME TypeOK, Addressing
  PROVE  AnswerInv'
<1>1. CursorType /\ nb' = nb
  BY DEF TypeOK, Addressing, ModRM, SibMissing, Sib, SibDisp, ModRMDisp
<1>2. ASSUME ModRMReturns(TRUE)
      PROVE  AnswerInv'
  BY <1>2, NoAnswerYet DEF ModRMReturns
<1>3. ASSUME ModRMReturns(FALSE), NEW n \in 0..4, ~Has(n), pc' = pc
      PROVE  AnswerInv'
  <2>1. loc' = "template" \/ ret' = FALSE
    BY <1>3 DEF ModRMReturns, Fail
  <2>. QED
    BY <1>1, <1>3, <2>1, NoAnswerYet, RefusalAnswers
<1>4. ASSUME NEW d, AfterSib(d)
      PROVE  AnswerInv'
  BY <1>2, <1>4, NoAnswerYet DEF AfterSib
<1>5. ASSUME NEW n \in {0, 1, 4},
             DispMissing(n) \/ Disp(n, AfterSib) \/ Disp(n, ModRMDone)
      PROVE  AnswerInv'
  <2>1. n \in 0..4
    OBVIOUS
  <2>2. CASE DispMissing(n)
    BY <1>3, <2>1, <2>2 DEF DispMissing
  <2>3. CASE Disp(n, AfterSib)
    BY <1>4, <2>3 DEF Disp
  <2>4. CASE Disp(n, ModRMDone)
    BY <1>2, <2>4 DEF Disp, ModRMDone
  <2>. QED
    BY <1>5, <2>2, <2>3, <2>4
<1>6. CASE ModRM
  <2>1. loc' = "sib" \/ AfterSib(diagram)
    BY <1>6 DEF ModRM
  <2>. QED
    BY <1>4, <2>1, NoAnswerYet
<1>7. CASE SibMissing
  BY <1>3, <1>7 DEF SibMissing
<1>8. CASE Sib
  <2>1. loc' = "sibdisp" \/ \E d : AfterSib(d)
    BY <1>8 DEF Sib
  <2>. QED
    BY <1>4, <2>1, NoAnswerYet
<1>9. CASE SibDisp
  BY <1>5, <1>9, DispSizes DEF SibDisp
<1>10. CASE ModRMDisp
  BY <1>5, <1>10, DispSizes DEF ModRMDisp
<1>. QED
  BY <1>6, <1>7, <1>8, <1>9, <1>10 DEF Addressing

\* A node that gives up lacks at most 8 bytes, or is a far pointer of 64 bits.
LEMMA AnswerArguments ==
  ASSUME TypeOK, WalkInv, Arguments
  PROVE  AnswerInv'
<1>1. CursorType
  BY DEF TypeOK
<1>2. CASE Template \/ RegisterNode \/ MemoryNode \/ ImmediateNode \/ MoffsNode \/ TokenNode
           \/ QualifierNode
  BY <1>2, NoAnswerYet DEF Template, RegisterNode, MemoryNode, ImmediateNode, MoffsNode,
     TokenNode, QualifierNode, At, Fill
<1>3. CASE ImmediateMissing
  <2>1. Node.bytes[diagram.osz] \in 0..8
    BY <1>3, ImmediateSizes DEF ImmediateMissing, At
  <2>. QED
    BY <1>1, <1>3, <2>1, GiveUpAnswers DEF ImmediateMissing, GiveUp
<1>4. CASE MoffsMissing
  <2>1. MoffsSize \in 0..8
    BY DEF MoffsSize
  <2>. QED
    BY <1>1, <1>4, <2>1, GiveUpAnswers DEF MoffsMissing, GiveUp
<1>5. CASE PtrSegment
  <2>1. loc' = "ptr" \/ (~Has(2) /\ UNCHANGED <<nb, pc>> /\ ret' = TRUE)
    BY <1>5 DEF PtrSegment, GiveUp
  <2>2. 2 \in 0..8
    OBVIOUS
  <2>. QED
    BY <1>1, <2>1, <2>2, NoAnswerYet, GiveUpAnswers
<1>6. CASE PtrOffset
  <2>1. CASE loc' = "nodes"
    BY <2>1, NoAnswerYet
  <2>2. CASE loc' # "nodes"
    <3>1. PtrSize = 0 \/ ~Has(PtrSize)
      BY <1>6, <2>2 DEF PtrOffset
    <3>2. ret' = TRUE /\ UNCHANGED <<nb, pc, diagram, entry, node>>
      BY <1>6, <2>2 DEF PtrOffset, GiveUp
    <3>3. CASE ~Has(PtrSize)
      <4>1. PtrSize \in 0..8
        BY DEF PtrSize
      <4>. QED
        BY <1>1, <3>2, <3>3, <4>1, GiveUpAnswers
    <3>4. CASE PtrSize = 0
      <4>1. diagram.osz = 2
        BY <3>4 DEF PtrSize, TypeOK, FieldsType, DiagramType
      <4>2. Node.type = "PTR"
        BY <1>6 DEF PtrOffset, WalkInv
      <4>. QED
        BY <3>2, <4>1, <4>2 DEF AnswerInv, Node
    <3>. QED
      BY <3>1, <3>3, <3>4
  <2>. QED
    BY <2>1, <2>2
<1>7. CASE NodesDone
  <2>1. entry.encoding \in Nat
    BY EntryNodes DEF TypeOK, WalkType, EntryType
  <2>2. insn'.encoding = entry.encoding /\ ret' = TRUE
    BY <1>7 DEF NodesDone, TypeOK, ResultType, InsnType
  <2>3. insn'.encoding # STALE
    BY <2>1, <2>2 DEF STALE
  <2>. QED
    BY <2>2, <2>3 DEF AnswerInv
<1>. QED
  BY <1>2, <1>3, <1>4, <1>5, <1>6, <1>7 DEF Arguments

\* AnswerInv is inductive with the type invariant, WalkInv and CursorInv.
LEMMA AnswerStep ==
  ASSUME TypeOK, WalkInv, CursorInv, AnswerInv, DecodeInsn
  PROVE  AnswerInv'
<1>1. CASE Prefix
  BY <1>1, NoAnswerYet DEF Prefix, Rex, SegmentPrefix, OperandSizePrefix, AddressSizePrefix,
     LockPrefix, RepeatPrefix, EscapeMap, Vex2, Vex3, Xop, Evex, Mvex, Vector, OpcodeByte
<1>2. CASE NoOpcode
  <2>1. ~Has(1) /\ UNCHANGED <<nb, pc>> /\ ret' = FALSE
    BY <1>2 DEF NoOpcode, Fail
  <2>2. 1 \in 0..4
    OBVIOUS
  <2>. QED
    BY <2>1, <2>2, RefusalAnswers DEF TypeOK
<1>3. CASE ModRMFirst \/ OpcodeFirst \/ OpcodeLast \/ LookUp
  BY <1>3, NoAnswerYet DEF ModRMFirst, OpcodeFirst, OpcodeLast, LookUp
<1>. QED
  BY <1>1, <1>2, <1>3, AnswerCall, AnswerAddressing, AnswerArguments DEF DecodeInsn, Opcode

\* AnswerInv speaks of nothing outside vars.
LEMMA AnswerStutters ==
  ASSUME AnswerInv, Finished \/ UNCHANGED vars
  PROVE  AnswerInv'
<1>1. UNCHANGED <<loc, ret, nb, pc, diagram, context, insn, entry, node>>
  BY Stutter DEF caller, result, walk
<1>. QED
  BY <1>1 DEF AnswerInv, Node

\* AnswerInv holds in every state.
LEMMA AnswerCorrect == Spec => []AnswerInv
<1>1. Init => TypeOK /\ WalkInv /\ CursorInv /\ AnswerInv
  BY TypeInit, WalkInit, CursorInit DEF Init, AnswerInv
<1>2. TypeOK /\ TypeOK' /\ WalkInv /\ CursorInv /\ AnswerInv /\ [Next]_vars
        => CursorInv' /\ AnswerInv'
  BY CursorStep, CursorStutters, AnswerStep, AnswerStutters DEF Next
<1>. QED
  BY <1>1, <1>2, TypeCorrect, PTL DEF Spec

\* A call refuses only in a machine mode that is none of the three, or where fewer than
\* four bytes are left: decode_entry refuses for a missing opcode, and for 3DNow! where
\* decode_modrm answers false.
THEOREM RefusalsTruncated == Spec => []RefusedOnlyWhenTruncated
<1>1. AnswerInv => RefusedOnlyWhenTruncated
  BY DEF AnswerInv, RefusedOnlyWhenTruncated
<1>. QED
  BY <1>1, AnswerCorrect, PTL

\* decode_template gives up, and leaves argument_count and encoding as the caller had
\* them, only with fewer than eight bytes left or at a far pointer with 64-bit operands.
THEOREM StaleTruncated == Spec => []StaleOnlyWhenTruncated
<1>1. AnswerInv => StaleOnlyWhenTruncated
  BY DEF AnswerInv, StaleOnlyWhenTruncated, Returned
<1>. QED
  BY <1>1, AnswerCorrect, PTL

-----------------------------------------------------------------------------
(* Vector prefixes behind forbidden prefixes.                              *)

\* A new record is forbidden only if its type and first byte say so.
LEMMA RecordedForbidden ==
  ASSUME RecordsType, NEW type, NEW bytes, AddBytecode(type, bytes) \/ UNCHANGED records,
         ~(type \in {"PREFIX", "REX"} /\ bytes[1] \in ForbiddenBytes), ForbiddenRecorded'
  PROVE  ForbiddenRecorded
<1>. DEFINE R == [type : BytecodeTypes, bytes : Seq(Byte)]
            record == [type |-> type, bytes |-> bytes]
<1>1. bytecodes \in Seq(R)
  BY DEF RecordsType
<1>2. CASE UNCHANGED records
  BY <1>2 DEF records, ForbiddenRecorded
<1>3. CASE bytecodes' = Append(bytecodes, record)
  <2>1. PICK i \in DOMAIN bytecodes' : /\ bytecodes'[i].type \in {"PREFIX", "REX"}
                                       /\ bytecodes'[i].bytes[1] \in ForbiddenBytes
    BY DEF ForbiddenRecorded
  <2>2. record.type = type /\ record.bytes = bytes
    OBVIOUS
  <2>. HIDE DEF record, R
  <2>3. DOMAIN bytecodes' = 1..Len(bytecodes) + 1 /\ DOMAIN bytecodes = 1..Len(bytecodes)
    BY <1>1, <1>3
  <2>4. bytecodes'[Len(bytecodes) + 1] = record
        /\ \A k \in 1..Len(bytecodes) : bytecodes'[k] = bytecodes[k]
    BY <1>1, <1>3
  <2>5. i # Len(bytecodes) + 1
    BY <2>1, <2>2, <2>4
  <2>6. i \in 1..Len(bytecodes)
    <3>1. Len(bytecodes) \in Nat
      BY <1>1
    <3>. QED
      BY <2>1, <2>3, <2>5, <3>1
  <2>. QED
    BY <2>1, <2>3, <2>4, <2>6 DEF ForbiddenRecorded
<1>. QED
  BY <1>2, <1>3 DEF AddBytecode

\* A handler that consumes no prefix records none.
LEMMA TakenForbidden ==
  ASSUME RecordsType, NEW type, type \notin {"PREFIX", "REX"}, NEW n,
         Take(type, n) \/ UNCHANGED records, ForbiddenRecorded'
  PROVE  ForbiddenRecorded
BY RecordedForbidden DEF Take

\* Behind the scan, where the prefix state stands.
LEMMA VectorStays ==
  ASSUME VectorInv, diagram'.enc = diagram.enc, UNCHANGED <<vfpc, mapidx>>, loc' # "scan",
         ForbiddenRecorded' => ForbiddenRecorded, LookedUp' => LookedUp,
         "undefined" \in flags => "undefined" \in flags'
  PROVE  VectorInv'
BY DEF VectorInv

\* One byte more, one forbidden prefix more: vfpc does not wrap.
LEMMA CountsPrefix ==
  ASSUME CursorType, vfpc \in 0..Wrap - 1, vfpc <= pc, Has(1)
  PROVE  /\ (vfpc + 1) % Wrap > 0
         /\ (vfpc + 1) % Wrap <= pc + 1
         /\ vfpc <= pc + 1
<1>1. vfpc + 1 <= Wrap - 1
  BY WrapAssumption DEF CursorType, Has
<1>2. (vfpc + 1) % Wrap = vfpc + 1
  BY <1>1, WrapAssumption
<1>. QED
  BY <1>2, WrapAssumption DEF CursorType

\* A forbidden prefix is counted in the step that records it.
LEMMA VectorPrefixBytes ==
  ASSUME TypeOK, VectorInv, Rex \/ SegmentPrefix \/ OperandSizePrefix \/ AddressSizePrefix
                              \/ LockPrefix \/ RepeatPrefix
  PROVE  VectorInv'
<1>1. CursorType /\ RecordsType /\ vfpc \in 0..Wrap - 1 /\ diagram \in DiagramType
  BY DEF TypeOK, PrefixesType, FieldsType
<1>2. loc = "scan" /\ loc' = "scan" /\ Has(1) /\ vfpc <= pc /\ diagram.enc = "NONE"
  BY DEF VectorInv, Rex, SegmentPrefix, OperandSizePrefix, AddressSizePrefix, LockPrefix,
         RepeatPrefix
<1>3. pc' = pc + 1
  <2>1. Advance(1)
    BY DEF Rex, SegmentPrefix, OperandSizePrefix, AddressSizePrefix, LockPrefix,
           RepeatPrefix, Take
  <2>. QED
    BY <1>1, <1>2, <2>1, TakeInside
<1>4. diagram'.enc = "NONE"
  <2>1. CASE Rex
    <3>. DEFINE w == Bit(op, 3)
                d == SetW(diagram, w)
    <3>1. w \in BOOLEAN
      BY DEF Bit
    <3>2. d \in DiagramType
      BY <1>1, <3>1, SetWType
    <3>4. d.enc = diagram.enc
      BY <1>1 DEF SetW, DiagramType
    <3>3. diagram' = [d EXCEPT !.x = Bit(op, 1), !.fb = Bit(op, 0), !.has_rex = TRUE]
      BY <2>1 DEF Rex
    <3>. HIDE DEF d
    <3>. QED
      BY <1>2, <3>2, <3>3, <3>4 DEF DiagramType
  <2>2. CASE ~Rex
    BY <1>1, <1>2, <2>2 DEF SegmentPrefix, OperandSizePrefix, AddressSizePrefix, LockPrefix,
       RepeatPrefix, DiagramType
  <2>. QED
    BY <2>1, <2>2
<1>5. vfpc' <= pc' /\ (ForbiddenRecorded' => vfpc' > 0)
  <2>1. CASE vfpc' = (vfpc + 1) % Wrap
    BY <1>1, <1>2, <1>3, <2>1, CountsPrefix
  <2>2. CASE SegmentPrefix \/ AddressSizePrefix
    <3>1. vfpc' = vfpc /\ Take("PREFIX", 1) /\ op \in SegmentBytes \union {ADSIZE}
      BY <2>2 DEF SegmentPrefix, AddressSizePrefix, prefixes
    <3>2. op \notin ForbiddenBytes
      BY <3>1 DEF SegmentBytes, SegmentOf, ADSIZE, ForbiddenBytes, OPSIZE, LOCK, REPNE, REP,
                  RexBytes
    <3>3. Bytes(pc, 1)[1] = op
      <4>1. pc + 1 - 1 = pc
        BY <1>1, WrapAssumption DEF CursorType
      <4>. QED
        BY <4>1 DEF Bytes, op
    <3>4. ForbiddenRecorded' => ForbiddenRecorded
      BY <1>1, <3>1, <3>2, <3>3, RecordedForbidden DEF Take
    <3>5. vfpc' <= pc'
      BY <1>1, <1>2, <1>3, <3>1, CountsPrefix
    <3>6. ForbiddenRecorded => vfpc > 0
      BY DEF VectorInv
    <3>. QED
      BY <3>1, <3>4, <3>5, <3>6
  <2>. QED
    BY <2>1, <2>2 DEF Rex, OperandSizePrefix, LockPrefix, RepeatPrefix
<1>. QED
  BY <1>2, <1>4, <1>5 DEF VectorInv, LookedUp

\* A vector prefix leaves count and records of the legacy prefixes alone.
LEMMA VectorVector ==
  ASSUME TypeOK, VectorInv, Vex2 \/ Vex3 \/ Xop \/ Evex \/ Mvex
  PROVE  VectorInv'
<1>1. /\ loc' = "opcode" /\ vfpc' = vfpc
      /\ \E type \in {"VEX2", "VEX3", "EVEX", "MVEX"} : \E n : Take(type, n)
  BY DEF Vex2, Vex3, Xop, Evex, Mvex, Vector
<1>2. mapidx' # "0F0F"
  <2>1. CASE Vex2
    BY <2>1 DEF Vex2, Vector
  <2>2. CASE Vex3
    BY <2>2 DEF Vex3, IsVex3, VexMap, Vector
  <2>3. CASE Xop
    BY <2>3 DEF Xop, IsXop, XopMap, Vector
  <2>4. CASE Evex
    BY <2>4 DEF Evex, IsEvex, VexMap, Vector
  <2>5. CASE Mvex
    BY <2>5 DEF Mvex, IsMvex, MvexMap, Vector
  <2>. QED
    BY <2>1, <2>2, <2>3, <2>4, <2>5
<1>3. ForbiddenRecorded' => ForbiddenRecorded
  BY <1>1, TakenForbidden DEF TypeOK
<1>. QED
  BY <1>1, <1>2, <1>3 DEF VectorInv, LookedUp

\* The lookup turns the count into `undefined'.
LEMMA VectorOpcode ==
  ASSUME TypeOK, VectorInv, Opcode
  PROVE  VectorInv'
<1>1. diagram \in DiagramType /\ RecordsType
  BY DEF TypeOK, FieldsType
<1>2. CASE NoOpcode
  BY <1>2, VectorStays DEF NoOpcode, Fail, LookedUp, records, prefixes, result,
                           ForbiddenRecorded
<1>3. CASE ModRMFirst
  <2>1. diagram'.enc = diagram.enc
    BY <1>1, <1>3 DEF ModRMFirst, SetModRM, DiagramType
  <2>2. diagram.enc = "NONE" /\ mapidx' = mapidx /\ vfpc' = vfpc /\ loc' = "modrm"
    BY <1>3 DEF ModRMFirst, VectorInv, prefixes
  <2>3. ForbiddenRecorded' => vfpc > 0
    BY <1>3 DEF ModRMFirst, VectorInv, records, ForbiddenRecorded
  <2>. QED
    BY <2>1, <2>2, <2>3 DEF VectorInv
<1>4. CASE OpcodeFirst
  <2>1. diagram'.enc = diagram.enc
    <3>. DEFINE d == SetModRM(diagram, IF Has(2) THEN ByteAt(pc + 1) ELSE 0)
    <3>1. d.enc = diagram.enc /\ DOMAIN d = DOMAIN diagram
      BY <1>1 DEF SetModRM, DiagramType
    <3>2. diagram' = [d EXCEPT !.opcode = op]
      BY <1>4 DEF OpcodeFirst
    <3>. HIDE DEF d
    <3>. QED
      BY <1>1, <3>1, <3>2 DEF DiagramType
  <2>2. ForbiddenRecorded' => ForbiddenRecorded
    BY <1>1, <1>4, TakenForbidden DEF OpcodeFirst
  <2>3. UNCHANGED <<flags, vfpc, mapidx>> /\ loc' = "lookup"
    BY <1>4 DEF OpcodeFirst, prefixes, result
  <2>. QED
    BY <2>1, <2>2, <2>3, VectorStays DEF LookedUp
<1>5. CASE OpcodeLast
  <2>1. diagram'.enc = diagram.enc
    BY <1>1, <1>5 DEF OpcodeLast, DiagramType
  <2>2. ForbiddenRecorded' => ForbiddenRecorded
    BY <1>1, <1>5, TakenForbidden DEF OpcodeLast
  <2>3. UNCHANGED <<flags, vfpc, mapidx>> /\ loc' = "lookup"
    BY <1>5 DEF OpcodeLast, prefixes, result
  <2>. QED
    BY <2>1, <2>2, <2>3, VectorStays DEF LookedUp
<1>6. CASE LookUp
  <2>1. PICK e : diagram' = EnteredDiagram(SizedDiagram, e) /\ flags' = LookUpFlags(e)
    BY <1>6 DEF LookUp
  <2>2. SizedDiagram \in DiagramType /\ SizedDiagram.enc = diagram.enc
    BY <1>1, SizedDiagramType DEF SizedDiagram, DiagramType
  <2>3. diagram'.enc = diagram.enc
    <3>. DEFINE d == SizedDiagram
    <3>1. d \in DiagramType /\ d.enc = diagram.enc
      BY <2>2
    <3>2. diagram' = EnteredDiagram(d, e)
      BY <2>1
    <3>. HIDE DEF d
    <3>. QED
      BY <3>1, <3>2 DEF EnteredDiagram, DiagramType
  <2>4. diagram.enc # "NONE" /\ vfpc # 0 => "undefined" \in flags'
    BY <2>1 DEF LookUpFlags
  <2>5. UNCHANGED <<vfpc, mapidx, bytecodes>> /\ loc' # "scan"
    BY <1>6 DEF LookUp, prefixes, records
  <2>6. ForbiddenRecorded' => ForbiddenRecorded
    BY <2>5 DEF ForbiddenRecorded
  <2>. QED
    BY <2>3, <2>4, <2>5, <2>6 DEF VectorInv
<1>. QED
  BY <1>2, <1>3, <1>4, <1>5, <1>6 DEF Opcode

\* Two diagrams that agree on what the operand size is made of, and on the opcode.
SameSize(d, dd) ==
  dd.enc = d.enc /\ dd.long_mode = d.long_mode /\ dd.w = d.w /\ dd.p66 = d.p66
  /\ dd.osz = d.osz

SameOpcode(d, dd) == SameSize(d, dd) /\ dd.opcode = d.opcode

\* decode_modrm and decode_sib leave them alone.
LEMMA AddressingSame ==
  ASSUME diagram \in DiagramType, Addressing
  PROVE  SameOpcode(diagram, diagram')
<1>1. ASSUME NEW d \in DiagramType, SameOpcode(diagram, d), AfterSib(d)
      PROVE  SameOpcode(diagram, diagram')
  <2>1. diagram' = d \/ diagram' = [d EXCEPT !.has_modrm = TRUE]
    BY <1>1 DEF AfterSib
  <2>2. SameOpcode(d, [d EXCEPT !.has_modrm = TRUE])
    BY <1>1, SMTT(60) DEF DiagramType, SameOpcode, SameSize
  <2>. HIDE DEF SameOpcode
  <2>3. SameOpcode(d, diagram') \/ diagram' = d
    BY <2>1, <2>2
  <2>. QED
    BY <1>1, <2>3 DEF SameOpcode, SameSize
<1>2. CASE ModRM \/ SibMissing
  <2>1. diagram' = diagram \/ AfterSib(diagram)
    BY <1>2 DEF ModRM, SibMissing
  <2>. QED
    BY <1>1, <2>1 DEF SameOpcode, SameSize
<1>3. CASE Sib
  <2>. DEFINE d == [diagram EXCEPT !.index = IndexOf(op), !.base = BaseOf(op),
                                   !.has_sib = TRUE]
  <2>1. SameOpcode(diagram, d) /\ DOMAIN d = DOMAIN diagram
    BY DEF DiagramType, SameOpcode, SameSize
  <2>2. diagram' = d \/ diagram' = [d EXCEPT !.has_modrm = TRUE]
    BY <1>3 DEF Sib, AfterSib
  <2>. HIDE DEF d
  <2>. QED
    BY <2>1, <2>2 DEF DiagramType, SameOpcode, SameSize
<1>4. ASSUME NEW n, DispMissing(n) \/ Disp(n, AfterSib) \/ Disp(n, ModRMDone)
      PROVE  SameOpcode(diagram, diagram')
  <2>. DEFINE d == [diagram EXCEPT !.has_disp = TRUE]
  <2>1. SameOpcode(diagram, d) /\ DOMAIN d = DOMAIN diagram
    BY DEF DiagramType, SameOpcode, SameSize
  <2>2. diagram' \in {diagram, d, [d EXCEPT !.has_modrm = TRUE]}
    BY <1>4 DEF DispMissing, Disp, AfterSib, ModRMDone
  <2>. HIDE DEF d
  <2>. QED
    BY <2>1, <2>2 DEF DiagramType, SameOpcode, SameSize
<1>5. CASE SibDisp \/ ModRMDisp
  BY <1>4, <1>5 DEF SibDisp, ModRMDisp
<1>. QED
  BY <1>2, <1>3, <1>5 DEF Addressing

\* So does decode_template.
LEMMA ArgumentsSame ==
  ASSUME diagram \in DiagramType, Arguments
  PROVE  SameOpcode(diagram, diagram')
<1>1. diagram' = diagram \/ diagram' = [diagram EXCEPT !.has_is4 = TRUE]
  BY DEF Arguments, Template, RegisterNode, TakeIs4, MemoryNode, ImmediateNode,
         ImmediateMissing, MoffsNode, MoffsMissing, PtrSegment, PtrOffset, TokenNode,
         QualifierNode, NodesDone
<1>. QED
  BY <1>1 DEF DiagramType, SameOpcode, SameSize

\* decode_modrm records no prefix.
LEMMA VectorAddressing ==
  ASSUME TypeOK, VectorInv, Addressing
  PROVE  VectorInv'
<1>1. diagram'.enc = diagram.enc
  BY AddressingSame DEF TypeOK, FieldsType, SameOpcode, SameSize
<1>2. /\ LookedUp /\ UNCHANGED <<flags, vfpc, mapidx>>
  BY DEF Addressing, ModRM, SibMissing, Sib, SibDisp, ModRMDisp, LookedUp, result, prefixes
<1>3. loc' # "scan"
  BY DEF Addressing, ModRM, SibMissing, Sib, SibDisp, ModRMDisp, AfterSib, DispMissing, Disp,
         ModRMDone, ModRMReturns, Fail
<1>4. ForbiddenRecorded' => ForbiddenRecorded
  <2>1. CASE ModRM
    BY <2>1, RecordedForbidden DEF ModRM, TypeOK
  <2>2. CASE SibMissing \/ Sib \/ SibDisp \/ ModRMDisp
    <3>1. UNCHANGED records \/ \E type \in {"SIB", "DISP"} : \E n : Take(type, n)
      BY <2>2 DEF SibMissing, Sib, SibDisp, ModRMDisp, DispMissing, Disp
    <3>. QED
      BY <3>1, TakenForbidden DEF TypeOK
  <2>. QED
    BY <2>1, <2>2 DEF Addressing
<1>. QED
  BY <1>1, <1>2, <1>3, <1>4, VectorStays

\* decode_template records no prefix and never takes `undefined' back.
LEMMA VectorArguments ==
  ASSUME TypeOK, VectorInv, Arguments
  PROVE  VectorInv'
<1>1. diagram'.enc = diagram.enc
  BY ArgumentsSame DEF TypeOK, FieldsType, SameOpcode, SameSize
<1>2. UNCHANGED <<vfpc, mapidx>> /\ LookedUp
  BY DEF Arguments, Template, RegisterNode, MemoryNode, ImmediateNode, ImmediateMissing,
         MoffsNode, MoffsMissing, PtrSegment, PtrOffset, TokenNode, QualifierNode,
         NodesDone, At, LookedUp, prefixes
<1>3. loc' # "scan"
  BY DEF Arguments, Template, RegisterNode, MemoryNode, ImmediateNode, ImmediateMissing,
         MoffsNode, MoffsMissing, PtrSegment, PtrOffset, TokenNode, QualifierNode,
         NodesDone, At, Fill, GiveUp
<1>4. "undefined" \in flags => "undefined" \in flags'
  BY DEF Arguments, Template, RegisterNode, MemoryNode, ImmediateNode, MayBeUgly,
         ImmediateMissing, MoffsNode, MoffsMissing, PtrSegment, PtrOffset, TokenNode,
         QualifierNode, NodesDone
<1>5. ForbiddenRecorded' => ForbiddenRecorded
  <2>1. UNCHANGED records \/ \E type \in {"IMM", "DISP", "ABS_SEG"} : \E n : Take(type, n)
    BY DEF Arguments, Template, RegisterNode, TakeIs4, MemoryNode, ImmediateNode,
           ImmediateMissing, MoffsNode, MoffsMissing, PtrSegment, PtrOffset, TokenNode,
           QualifierNode, NodesDone
  <2>. QED
    BY <2>1, TakenForbidden DEF TypeOK
<1>. QED
  BY <1>1, <1>2, <1>3, <1>4, <1>5, VectorStays

\* VectorInv is inductive with the type invariant and CursorInv.
LEMMA VectorStep ==
  ASSUME TypeOK, VectorInv, DecodeInsn
  PROVE  VectorInv'
<1>1. CASE RejectEmpty
  BY <1>1, VectorStays DEF RejectEmpty, LookedUp, records, prefixes, result, ForbiddenRecorded
<1>2. CASE Begin
  <2>1. pc' = 0 /\ vfpc' = 0 /\ bytecodes' = <<>> /\ ~LookedUp' /\ mapidx' = "NONE"
    BY <1>2 DEF Begin, LookedUp
  <2>2. diagram'.enc = "NONE"
    <3>1. BlankDiagram.enc = "NONE" /\ BlankDiagram \in DiagramType
      BY BlankDiagramType DEF BlankDiagram
    <3>. DEFINE mode == context.machine_mode = 64
    <3>2. \/ diagram' = BlankDiagram
          \/ diagram' = [BlankDiagram EXCEPT !.long_mode = mode, !.asz = DefaultAddressSize,
                                             !.osz = DefaultOperandSize]
      BY <1>2 DEF Begin
    <3>. HIDE DEF mode
    <3>. QED
      BY <3>1, <3>2 DEF DiagramType
  <2>3. ~ForbiddenRecorded'
    BY <2>1 DEF ForbiddenRecorded
  <2>. QED
    BY <2>1, <2>2, <2>3 DEF VectorInv
<1>3. CASE Return
  BY <1>3, VectorStays DEF Return, LookedUp, records, prefixes, ForbiddenRecorded
<1>4. CASE EscapeMap
  <2>1. diagram'.enc = "NONE" /\ loc' = "opcode" /\ vfpc' = vfpc
    BY <1>4 DEF EscapeMap, VectorInv
  <2>2. ForbiddenRecorded' => ForbiddenRecorded
    <3>1. \E bytes : AddBytecode("MAP", bytes)
      BY <1>4 DEF EscapeMap
    <3>. QED
      BY <3>1, RecordedForbidden DEF TypeOK
  <2>. QED
    BY <2>1, <2>2 DEF VectorInv, LookedUp
<1>5. CASE OpcodeByte
  BY <1>5, VectorStays DEF OpcodeByte, LookedUp, records, prefixes, result, ForbiddenRecorded
<1>. QED
  BY <1>1, <1>2, <1>3, <1>4, <1>5, VectorPrefixBytes, VectorVector, VectorOpcode,
     VectorAddressing, VectorArguments DEF DecodeInsn, Prefix

\* VectorInv speaks of nothing outside vars.
LEMMA VectorStutters ==
  ASSUME VectorInv, Finished \/ UNCHANGED vars
  PROVE  VectorInv'
<1>1. UNCHANGED <<loc, ret, pc, vfpc, mapidx, diagram, flags, bytecodes>>
  BY Stutter DEF prefixes, result, records
<1>. QED
  BY <1>1 DEF VectorInv, LookedUp, ForbiddenRecorded

\* No prefix has been met before the call.
LEMMA VectorInit == Init => VectorInv
<1>. SUFFICES ASSUME Init PROVE VectorInv
  OBVIOUS
<1>1. diagram.enc = "NONE" /\ pc = 0 /\ vfpc = 0 /\ bytecodes = <<>>
  BY DEF Init, BlankDiagram
<1>2. ~ForbiddenRecorded
  BY <1>1 DEF ForbiddenRecorded
<1>. QED
  BY <1>1, <1>2 DEF VectorInv

\* REX, 66, f0, f2 or f3 before VEX, XOP, EVEX or MVEX makes the instruction undefined,
\* however many prefixes there are: vfpc, a uint8_t, does not come round to 0 because
\* every prefix it counts has taken a byte of a buffer nb can still say.
THEOREM ForbiddenPrefixCaught == Spec => []ForbiddenPrefixUndefined
<1>1. Init => TypeOK /\ WalkInv /\ VectorInv
  BY TypeInit, WalkInit, VectorInit
<1>2. TypeOK /\ VectorInv /\ [Next]_vars => VectorInv'
  BY VectorStep, VectorStutters DEF Next
<1>3. TypeOK /\ VectorInv => ForbiddenPrefixUndefined
  <2>. SUFFICES ASSUME TypeOK, VectorInv, Returned, diagram.enc # "NONE", ForbiddenRecorded
                PROVE  "undefined" \in flags
    BY DEF ForbiddenPrefixUndefined
  <2>1. vfpc # 0
    BY WrapAssumption DEF VectorInv, TypeOK, PrefixesType
  <2>. QED
    BY <2>1 DEF VectorInv, Returned, LookedUp
<1>. QED
  BY <1>1, <1>2, <1>3, TypeCorrect, PTL DEF Spec

-----------------------------------------------------------------------------
(* What a step consumes.                                                   *)

\* A step that moves pc has looked at the bytes it takes, but for an escape, which looks
\* in its own way, and ModRM, which does not look.
LEMMA StepConsumes ==
  ASSUME TypeOK, WalkInv, DecodeInsn, loc # "call"
  PROVE  \/ UNCHANGED <<pc, records>>
         \/ \E type \in BytecodeTypes \ {"MAP"}, n \in 0..8 : Has(n) /\ Take(type, n)
         \/ EscapeMap
         \/ ModRM
<1>1. CASE Prefix
  <2>1. CASE Vex2 \/ Vex3 \/ Xop \/ Evex \/ Mvex
    BY <2>1 DEF Vex2, Vex3, Xop, Evex, Mvex, IsVex2, IsVex3, IsXop, IsEvex, IsMvex, Vector,
                BytecodeTypes
  <2>2. CASE Rex \/ SegmentPrefix \/ OperandSizePrefix \/ AddressSizePrefix \/ LockPrefix
             \/ RepeatPrefix \/ OpcodeByte
    BY <2>2 DEF Rex, SegmentPrefix, OperandSizePrefix, AddressSizePrefix, LockPrefix,
                RepeatPrefix, OpcodeByte, BytecodeTypes
  <2>. QED
    BY <1>1, <2>1, <2>2 DEF Prefix
<1>2. CASE Opcode
  BY <1>2 DEF Opcode, NoOpcode, ModRMFirst, OpcodeFirst, OpcodeLast, LookUp, BytecodeTypes
<1>3. CASE Addressing
  <2>1. ASSUME NEW n \in {0, 1, 4},
               DispMissing(n) \/ Disp(n, AfterSib) \/ Disp(n, ModRMDone)
        PROVE  \/ UNCHANGED <<pc, records>>
               \/ Has(n) /\ Take("DISP", n)
    BY <2>1 DEF DispMissing, Disp
  <2>2. CASE SibDisp \/ ModRMDisp
    <3>1. PICK n \in {0, 1, 4} : DispMissing(n) \/ Disp(n, AfterSib) \/ Disp(n, ModRMDone)
      BY <2>2, DispSizes DEF SibDisp, ModRMDisp
    <3>2. n \in 0..8 /\ "DISP" \in BytecodeTypes \ {"MAP"}
      BY DEF BytecodeTypes
    <3>. QED
      BY <2>1, <3>1, <3>2
  <2>3. CASE SibMissing \/ Sib
    <3>1. UNCHANGED <<pc, records>> \/ (Has(1) /\ Take("SIB", 1))
      BY <2>3 DEF SibMissing, Sib
    <3>2. 1 \in 0..8 /\ "SIB" \in BytecodeTypes \ {"MAP"}
      BY DEF BytecodeTypes
    <3>. QED
      BY <3>1, <3>2
  <2>. QED
    BY <1>3, <2>2, <2>3 DEF Addressing
<1>4. CASE Arguments
  <2>1. CASE ImmediateNode
    <3>. DEFINE n == Node.bytes[diagram.osz]
    <3>1. n \in 0..8
      BY <2>1, ImmediateSizes DEF ImmediateNode, At
    <3>2. (Has(n) /\ Take("IMM", n)) \/ UNCHANGED <<pc, records>>
      BY <2>1, <3>1 DEF ImmediateNode
    <3>. HIDE DEF n
    <3>. QED
      BY <3>1, <3>2 DEF BytecodeTypes
  <2>2. CASE RegisterNode
    BY <2>2 DEF RegisterNode, TakeIs4, BytecodeTypes
  <2>3. CASE MoffsNode
    BY <2>3 DEF MoffsNode, MoffsSize, BytecodeTypes
  <2>4. CASE PtrSegment \/ PtrOffset
    BY <2>4 DEF PtrSegment, PtrOffset, PtrSize, BytecodeTypes
  <2>5. CASE Template \/ MemoryNode \/ ImmediateMissing \/ MoffsMissing \/ TokenNode
             \/ QualifierNode \/ NodesDone
    BY <2>5 DEF Template, MemoryNode, ImmediateMissing, MoffsMissing, TokenNode,
                QualifierNode, NodesDone
  <2>. QED
    BY <1>4, <2>1, <2>2, <2>3, <2>4, <2>5 DEF Arguments
<1>5. CASE Return
  BY <1>5 DEF Return
<1>. QED
  BY <1>1, <1>2, <1>3, <1>4, <1>5 DEF DecodeInsn, RejectEmpty, Begin

\* What AdvanceIsRecorded allows of a step.
Recording ==
  \/ pc' = pc /\ UNCHANGED records
  \/ Full /\ UNCHANGED records
  \/ /\ Len(bytecodes') = Len(bytecodes) + 1
     /\ pc' = (pc + Len(Last(bytecodes').bytes)) % Wrap

\* Consuming n bytes appends a record of n bytes, unless the list is full.
LEMMA AppendRecords ==
  ASSUME RecordsType, NEW type \in BytecodeTypes, NEW bytes \in Seq(Byte),
         Advance(Len(bytes)), AddBytecode(type, bytes)
  PROVE  Recording
<1>. DEFINE R == [type : BytecodeTypes, bytes : Seq(Byte)]
            record == [type |-> type, bytes |-> bytes]
<1>1. bytecodes \in Seq(R) /\ record \in R /\ record.bytes = bytes
  BY DEF RecordsType
<1>2. CASE UNCHANGED records /\ Full
  BY <1>2 DEF Recording
<1>3. CASE bytecodes' = Append(bytecodes, record)
  <2>. HIDE DEF record, R
  <2>1. Len(bytecodes') = Len(bytecodes) + 1 /\ bytecodes'[Len(bytecodes) + 1] = record
    BY <1>1, <1>3
  <2>2. Last(bytecodes').bytes = bytes
    BY <1>1, <2>1 DEF Last
  <2>. QED
    BY <2>1, <2>2 DEF Recording, Advance
<1>. QED
  BY <1>2, <1>3 DEF AddBytecode, Full

\* decode_map does as well, low byte first or not.
LEMMA EscapeRecords ==
  ASSUME TypeOK, EscapeMap
  PROVE  Recording
<1>. DEFINE next == IF pc + 2 <= nb THEN ByteAt(pc + 1) ELSE 0
<1>1. next \in Byte /\ 15 \in Byte /\ "MAP" \in BytecodeTypes
  <2>1. pc + 1 \in Int
    BY DEF TypeOK, CursorType
  <2>. QED
    BY <2>1, ByteAtType DEF TypeOK, Byte, BytecodeTypes
<1>2. \/ Advance(2) /\ AddBytecode("MAP", <<next, 15>>)
      \/ Advance(1) /\ AddBytecode("MAP", <<15>>)
  BY DEF EscapeMap
<1>. HIDE DEF next
<1>3. /\ <<next, 15>> \in Seq(Byte) /\ Len(<<next, 15>>) = 2
      /\ <<15>> \in Seq(Byte) /\ Len(<<15>>) = 1
  BY <1>1
<1>. QED
  BY <1>1, <1>2, <1>3, AppendRecords DEF TypeOK

\* Step by step, pc moves by exactly the bytes of the one record that step appends, and
\* only a full list loses a record: add_bytecode and advance are called in pairs, in every
\* handler, on every path.
THEOREM RecordsFollowCursor == Spec => AdvanceIsRecorded
<1>1. TypeOK /\ WalkInv /\ [Next]_vars => (loc # "call" => Recording)
  <2>. SUFFICES ASSUME TypeOK, WalkInv, [Next]_vars, loc # "call" PROVE Recording
    OBVIOUS
  <2>1. CASE DecodeInsn
    <3>1. ASSUME NEW type \in BytecodeTypes, NEW n \in Nat, Take(type, n)
          PROVE  Recording
      <4>1. Bytes(pc, n) \in Seq(Byte) /\ Len(Bytes(pc, n)) = n
        BY BytesType DEF TypeOK, CursorType
      <4>. QED
        BY <3>1, <4>1, AppendRecords DEF Take, TypeOK
    <3>2. CASE UNCHANGED <<pc, records>>
      BY <3>2 DEF Recording
    <3>3. CASE ModRM
      <4>. DEFINE modrm == ModRMByte(diagram.mod, diagram.reg, diagram.rm)
      <4>1. Advance(1) /\ AddBytecode("MODRM", <<modrm>>)
        BY <3>3 DEF ModRM
      <4>2. <<modrm>> \in Seq(Byte) /\ "MODRM" \in BytecodeTypes
        BY ModRMFieldBytes DEF TypeOK, FieldsType, BytecodeTypes
      <4>. HIDE DEF modrm
      <4>3. Len(<<modrm>>) = 1
        OBVIOUS
      <4>. QED
        BY <4>1, <4>2, <4>3, AppendRecords DEF TypeOK
    <3>. QED
      BY <2>1, <3>1, <3>2, <3>3, StepConsumes, EscapeRecords
  <2>2. CASE Finished \/ UNCHANGED vars
    BY <2>2, Stutter DEF Recording
  <2>. QED
    BY <2>1, <2>2 DEF Next
<1>. QED
  BY <1>1, TypeCorrect, PTL DEF Spec, AdvanceIsRecorded, Recording

-----------------------------------------------------------------------------
(* The length of an instruction.                                           *)

\* A buffer that fits nb keeps pc from wrapping, so it never moves back.
LEMMA NeverBack ==
  ASSUME TypeOK, WalkInv, CursorInv, LengthInv, DecodeInsn, loc # "call",
         context.length \in 1..Wrap - 2
  PROVE  /\ pc' \in Nat /\ pc \in Nat /\ pc' >= pc
         /\ EscapeMap \/ OpcodeFirst => pc' >= 1
<1>1. nb = context.length /\ nb <= Wrap - 2 /\ nb \in Nat /\ pc \in Nat /\ CursorType
  <2>1. nb = context.length % Wrap
    BY DEF LengthInv
  <2>. QED
    BY <2>1, WrapAssumption DEF TypeOK, CursorType
<1>2. ASSUME NEW n \in Nat, Has(n), Advance(n)
      PROVE  pc' = pc + n
  BY <1>1, <1>2, TakeInside
<1>3. CASE UNCHANGED <<pc, records>> /\ ~EscapeMap /\ ~OpcodeFirst
  BY <1>1, <1>3
<1>4. CASE OpcodeFirst
  <2>1. pc' = pc + 1
    BY <1>2, <1>4 DEF OpcodeFirst, Take
  <2>. QED
    BY <1>1, <2>1
<1>5. CASE EscapeMap
  <2>1. \E n \in 1..2 : Has(n) /\ Advance(n)
    BY <1>5 DEF EscapeMap, Has
  <2>. QED
    BY <1>1, <1>2, <2>1
<1>6. CASE ModRM
  <2>1. pc <= nb
    BY <1>1, <1>6, PlaceInside DEF ModRM
  <2>2. pc' = (pc + 1) % Wrap
    BY <1>6 DEF ModRM, Advance
  <2>3. pc' = pc + 1
    BY <1>1, <2>1, <2>2, WrapAssumption
  <2>4. ~EscapeMap /\ ~OpcodeFirst
    BY <1>6 DEF ModRM, EscapeMap, OpcodeFirst
  <2>. QED
    BY <1>1, <2>3, <2>4
<1>7. CASE (\E type \in BytecodeTypes, n \in Nat : Has(n) /\ Take(type, n))
           /\ ~EscapeMap /\ ~OpcodeFirst
  <2>1. PICK n \in Nat : Has(n) /\ Advance(n)
    BY <1>7 DEF Take
  <2>. QED
    BY <1>1, <1>2, <1>7, <2>1
<1>. QED
  BY <1>3, <1>4, <1>5, <1>6, <1>7, StepConsumes

\* The caller's buffer stands, nb is cut once, and a call starts and ends in one place.
LEMMA InCall ==
  ASSUME DecodeInsn
  PROVE  /\ context' = context
         /\ loc # "call" => nb' = nb
         /\ loc = "call" => RejectEmpty \/ Begin
         /\ loc' = "done" => RejectEmpty \/ Return
         /\ loc # "done" /\ loc' # "call"
<1>1. context' = context
  BY DEF DecodeInsn, RejectEmpty, Begin, Prefix, Rex, SegmentPrefix, OperandSizePrefix,
     AddressSizePrefix, LockPrefix, RepeatPrefix, EscapeMap, Vex2, Vex3, Xop, Evex, Mvex,
     Vector, OpcodeByte, Opcode, NoOpcode, ModRMFirst, OpcodeFirst, OpcodeLast, LookUp,
     Addressing, ModRM, SibMissing, Sib, SibDisp, ModRMDisp, Arguments, Template,
     RegisterNode, MemoryNode, ImmediateNode, ImmediateMissing, MoffsNode, MoffsMissing,
     PtrSegment, PtrOffset, TokenNode, QualifierNode, NodesDone, Return,
     caller
<1>2. loc # "call" => nb' = nb
  BY DEF DecodeInsn, RejectEmpty, Begin, Prefix, Rex, SegmentPrefix, OperandSizePrefix,
     AddressSizePrefix, LockPrefix, RepeatPrefix, EscapeMap, Vex2, Vex3, Xop, Evex, Mvex,
     Vector, OpcodeByte, Opcode, NoOpcode, ModRMFirst, OpcodeFirst, OpcodeLast, LookUp,
     Addressing, ModRM, SibMissing, Sib, SibDisp, ModRMDisp, Arguments, Template,
     RegisterNode, MemoryNode, ImmediateNode, ImmediateMissing, MoffsNode, MoffsMissing,
     PtrSegment, PtrOffset, TokenNode, QualifierNode, NodesDone, Return
<1>3. loc = "call" => RejectEmpty \/ Begin
  BY DEF DecodeInsn, RejectEmpty, Begin, Prefix, Rex, SegmentPrefix, OperandSizePrefix,
     AddressSizePrefix, LockPrefix, RepeatPrefix, EscapeMap, Vex2, Vex3, Xop, Evex, Mvex,
     Vector, OpcodeByte, Opcode, NoOpcode, ModRMFirst, OpcodeFirst, OpcodeLast, LookUp,
     Addressing, ModRM, SibMissing, Sib, SibDisp, ModRMDisp, Arguments, Template,
     RegisterNode, MemoryNode, ImmediateNode, ImmediateMissing, MoffsNode, MoffsMissing,
     PtrSegment, PtrOffset, TokenNode, QualifierNode, NodesDone, Return,
     At
<1>4. loc' = "done" => RejectEmpty \/ Return
  BY DEF DecodeInsn, RejectEmpty, Begin, Prefix, Rex, SegmentPrefix, OperandSizePrefix,
     AddressSizePrefix, LockPrefix, RepeatPrefix, EscapeMap, Vex2, Vex3, Xop, Evex, Mvex,
     Vector, OpcodeByte, Opcode, NoOpcode, ModRMFirst, OpcodeFirst, OpcodeLast, LookUp,
     Addressing, ModRM, SibMissing, Sib, SibDisp, ModRMDisp, Arguments, Template,
     RegisterNode, MemoryNode, ImmediateNode, ImmediateMissing, MoffsNode, MoffsMissing,
     PtrSegment, PtrOffset, TokenNode, QualifierNode, NodesDone, Return,
     AfterSib, DispMissing, Disp, ModRMDone, ModRMReturns, Fail, At, Fill, GiveUp
<1>5. loc # "done"
  BY DEF DecodeInsn, RejectEmpty, Begin, Prefix, Rex, SegmentPrefix, OperandSizePrefix,
     AddressSizePrefix, LockPrefix, RepeatPrefix, EscapeMap, Vex2, Vex3, Xop, Evex, Mvex,
     Vector, OpcodeByte, Opcode, NoOpcode, ModRMFirst, OpcodeFirst, OpcodeLast, LookUp,
     Addressing, ModRM, SibMissing, Sib, SibDisp, ModRMDisp, Arguments, Template,
     RegisterNode, MemoryNode, ImmediateNode, ImmediateMissing, MoffsNode, MoffsMissing,
     PtrSegment, PtrOffset, TokenNode, QualifierNode, NodesDone, Return,
     At
<1>6. loc' # "call"
  BY DEF DecodeInsn, RejectEmpty, Begin, Prefix, Rex, SegmentPrefix, OperandSizePrefix,
     AddressSizePrefix, LockPrefix, RepeatPrefix, EscapeMap, Vex2, Vex3, Xop, Evex, Mvex,
     OpcodeByte, Opcode, NoOpcode, ModRMFirst, OpcodeFirst, OpcodeLast, LookUp,
     Addressing, ModRM, SibMissing, Sib, SibDisp, ModRMDisp, Arguments, Template,
     RegisterNode, MemoryNode, ImmediateNode, ImmediateMissing, MoffsNode, MoffsMissing,
     PtrSegment, PtrOffset, TokenNode, QualifierNode, NodesDone, Return,
     AfterSib, DispMissing, Disp, ModRMDone, ModRMReturns, Fail, At, Fill, GiveUp,
     Vector
<1>. QED
  BY <1>1, <1>2, <1>3, <1>4, <1>5, <1>6

\* nb is cut from the length the call is given.
LEMMA LengthBegin ==
  ASSUME Begin
  PROVE  LengthInv'
BY InCall DEF Begin, LengthInv, LookedUp, DecodeInsn

\* LengthInv is inductive with the type invariant, WalkInv and CursorInv.
LEMMA LengthStep ==
  ASSUME TypeOK, TypeOK', WalkInv, CursorInv, LengthInv, DecodeInsn
  PROVE  LengthInv'
<1>1. context' = context
  BY InCall
<1>2. CASE RejectEmpty
  <2>1. context.length = 0 /\ nb' = 0 /\ ret' = FALSE /\ loc' = "done" /\ mapidx' = mapidx
    BY <1>2 DEF RejectEmpty, CursorInv, prefixes
  <2>2. 0 % Wrap = 0 /\ context.length \notin 1..Wrap - 2
    BY <2>1, WrapAssumption
  <2>. QED
    BY <1>1, <2>1, <2>2 DEF LengthInv
<1>3. CASE Begin
  BY <1>3, LengthBegin
<1>4. CASE loc # "call"
  <2>1. nb' = context'.length % Wrap
    <3>1. nb' = nb
      BY <1>4, InCall
    <3>. QED
      BY <1>1, <1>4, <3>1 DEF LengthInv
  <2>2. SUFFICES ASSUME context.length \in 1..Wrap - 2
                 PROVE  /\ mapidx' = "0F0F" \/ LookedUp' \/ loc' = "lookup" => pc' >= 1
                        /\ loc' = "done" /\ ret' => insn'.length = pc'
    BY <1>1, <2>1 DEF LengthInv
  <2>3. \/ EscapeMap \/ OpcodeFirst
        \/ mapidx' = "0F0F" \/ LookedUp' \/ loc' = "lookup"
             => mapidx = "0F0F" \/ LookedUp \/ loc = "lookup"
    <3>1. CASE Return
      BY <3>1 DEF Return, LookedUp, prefixes
    <3>2. CASE Prefix
      <4>1. CASE Vex2 \/ Vex3 \/ Xop \/ Evex \/ Mvex
        <5>1. mapidx' # "0F0F" /\ loc' = "opcode"
          <6>1. CASE Vex2
            BY <6>1 DEF Vex2, Vector
          <6>2. CASE Vex3
            BY <6>2 DEF Vex3, IsVex3, VexMap, Vector
          <6>3. CASE Xop
            BY <6>3 DEF Xop, IsXop, XopMap, Vector
          <6>4. CASE Evex
            BY <6>4 DEF Evex, IsEvex, VexMap, Vector
          <6>5. CASE Mvex
            BY <6>5 DEF Mvex, IsMvex, MvexMap, Vector
          <6>. QED
            BY <4>1, <6>1, <6>2, <6>3, <6>4, <6>5
        <5>. QED
          BY <5>1 DEF LookedUp
      <4>2. CASE Rex \/ SegmentPrefix \/ OperandSizePrefix \/ AddressSizePrefix
                 \/ LockPrefix \/ RepeatPrefix \/ OpcodeByte
        BY <4>2 DEF Rex, SegmentPrefix, OperandSizePrefix, AddressSizePrefix, LockPrefix,
                    RepeatPrefix, OpcodeByte, LookedUp, prefixes
      <4>. QED
        BY <3>2, <4>1, <4>2 DEF Prefix
    <3>3. CASE Opcode
      BY <3>3 DEF Opcode, NoOpcode, Fail, ModRMFirst, OpcodeLast, LookUp, CursorInv, LookedUp,
                  prefixes
    <3>4. CASE Addressing \/ Arguments
      BY <3>4 DEF Addressing, ModRM, SibMissing, Sib, SibDisp, ModRMDisp, Arguments,
         Template, RegisterNode, MemoryNode, ImmediateNode, ImmediateMissing, MoffsNode,
         MoffsMissing, PtrSegment, PtrOffset, TokenNode, QualifierNode, NodesDone, At,
         LookedUp
    <3>. QED
      BY <1>4, <3>1, <3>2, <3>3, <3>4 DEF DecodeInsn, RejectEmpty, Begin
  <2>4. mapidx' = "0F0F" \/ LookedUp' \/ loc' = "lookup" => pc' >= 1
    <3>1. mapidx = "0F0F" \/ LookedUp \/ loc = "lookup" => pc >= 1
      BY <2>2 DEF LengthInv
    <3>2. pc' \in Nat /\ pc \in Nat /\ pc' >= pc /\ (EscapeMap \/ OpcodeFirst => pc' >= 1)
      BY <1>4, <2>2, NeverBack
    <3>. QED
      BY <2>3, <3>1, <3>2
  <2>5. loc' = "done" /\ ret' => insn'.length = pc'
    <3>1. CASE Return
      BY <3>1 DEF Return, TypeOK, ResultType, InsnType
    <3>2. CASE ~Return
      <4>1. loc' # "done"
        BY <1>4, <3>2, InCall DEF RejectEmpty
      <4>. QED
        BY <4>1
    <3>. QED
      BY <3>1, <3>2
  <2>. QED
    BY <2>4, <2>5
<1>. QED
  BY <1>2, <1>3, <1>4, InCall

\* Nothing has been consumed before the call.
LEMMA LengthInit == Init => LengthInv
BY DEF Init, LengthInv, LookedUp

\* LengthInv speaks of nothing outside vars.
LEMMA LengthStutters ==
  ASSUME LengthInv, Finished \/ UNCHANGED vars
  PROVE  LengthInv'
<1>1. UNCHANGED <<loc, ret, nb, pc, mapidx, context, insn>>
  BY Stutter DEF prefixes, caller, result
<1>. QED
  BY <1>1 DEF LengthInv, LookedUp

\* What Progress says of a length follows from the place the cursor has reached.
LEMMA CursorProgress == TypeOK /\ CursorInv /\ LengthInv => Progress
<1>. SUFFICES ASSUME TypeOK, CursorInv, LengthInv, Returned, context.length \in 1..Wrap - 2
              PROVE  insn.length \in 1..context.length + 1
  BY DEF Progress
<1>1. nb = context.length % Wrap /\ pc >= 1 /\ insn.length = pc
  BY DEF LengthInv, Returned, LookedUp
<1>2. nb = context.length
  BY <1>1, WrapAssumption
<1>3. pc <= nb + 1 /\ pc \in Nat
  BY WrapAssumption DEF CursorInv, OvershootIsModRM, TypeOK, CursorType
<1>. QED
  BY <1>1, <1>2, <1>3

\* In a buffer that nb can say, less one byte, a call that succeeds has a length a caller
\* can advance by: not 0, and at most one byte behind its buffer.
THEOREM LengthMakesProgress == Spec => []Progress
<1>1. Init => TypeOK /\ WalkInv /\ CursorInv /\ LengthInv
  BY TypeInit, WalkInit, CursorInit, LengthInit
<1>2. TypeOK /\ TypeOK' /\ WalkInv /\ CursorInv /\ LengthInv /\ [Next]_vars
        => CursorInv' /\ LengthInv'
  BY CursorStep, CursorStutters, LengthStep, LengthStutters DEF Next
<1>3. TypeOK /\ CursorInv /\ LengthInv => Progress
  BY CursorProgress
<1>. QED
  BY <1>1, <1>2, <1>3, TypeCorrect, PTL DEF Spec
=============================================================================
