-------------------------- MODULE X86MeaningProofs --------------------------
(***************************************************************************)
(* Proofs of what the x86 decoder makes of the prefixes it has met, of the *)
(* nodes of the template it has found and of its records: PrefixInv,       *)
(* FunctionalityInv, ArgumentsInv, SizeInv, LegacyInv, GuessInv and        *)
(* TileInv of X86Invariants; and, with LoopInv, that the loop around the   *)
(* decoder implements InsnCursor.                                          *)
(***************************************************************************)
EXTENDS X86SafetyProofs, X86Stream, FiniteSetTheorems, WellFoundedInduction

\* The handlers of a prefix of one byte.
PrefixByte ==
  \/ Rex \/ SegmentPrefix \/ OperandSizePrefix \/ AddressSizePrefix \/ LockPrefix
  \/ RepeatPrefix

-----------------------------------------------------------------------------
(* The records of prefixes.                                                *)

\* A set of records that is not empty has a last one.
LEMMA Greatest ==
  ASSUME NEW n \in Nat, NEW met \in SUBSET (1..n), met # {}
  PROVE  \E i \in met : \A j \in met : j <= i
<1>. DEFINE Less  == {ss \in Nat \X Nat : ss[1] < ss[2]}
            Above == {k \in Nat : \A j \in met : j <= k}
<1>1. IsWellFoundedOn(Less, Nat)
  BY NatLessThanWellFounded DEF OpToRel
<1>2. n \in Above /\ Above \subseteq Nat
  OBVIOUS
<1>. HIDE DEF Less, Above
<1>3. PICK k \in Above : \A m \in Above : ~ (<<m, k>> \in Less)
  BY <1>1, <1>2, WFMin
<1>4. \A m \in Above : ~ (m < k)
  BY <1>2, <1>3 DEF Less
<1>5. k \in Nat /\ \A j \in met : j <= k
  BY <1>3 DEF Above
<1>6. k \in met
  <2>. SUFFICES ASSUME k \notin met PROVE FALSE
    OBVIOUS
  <2>1. \A j \in met : j \in Nat /\ j >= 1 /\ j <= k - 1
    BY <1>5
  <2>2. PICK j \in met : TRUE
    OBVIOUS
  <2>3. k - 1 \in Nat
    BY <1>5, <2>1, <2>2
  <2>4. k - 1 \in Above
    BY <2>1, <2>3 DEF Above
  <2>. QED
    BY <1>4, <1>5, <2>4
<1>. QED
  BY <1>5, <1>6

\* The records are numbered from 1.
LEMMA MetType ==
  ASSUME RecordsType, NEW S
  PROVE  Len(bytecodes) \in Nat /\ DOMAIN bytecodes = 1..Len(bytecodes)
         /\ Met(S) \subseteq 1..Len(bytecodes)
<1>. DEFINE R == [type : BytecodeTypes, bytes : Seq(Byte)]
<1>1. bytecodes \in Seq(R)
  BY DEF RecordsType
<1>. HIDE DEF R
<1>. QED
  BY <1>1 DEF Met

\* LastMet is the byte of the last record among them.
LEMMA LastIsMet ==
  ASSUME RecordsType, NEW S, Met(S) # {}
  PROVE  \E i \in Met(S) : /\ \A j \in Met(S) : j <= i
                           /\ LastMet(S) = bytecodes[i].bytes[1]
<1>. DEFINE met == Met(S)
            last == CHOOSE i \in met : \A j \in met : j <= i
<1>1. \E i \in met : \A j \in met : j <= i
  BY MetType, Greatest
<1>2. last \in met /\ \A j \in met : j <= last
  BY <1>1
<1>3. LastMet(S) = bytecodes[last].bytes[1]
  BY DEF LastMet
<1>. QED
  BY <1>2, <1>3

\* Whoever is met behind all others is the last.
LEMMA LastOf ==
  ASSUME RecordsType, NEW S, NEW i \in Met(S), \A j \in Met(S) : j <= i
  PROVE  LastMet(S) = bytecodes[i].bytes[1]
<1>1. PICK k \in Met(S) : /\ \A j \in Met(S) : j <= k
                          /\ LastMet(S) = bytecodes[k].bytes[1]
  BY LastIsMet
<1>2. k <= i /\ i <= k /\ k \in Nat /\ i \in Nat
  BY <1>1, MetType
<1>. QED
  BY <1>1, <1>2

\* A new record is met if it is the record of a prefix, and then it is the last.
LEMMA Appended ==
  ASSUME RecordsType, RecordsType', NEW type, NEW bytes, NEW S,
         bytecodes' = Append(bytecodes, [type |-> type, bytes |-> bytes])
  PROVE  IF type \in {"PREFIX", "REX"} /\ bytes[1] \in S
         THEN Met(S)' = Met(S) \union {Len(bytecodes) + 1} /\ LastMet(S)' = bytes[1]
         ELSE Met(S)' = Met(S) /\ LastMet(S)' = LastMet(S)
<1>. DEFINE R == [type : BytecodeTypes, bytes : Seq(Byte)]
            record == [type |-> type, bytes |-> bytes]
            n == Len(bytecodes)
            isNew == type \in {"PREFIX", "REX"} /\ bytes[1] \in S
<1>1. bytecodes \in Seq(R)
  BY DEF RecordsType
<1>2. record.type = type /\ record.bytes = bytes
  OBVIOUS
<1>3. bytecodes' = Append(bytecodes, record)
  OBVIOUS
<1>. HIDE DEF R, record
<1>4. /\ n \in Nat /\ DOMAIN bytecodes = 1..n /\ DOMAIN bytecodes' = 1..n + 1
      /\ bytecodes'[n + 1] = record /\ \A k \in 1..n : bytecodes'[k] = bytecodes[k]
  BY <1>1, <1>3
<1>5. \A k : k \in 1..n + 1 <=> k \in 1..n \/ k = n + 1
  BY <1>4
<1>6. Met(S)' = IF isNew THEN Met(S) \union {n + 1} ELSE Met(S)
  <2>1. \A k : k \in Met(S)' <=> k \in Met(S) \/ (k = n + 1 /\ isNew)
    <3>1. n + 1 \notin 1..n
      BY <1>4
    <3>. QED
      BY <1>2, <1>4, <1>5, <3>1 DEF Met
  <2>. QED
    BY <2>1
<1>7. Met(S) \subseteq 1..n
  BY MetType
<1>8. CASE isNew
  <2>1. n + 1 \in Met(S)' /\ \A j \in Met(S)' : j <= n + 1
    BY <1>4, <1>6, <1>7, <1>8
  <2>2. LastMet(S)' = bytecodes'[n + 1].bytes[1]
    <3>. DEFINE met == Met(S)'
                last == CHOOSE i \in met : \A j \in met : j <= i
    <3>1. last \in met /\ \A j \in met : j <= last
      BY <2>1
    <3>2. last = n + 1
      BY <1>4, <1>6, <1>7, <1>8, <2>1, <3>1
    <3>3. LastMet(S)' = bytecodes'[last].bytes[1]
      BY <2>1 DEF LastMet
    <3>. QED
      BY <3>2, <3>3
  <2>. QED
    BY <1>2, <1>4, <1>6, <1>8, <2>2
<1>9. CASE ~isNew
  <2>1. Met(S)' = Met(S)
    BY <1>6, <1>9
  <2>2. CASE Met(S) = {}
    BY <1>9, <2>1, <2>2 DEF LastMet
  <2>3. CASE Met(S) # {}
    <3>. DEFINE met == Met(S)
                last == CHOOSE i \in met : \A j \in met : j <= i
    <3>1. last \in met
      BY <1>4, <1>7, <2>3, Greatest
    <3>2. bytecodes'[last] = bytecodes[last]
      BY <1>4, <1>7, <3>1
    <3>3. LastMet(S) = bytecodes[last].bytes[1] /\ LastMet(S)' = bytecodes'[last].bytes[1]
      BY <2>1, <2>3 DEF LastMet
    <3>. QED
      BY <1>9, <2>1, <3>2, <3>3
  <2>. QED
    BY <2>2, <2>3
<1>. QED
  BY <1>8, <1>9

\* Where the list has room behind a step it had room before, and has taken the record.
LEMMA HasRoom ==
  ASSUME NEW type, NEW bytes, AddBytecode(type, bytes), ~Full'
  PROVE  ~Full /\ bytecodes' = Append(bytecodes, [type |-> type, bytes |-> bytes])
BY DEF AddBytecode, Full, records

\* A handler of a prefix records the byte it has read.
LEMMA PrefixRecorded ==
  ASSUME TypeOK, TypeOK', PrefixByte, ~Full', NEW S
  PROVE  /\ ~Full
         /\ Len(bytecodes') = Len(bytecodes) + 1
         /\ IF op \in S
            THEN Met(S)' = Met(S) \union {Len(bytecodes) + 1} /\ LastMet(S)' = op
            ELSE Met(S)' = Met(S) /\ LastMet(S)' = LastMet(S)
<1>1. PICK type \in {"PREFIX", "REX"} : Take(type, 1)
  BY DEF PrefixByte, Rex, SegmentPrefix, OperandSizePrefix, AddressSizePrefix, LockPrefix,
         RepeatPrefix
<1>. DEFINE bytes == Bytes(pc, 1)
<1>2. bytes[1] = op
  <2>1. pc + 1 - 1 = pc
    BY WrapAssumption DEF TypeOK, CursorType
  <2>. QED
    BY <2>1 DEF Bytes, op
<1>. HIDE DEF bytes
<1>3. ~Full /\ bytecodes' = Append(bytecodes, [type |-> type, bytes |-> bytes])
  BY <1>1, HasRoom DEF Take, bytes
<1>4. RecordsType /\ RecordsType'
  BY DEF TypeOK
<1>5. Len(bytecodes') = Len(bytecodes) + 1
  <2>. DEFINE R == [type : BytecodeTypes, bytes : Seq(Byte)]
              record == [type |-> type, bytes |-> bytes]
  <2>1. bytecodes \in Seq(R)
    BY <1>4 DEF RecordsType
  <2>2. bytecodes' = Append(bytecodes, record)
    BY <1>3
  <2>. HIDE DEF R, record
  <2>. QED
    BY <2>1, <2>2
<1>. QED
  BY <1>1, <1>2, <1>3, <1>4, <1>5, Appended

\* A step that records no prefix, of a list that has room.
Unmet(S) == ~Full' => ~Full /\ Met(S)' = Met(S) /\ LastMet(S)' = LastMet(S)

\* A record of another type is met as no prefix.
LEMMA OtherRecord ==
  ASSUME RecordsType, RecordsType', NEW type, type \notin {"PREFIX", "REX"}, NEW bytes,
         AddBytecode(type, bytes) \/ UNCHANGED records, NEW S
  PROVE  Unmet(S)
<1>1. CASE UNCHANGED records
  BY <1>1 DEF Unmet, Full, Met, LastMet, records
<1>2. ASSUME AddBytecode(type, bytes), ~Full'
      PROVE  ~Full /\ Met(S)' = Met(S) /\ LastMet(S)' = LastMet(S)
  <2>1. ~Full /\ bytecodes' = Append(bytecodes, [type |-> type, bytes |-> bytes])
    BY <1>2, HasRoom
  <2>. QED
    BY <2>1, Appended
<1>. QED
  BY <1>1, <1>2 DEF Unmet

\* No other handler records a prefix.
LEMMA OthersUnmet ==
  ASSUME TypeOK, TypeOK', DecodeInsn, ~Begin, ~PrefixByte, NEW S
  PROVE  Unmet(S)
<1>1. RecordsType /\ RecordsType'
  BY DEF TypeOK
<1>2. ASSUME UNCHANGED records
      PROVE  Unmet(S)
  BY <1>2 DEF Unmet, Full, Met, LastMet, records
<1>3. ASSUME NEW type, type \notin {"PREFIX", "REX"}, NEW n, Take(type, n)
      PROVE  Unmet(S)
  BY <1>1, <1>3, OtherRecord DEF Take
<1>4. CASE RejectEmpty \/ Return \/ OpcodeByte
  BY <1>2, <1>4 DEF RejectEmpty, Return, OpcodeByte
<1>5. CASE EscapeMap
  <2>1. \E bytes : AddBytecode("MAP", bytes)
    BY <1>5 DEF EscapeMap
  <2>. QED
    BY <1>1, <2>1, OtherRecord
<1>6. CASE Vex2 \/ Vex3 \/ Xop \/ Evex \/ Mvex
  <2>1. \E type \in {"VEX2", "VEX3", "EVEX", "MVEX"} : \E n : Take(type, n)
    BY <1>6 DEF Vex2, Vex3, Xop, Evex, Mvex, Vector
  <2>. QED
    BY <1>3, <2>1
<1>7. CASE Opcode
  <2>1. UNCHANGED records \/ Take("OPCODE", 1)
    BY <1>7 DEF Opcode, NoOpcode, ModRMFirst, OpcodeFirst, OpcodeLast, LookUp
  <2>. QED
    BY <1>2, <1>3, <2>1
<1>8. CASE ModRM
  <2>1. \E bytes : AddBytecode("MODRM", bytes)
    BY <1>8 DEF ModRM
  <2>. QED
    BY <1>1, <2>1, OtherRecord
<1>9. CASE SibMissing \/ Sib \/ SibDisp \/ ModRMDisp
  <2>1. UNCHANGED records \/ \E type \in {"SIB", "DISP"} : \E n : Take(type, n)
    BY <1>9 DEF SibMissing, Sib, SibDisp, ModRMDisp, DispMissing, Disp
  <2>. QED
    BY <1>2, <1>3, <2>1
<1>10. CASE Arguments
  <2>1. UNCHANGED records \/ \E type \in {"IMM", "DISP", "ABS_SEG"} : \E n : Take(type, n)
    BY <1>10 DEF Arguments, Template, RegisterNode, TakeIs4, MemoryNode, ImmediateNode,
           ImmediateMissing, MoffsNode, MoffsMissing, PtrSegment, PtrOffset, TokenNode,
           QualifierNode, NodesDone
  <2>. QED
    BY <1>2, <1>3, <2>1
<1>. QED
  BY <1>4, <1>5, <1>6, <1>7, <1>8, <1>9, <1>10 DEF DecodeInsn, Prefix, PrefixByte, Addressing

\* Nothing has been met where nothing is recorded.
LEMMA NothingMet ==
  ASSUME bytecodes = <<>>, NEW S
  PROVE  Met(S) = {} /\ LastMet(S) = 0
BY DEF Met, LastMet

\* Nor is anything met once the list is emptied.
LEMMA NothingMetNext ==
  ASSUME bytecodes' = <<>>, NEW S
  PROVE  Met(S)' = {} /\ LastMet(S)' = 0
BY DEF Met, LastMet

-----------------------------------------------------------------------------
(* Segment overrides and repeat prefixes.                                  *)

\* A segment override is never taken for none.
LEMMA SegmentMet ==
  ASSUME RecordsType, Met(SegmentBytes) # {}
  PROVE  SegmentOf[LastMet(SegmentBytes)] # "NONE"
<1>1. LastMet(SegmentBytes) \in SegmentBytes
  BY LastIsMet DEF Met
<1>. QED
  BY <1>1 DEF SegmentBytes, SegmentOf

\* What the prefix state remembers of a prefix byte.
LEMMA PrefixByteRemembered ==
  ASSUME TypeOK, TypeOK', PrefixInv, PrefixByte
  PROVE  PrefixInv'
<1>. SUFFICES ASSUME ~Full' PROVE PrefixInv'
  BY DEF PrefixInv
<1>. DEFINE n == Len(bytecodes)
            over == Met(SegmentBytes)
<1>1. ~Full
  BY PrefixRecorded
<1>2. IF op \in {REPNE, REP} THEN LastMet({REPNE, REP})' = op
      ELSE LastMet({REPNE, REP})' = LastMet({REPNE, REP})
  BY PrefixRecorded
<1>3. IF op \in SegmentBytes
      THEN over' = over \union {n + 1} /\ LastMet(SegmentBytes)' = op
      ELSE over' = over /\ LastMet(SegmentBytes)' = LastMet(SegmentBytes)
  BY PrefixRecorded
<1>4. /\ last_f_prefix = LastMet({REPNE, REP})
      /\ segment = IF over = {} THEN "NONE" ELSE SegmentOf[LastMet(SegmentBytes)]
      /\ (\E i, j \in over : i # j) => "ugly" \in flags
  BY <1>1 DEF PrefixInv
<1>5. last_f_prefix' = LastMet({REPNE, REP})'
  <2>1. CASE RepeatPrefix
    BY <1>2, <2>1 DEF RepeatPrefix
  <2>2. CASE ~RepeatPrefix
    <3>1. op \notin {REPNE, REP} /\ last_f_prefix' = last_f_prefix
      BY <2>2 DEF PrefixByte, Rex, SegmentPrefix, OperandSizePrefix, AddressSizePrefix,
                  LockPrefix, IsRex, RexBytes, SegmentBytes, SegmentOf, OPSIZE, ADSIZE, LOCK,
                  REPNE, REP, prefixes
    <3>. QED
      BY <1>2, <1>4, <3>1
  <2>. QED
    BY <2>1, <2>2
<1>6. CASE SegmentPrefix
  <2>1. /\ op \in SegmentBytes /\ segment' = SegmentOf[op]
        /\ flags' = IF segment # "NONE" THEN flags \union {"ugly"} ELSE flags
    BY <1>6 DEF SegmentPrefix, NewSegment
  <2>2. over # {} => segment # "NONE"
    BY <1>4, SegmentMet DEF TypeOK
  <2>3. segment' = SegmentOf[LastMet(SegmentBytes)'] /\ over' = over \union {n + 1}
    BY <1>3, <2>1
  <2>4. (\E i, j \in over' : i # j) => "ugly" \in flags'
    BY <1>4, <2>1, <2>2, <2>3
  <2>. QED
    BY <1>5, <2>3, <2>4 DEF PrefixInv
<1>7. CASE ~SegmentPrefix
  <2>1. op \notin SegmentBytes /\ segment' = segment /\ flags' = flags
    BY <1>7 DEF PrefixByte, Rex, RepeatPrefix, OperandSizePrefix, AddressSizePrefix,
                LockPrefix, IsRex, RexBytes, SegmentBytes, SegmentOf, OPSIZE, ADSIZE, LOCK,
                REPNE, REP, prefixes, result
  <2>. QED
    BY <1>3, <1>4, <1>5, <2>1 DEF PrefixInv
<1>. QED
  BY <1>6, <1>7

\* Behind the scan the prefix state stands, and no handler takes `ugly' back.
LEMMA PrefixStands ==
  ASSUME DecodeInsn, ~Begin, ~PrefixByte
  PROVE  /\ UNCHANGED <<segment, last_f_prefix>>
         /\ "ugly" \in flags => "ugly" \in flags'
<1>1. CASE RejectEmpty \/ Return \/ OpcodeByte \/ EscapeMap
  BY <1>1 DEF RejectEmpty, Return, OpcodeByte, EscapeMap, prefixes, result
<1>2. CASE Vex2 \/ Vex3 \/ Xop \/ Evex \/ Mvex
  BY <1>2 DEF Vex2, Vex3, Xop, Evex, Mvex, Vector, result
<1>3. CASE Opcode
  BY <1>3 DEF Opcode, NoOpcode, ModRMFirst, OpcodeFirst, OpcodeLast, LookUp, LookUpFlags,
              prefixes, result
<1>4. CASE Addressing
  BY <1>4 DEF Addressing, ModRM, SibMissing, Sib, SibDisp, ModRMDisp, prefixes, result
<1>5. CASE Arguments
  <2>1. UNCHANGED prefixes
    BY <1>5 DEF Arguments, Template, RegisterNode, MemoryNode, ImmediateNode,
           ImmediateMissing, MoffsNode, MoffsMissing, PtrSegment, PtrOffset, TokenNode,
           QualifierNode, NodesDone
  <2>2. "ugly" \in flags => "ugly" \in flags'
    BY <1>5 DEF Arguments, Template, RegisterNode, MemoryNode, ImmediateNode, MayBeUgly,
           ImmediateMissing, MoffsNode, MoffsMissing, PtrSegment, PtrOffset, TokenNode,
           QualifierNode, NodesDone
  <2>. QED
    BY <2>1, <2>2 DEF prefixes
<1>. QED
  BY <1>1, <1>2, <1>3, <1>4, <1>5 DEF DecodeInsn, Prefix, PrefixByte

\* PrefixInv is inductive with the type invariant.
LEMMA PrefixStep ==
  ASSUME TypeOK, TypeOK', PrefixInv, DecodeInsn
  PROVE  PrefixInv'
<1>1. CASE Begin
  <2>1. bytecodes' = <<>> /\ segment' = "NONE" /\ last_f_prefix' = 0
    BY <1>1 DEF Begin
  <2>. QED
    BY <2>1, NothingMetNext DEF PrefixInv
<1>2. CASE PrefixByte
  BY <1>2, PrefixByteRemembered
<1>3. CASE ~Begin /\ ~PrefixByte
  <2>1. Unmet({REPNE, REP}) /\ Unmet(SegmentBytes)
    BY <1>3, OthersUnmet
  <2>2. UNCHANGED <<segment, last_f_prefix>> /\ ("ugly" \in flags => "ugly" \in flags')
    BY <1>3, PrefixStands
  <2>. QED
    BY <2>1, <2>2 DEF PrefixInv, Unmet
<1>. QED
  BY <1>1, <1>2, <1>3

\* It speaks of nothing outside vars.
LEMMA PrefixStutters ==
  ASSUME PrefixInv, Finished \/ UNCHANGED vars
  PROVE  PrefixInv'
<1>1. UNCHANGED <<bytecodes, bytecode_count, flags, segment, last_f_prefix>>
  BY Stutter DEF prefixes, result, records
<1>. QED
  BY <1>1 DEF PrefixInv, Full, Met, LastMet

\* Before the call nothing is remembered.
LEMMA PrefixInit == Init => PrefixInv
BY NothingMet DEF Init, PrefixInv

\* The prefix state remembers what was met.
LEMMA PrefixCorrect == Spec => []PrefixInv
<1>1. TypeOK /\ TypeOK' /\ PrefixInv /\ [Next]_vars => PrefixInv'
  BY PrefixStep, PrefixStutters DEF Next
<1>. QED
  BY <1>1, PrefixInit, TypeCorrect, PTL DEF Spec

\* Of several overrides the last stands, and two are ugly (add_segment).
THEOREM SegmentCorrect == Spec => []SegmentOverride
<1>1. PrefixInv => SegmentOverride
  BY DEF PrefixInv, SegmentOverride
<1>. QED
  BY <1>1, PrefixCorrect, PTL

\* What a handler leaves of the two flags of hardware lock elision.
Elision == {"acquiring", "releasing"}
ElisionStands == flags' \cap Elision = flags \cap Elision

\* Ahead of decode_template no handler sets them.
LEMMA ElisionAhead ==
  ASSUME Prefix \/ Opcode \/ Addressing
  PROVE  /\ ElisionStands /\ loc \in BeforeNodes \ {"call"}
         /\ loc' \in BeforeNodes \ {"call"} \/ (loc' = "return" /\ ~ret')
<1>1. CASE Prefix
  <2>1. CASE SegmentPrefix
    BY <2>1 DEF SegmentPrefix, ElisionStands, Elision, BeforeNodes
  <2>2. CASE ~SegmentPrefix
    BY <1>1, <2>2 DEF Prefix, Rex, OperandSizePrefix, AddressSizePrefix, LockPrefix,
           RepeatPrefix, EscapeMap, OpcodeByte, Vex2, Vex3, Xop, Evex, Mvex, Vector, result,
           ElisionStands, BeforeNodes
  <2>. QED
    BY <2>1, <2>2
<1>2. CASE Opcode
  <2>1. CASE LookUp
    <3>1. PICK e \in Lookup(mapidx, SizedDiagram) :
            /\ flags' = LookUpFlags(e)
            /\ loc' = IF e.has_modrm /\ mapidx # "0F0F" THEN "modrm" ELSE "template"
      BY <2>1 DEF LookUp
    <3>2. ElisionStands
      BY <3>1 DEF LookUpFlags, ElisionStands, Elision
    <3>. QED
      BY <2>1, <3>1, <3>2 DEF LookUp, BeforeNodes
  <2>2. CASE ~LookUp
    BY <1>2, <2>2 DEF Opcode, NoOpcode, ModRMFirst, OpcodeFirst, OpcodeLast, Fail, result,
           ElisionStands, BeforeNodes
  <2>. QED
    BY <2>1, <2>2
<1>3. CASE Addressing
  BY <1>3 DEF Addressing, ModRM, SibMissing, Sib, SibDisp, ModRMDisp, DispMissing, Disp,
         AfterSib, ModRMDone, ModRMReturns, Fail, result, ElisionStands, BeforeNodes
<1>. QED
  BY <1>1, <1>2, <1>3

\* Behind it no handler of a node does, and the meaning of the prefix stands.
LEMMA ElisionBehind ==
  ASSUME TypeOK, Arguments, ~Template
  PROVE  /\ ElisionStands /\ UNCHANGED <<entry, last_f_prefix>>
         /\ insn'.prefix_functionality = insn.prefix_functionality
         /\ loc \in {"nodes", "ptr"}
         /\ loc' \in {"nodes", "ptr", "return"}
<1>1. UNCHANGED <<entry, last_f_prefix>>
  BY DEF Arguments, RegisterNode, MemoryNode, ImmediateNode,
         ImmediateMissing, MoffsNode, MoffsMissing, PtrSegment, PtrOffset, TokenNode,
         QualifierNode, NodesDone, prefixes, walk
<1>2. ElisionStands
  BY DEF Arguments, RegisterNode, MemoryNode, ImmediateNode, MayBeUgly,
         ImmediateMissing, MoffsNode, MoffsMissing, PtrSegment, PtrOffset, TokenNode,
         QualifierNode, NodesDone, ElisionStands, Elision
<1>3. /\ loc \in {"nodes", "ptr"}
      /\ loc' \in {"nodes", "ptr", "return"}
  BY DEF Arguments, RegisterNode, MemoryNode, ImmediateNode,
         ImmediateMissing, MoffsNode, MoffsMissing, PtrSegment, PtrOffset, TokenNode,
         QualifierNode, NodesDone, At, GiveUp, Fill
<1>4. insn'.prefix_functionality = insn.prefix_functionality
  <2>1. CASE NodesDone
    <3>1. insn \in InsnType
      BY DEF TypeOK, ResultType
    <3>. QED
      BY <2>1, <3>1 DEF NodesDone, InsnType
  <2>2. CASE ~NodesDone
    BY <2>2 DEF Arguments, RegisterNode, MemoryNode, ImmediateNode,
         ImmediateMissing, MoffsNode, MoffsMissing, PtrSegment, PtrOffset, TokenNode,
         QualifierNode
  <2>. QED
    BY <2>1, <2>2
<1>. QED
  BY <1>1, <1>2, <1>3, <1>4

\* FunctionalityInv is inductive with the type invariant.
LEMMA FunctionalityStep ==
  ASSUME TypeOK, FunctionalityInv, DecodeInsn
  PROVE  FunctionalityInv'
<1>1. insn \in InsnType
  BY DEF TypeOK, ResultType
<1>2. CASE RejectEmpty \/ Begin
  BY <1>2 DEF RejectEmpty, Begin, FunctionalityInv, Entered, BeforeNodes
<1>3. CASE Prefix \/ Opcode \/ Addressing
  BY <1>3, ElisionAhead DEF FunctionalityInv, Entered, BeforeNodes, ElisionStands, Elision
<1>4. CASE Template
  <2>1. flags \cap Elision = {}
    BY <1>4 DEF Template, FunctionalityInv, BeforeNodes, Elision
  <2>2. Functionality' = Functionality
    BY <1>4 DEF Template, Functionality, prefixes, walk
  <2>3. insn'.prefix_functionality = Functionality
    BY <1>1, <1>4 DEF Template, InsnType
  <2>4. ~({"acquiring", "releasing"} \subseteq flags')
    BY <1>4, <2>1 DEF Template, Elision
  <2>. QED
    BY <1>4, <2>2, <2>3, <2>4 DEF Template, FunctionalityInv, BeforeNodes
<1>5. CASE Arguments /\ ~Template
  <2>1. Functionality' = Functionality
    BY <1>5, ElisionBehind DEF Functionality
  <2>2. Entered
    BY <1>5, ElisionBehind DEF Entered
  <2>3. ~({"acquiring", "releasing"} \subseteq flags')
    BY <1>5, <2>2, ElisionBehind DEF FunctionalityInv, ElisionStands, Elision
  <2>. QED
    BY <1>5, <2>1, <2>2, <2>3, ElisionBehind DEF FunctionalityInv, BeforeNodes
<1>6. CASE Return
  <2>1. Functionality' = Functionality /\ flags' = flags /\ loc' = "done" /\ loc = "return"
        /\ ret' = ret
    BY <1>6 DEF Return, Functionality, prefixes, walk
  <2>2. insn'.prefix_functionality = insn.prefix_functionality
    BY <1>1, <1>6 DEF Return, InsnType
  <2>. QED
    BY <2>1, <2>2 DEF FunctionalityInv, Entered, BeforeNodes
<1>. QED
  BY <1>2, <1>3, <1>4, <1>5, <1>6 DEF DecodeInsn

\* It speaks of nothing outside vars.
LEMMA FunctionalityStutters ==
  ASSUME FunctionalityInv, Finished \/ UNCHANGED vars
  PROVE  FunctionalityInv'
<1>1. UNCHANGED <<insn, flags, loc, ret, last_f_prefix, entry>>
  BY Stutter DEF prefixes, result, walk
<1>. QED
  BY <1>1 DEF FunctionalityInv, Entered, Functionality

\* Before the call no template has been entered.
LEMMA FunctionalityInit == Init => FunctionalityInv
BY DEF Init, FunctionalityInv, Entered, BeforeNodes

\* The template gives the last f2 or f3 its meaning.
LEMMA FunctionalityCorrect == Spec => []FunctionalityInv
<1>1. TypeOK /\ FunctionalityInv /\ [Next]_vars => FunctionalityInv'
  BY FunctionalityStep, FunctionalityStutters DEF Next
<1>. QED
  BY <1>1, FunctionalityInit, TypeCorrect, PTL DEF Spec

\* The f2 or f3 closest to the opcode gives the prefix its meaning, whatever other
\* prefixes stand between, and no call both acquires and releases (decode_template).
THEOREM LastRepeatCorrect == Spec => []LastRepeatPrefixWins
<1>1. PrefixInv /\ FunctionalityInv => LastRepeatPrefixWins
  BY DEF PrefixInv, FunctionalityInv, Entered, Returned, Functionality, LastRepeatPrefixWins
<1>. QED
  BY <1>1, PrefixCorrect, FunctionalityCorrect, PTL

-----------------------------------------------------------------------------
(* Nodes and slots.                                                        *)

\* The nodes that show are finitely many, and numbered from 1.
LEMMA ShowingType ==
  ASSUME TypeOK
  PROVE  /\ Len(entry.nodes) \in 0..Slots
         /\ Showing = {i \in 1..Len(entry.nodes) :
                         entry.nodes[i].type \notin {"BCST", "SBCST", "SWZ"}}
         /\ IsFiniteSet(Showing)
<1>. DEFINE nodes == entry.nodes
<1>1. nodes \in Seq(NodeType) /\ Len(nodes) \in 0..Slots
  BY EntryNodes DEF TypeOK, WalkType
<1>2. Showing = {i \in DOMAIN nodes : nodes[i].type \notin {"BCST", "SBCST", "SWZ"}}
  BY DEF Showing
<1>. HIDE DEF nodes
<1>3. DOMAIN nodes = 1..Len(nodes)
  BY <1>1
<1>4. IsFiniteSet(1..Len(nodes)) /\ Showing \subseteq 1..Len(nodes)
  <2>1. Len(nodes) \in Int
    BY <1>1
  <2>. QED
    BY <1>2, <1>3, <2>1, FS_Interval
<1>5. IsFiniteSet(Showing)
  BY <1>4, FS_Subset
<1>. QED
  BY <1>1, <1>2, <1>3, <1>5 DEF nodes

\* The slot of a node counts finitely many nodes.
LEMMA SlotOfType ==
  ASSUME TypeOK, NEW k
  PROVE  IsFiniteSet({j \in Showing : j < k}) /\ SlotOf(k) \in Nat
<1>1. IsFiniteSet({j \in Showing : j < k})
  BY ShowingType, FS_Subset
<1>. QED
  BY <1>1, FS_CardinalityType DEF SlotOf

\* The slot behind a node is the next one if the node shows, and the same one if not.
LEMMA SlotNext ==
  ASSUME TypeOK, NEW k \in Nat
  PROVE  SlotOf(k + 1) = IF k \in Showing THEN SlotOf(k) + 1 ELSE SlotOf(k)
<1>. DEFINE before == {j \in Showing : j < k}
            behind == {j \in Showing : j < k + 1}
<1>1. \A j \in Showing : j \in Nat
  BY ShowingType
<1>2. IsFiniteSet(before) /\ k \notin before
  BY SlotOfType
<1>3. CASE k \in Showing
  <2>1. behind = before \union {k}
    <3>1. \A x \in Nat : x < k + 1 <=> x < k \/ x = k
      OBVIOUS
    <3>2. \A x : x \in behind <=> x \in before \/ x = k
      BY <1>1, <1>3, <3>1
    <3>. QED
      BY <3>2
  <2>2. Cardinality(before \union {k}) = Cardinality(before) + 1
    BY <1>2, FS_AddElement
  <2>. QED
    BY <1>3, <2>1, <2>2 DEF SlotOf
<1>4. CASE k \notin Showing
  <2>1. behind = before
    BY <1>1, <1>4
  <2>. QED
    BY <1>4, <2>1 DEF SlotOf
<1>. QED
  BY <1>3, <1>4

\* A node that shows is due a slot before those of all nodes behind it.
LEMMA SlotOrder ==
  ASSUME TypeOK, NEW i \in Showing, NEW k \in Nat, i < k
  PROVE  SlotOf(i) \in Nat /\ SlotOf(i) < SlotOf(k)
<1>. DEFINE low == {j \in Showing : j < i}
            high == {j \in Showing : j < k}
<1>1. \A j \in Showing : j \in Nat
  BY ShowingType
<1>2. low \subseteq high /\ i \in high /\ i \notin low
  BY <1>1
<1>3. IsFiniteSet(high)
  BY SlotOfType
<1>4. Cardinality(low) <= Cardinality(high) /\ Cardinality(low) # Cardinality(high)
  BY <1>2, <1>3, FS_Subset
<1>5. Cardinality(low) \in Nat /\ Cardinality(high) \in Nat
  BY SlotOfType DEF SlotOf
<1>. HIDE DEF low, high
<1>6. Cardinality(low) < Cardinality(high)
  BY <1>4, <1>5
<1>. QED
  BY <1>5, <1>6 DEF SlotOf, low, high

\* The nodes before k show in the slots they are due.
ShownTo(k) == \A i \in Showing : i < k => Shows(i)

\* Writing the slot of the node at hand disturbs none of the slots before it.
LEMMA EarlierShown ==
  ASSUME TypeOK, WalkInv, node <= Len(entry.nodes), entry' = entry,
         slot = SlotOf(node), ShownTo(node), NEW argument,
         arguments' = [arguments EXCEPT ![slot] = argument]
  PROVE  \A i \in Showing : i < node => Shows(i)'
<1>. SUFFICES ASSUME NEW i \in Showing, i < node
              PROVE  Shows(i)'
  OBVIOUS
<1>2. SlotOf(i)' = SlotOf(i)
  BY DEF SlotOf, Showing
<1>3. SlotOf(i) \in Nat /\ SlotOf(i) < slot
  BY SlotOrder DEF TypeOK, WalkType
<1>4. slot \in 0..Slots - 1
  BY NodeAt
<1>5. arguments'[SlotOf(i)] = arguments[SlotOf(i)]
  BY <1>3, <1>4 DEF TypeOK, ResultType
<1>. QED
  BY <1>2, <1>5 DEF Shows, ShownTo

\* A node of its kind in the slot it is due, or a qualifier in none.
LEMMA NodeShown ==
  ASSUME TypeOK, WalkInv, node <= Len(entry.nodes), entry' = entry,
         slot = SlotOf(node), ShownTo(node), NEW type, NEW base, Set(type, base),
         node' = node + 1,
         IF Node.type \in {"BCST", "SBCST", "SWZ"} THEN slot' = slot
         ELSE slot' = slot + 1 /\ type = ArgumentOf(Node.type)
  PROVE  slot' = SlotOf(node)' /\ ShownTo(node)'
<1>. DEFINE argument == [type |-> type, base |-> base]
<1>1. arguments' = [arguments EXCEPT ![slot] = argument] /\ argument.type = type
  BY DEF Set
<1>. HIDE DEF argument
<1>2. node \in Nat /\ Len(entry.nodes) \in Nat /\ node \in 1..Len(entry.nodes)
  BY ShowingType DEF TypeOK, WalkType
<1>3. node \in Showing <=> Node.type \notin {"BCST", "SBCST", "SWZ"}
  BY <1>2, ShowingType DEF Node
<1>4. SlotOf(node)' = SlotOf(node + 1) /\ Showing' = Showing
  BY DEF SlotOf, Showing
<1>5. slot' = SlotOf(node)'
  BY <1>2, <1>3, <1>4, SlotNext
<1>6. \A i \in Showing : i < node => Shows(i)'
  BY <1>1, EarlierShown
<1>7. ASSUME NEW i \in Showing, i = node PROVE Shows(i)'
  <2>1. arguments'[slot].type = type
    <3>1. slot \in 0..Slots - 1
      BY NodeAt
    <3>. QED
      BY <1>1, <3>1 DEF TypeOK, ResultType
  <2>2. type = ArgumentOf(entry.nodes[i].type)
    BY <1>3, <1>7 DEF Node
  <2>3. SlotOf(i)' = slot
    BY <1>7 DEF SlotOf, Showing
  <2>. QED
    BY <2>1, <2>2, <2>3 DEF Shows
<1>8. \A i \in Showing : i \in Nat
  BY ShowingType
<1>9. ShownTo(node)'
  BY <1>2, <1>4, <1>6, <1>7, <1>8 DEF ShownTo
<1>. QED
  BY <1>5, <1>9
\* A node decoded into the current slot (Fill).
LEMMA FillShows ==
  ASSUME TypeOK, WalkInv, loc = "nodes", ArgumentsInv, node <= Len(entry.nodes),
         entry' = entry, insn' = insn, NEW type, NEW base, Set(type, base), Fill(type),
         IF type = "NONE" THEN Node.type \in {"BCST", "SBCST", "SWZ"}
         ELSE /\ Node.type \notin {"BCST", "SBCST", "SWZ"}
              /\ type = ArgumentOf(Node.type)
  PROVE  ArgumentsInv'
<1>1. slot = SlotOf(node) /\ ShownTo(node) /\ insn.encoding = STALE
  BY DEF ArgumentsInv, ShownTo
<1>2. loc' = "nodes" /\ node' = node + 1 /\ slot' = IF type = "NONE" THEN slot ELSE slot + 1
  BY DEF Fill
<1>3. slot' = SlotOf(node)' /\ ShownTo(node)'
  BY <1>1, <1>2, NodeShown
<1>. QED
  BY <1>1, <1>2, <1>3 DEF ArgumentsInv, ShownTo

\* The handlers of the nodes that fill a slot.
LEMMA ArgumentsNodes ==
  ASSUME TypeOK, WalkInv, ArgumentsInv,
         \/ RegisterNode \/ MemoryNode \/ ImmediateNode \/ MoffsNode \/ TokenNode
         \/ QualifierNode
  PROVE  ArgumentsInv'
<1>1. CASE RegisterNode
  BY <1>1, FillShows DEF RegisterNode, At, Node, ArgumentOf
<1>2. CASE MemoryNode
  <2>. DEFINE type == IF Node.type = "MEM" THEN "MEMORY" ELSE "ADDRESS"
  <2>1. \E base : Set(type, base)
    BY <1>2 DEF MemoryNode
  <2>2. /\ loc = "nodes" /\ node <= Len(entry.nodes) /\ entry' = entry /\ insn' = insn
        /\ Fill(type) /\ type = ArgumentOf(Node.type) /\ type # "NONE"
        /\ Node.type \notin {"BCST", "SBCST", "SWZ"}
    BY <1>2 DEF MemoryNode, At, Node, ArgumentOf
  <2>. HIDE DEF type
  <2>. QED
    BY <2>1, <2>2, FillShows
<1>3. CASE ImmediateNode
  <2>1. \E base : Set(ImmediateArgument, base)
    BY <1>3 DEF ImmediateNode
  <2>2. /\ loc = "nodes" /\ node <= Len(entry.nodes) /\ entry' = entry /\ insn' = insn
        /\ Fill(ImmediateArgument)
        /\ Node.type \in Immediates
    BY <1>3 DEF ImmediateNode, At, Node
  <2>3. /\ ImmediateArgument = ArgumentOf(Node.type) /\ ImmediateArgument # "NONE"
        /\ Node.type \notin {"BCST", "SBCST", "SWZ"}
    BY <2>2 DEF ImmediateArgument, Immediates, ArgumentOf
  <2>. QED
    BY <2>1, <2>2, <2>3, FillShows
<1>4. CASE MoffsNode
  BY <1>4, FillShows DEF MoffsNode, At, Node, ArgumentOf
<1>5. CASE TokenNode
  <2>. DEFINE type == IF Node.type = "RC" THEN "ROUNDING" ELSE Node.type
  <2>1. /\ loc = "nodes" /\ node <= Len(entry.nodes) /\ entry' = entry /\ insn' = insn
        /\ Fill(type) /\ Set(type, "NONE") /\ type = ArgumentOf(Node.type)
        /\ Node.type \notin {"BCST", "SBCST", "SWZ"} /\ type # "NONE"
    BY <1>5 DEF TokenNode, At, Node, ArgumentOf
  <2>. HIDE DEF type
  <2>. QED
    BY <2>1, FillShows
<1>6. CASE QualifierNode
  BY <1>6, FillShows DEF QualifierNode, At, Node
<1>. QED
  BY <1>1, <1>2, <1>3, <1>4, <1>5, <1>6

\* The far pointer fills its slot in two steps.
LEMMA ArgumentsPtr ==
  ASSUME TypeOK, WalkInv, ArgumentsInv, PtrSegment \/ PtrOffset
  PROVE  ArgumentsInv'
<1>1. /\ loc \in {"nodes", "ptr"} /\ node <= Len(entry.nodes) /\ Node.type = "PTR"
      /\ entry' = entry /\ insn' = insn
  BY DEF PtrSegment, PtrOffset, At, Node, WalkInv
<1>2. slot = SlotOf(node) /\ ShownTo(node) /\ insn.encoding = STALE
  BY <1>1 DEF ArgumentsInv, ShownTo
<1>3. CASE loc' = "return"
  BY <1>1, <1>2, <1>3 DEF ArgumentsInv
<1>4. CASE PtrSegment /\ loc' # "return"
  <2>1. loc' = "ptr" /\ node' = node /\ slot' = slot /\ Set("NONE", OldBase)
    BY <1>4 DEF PtrSegment, GiveUp
  <2>2. \A i \in Showing : i < node => Shows(i)'
    BY <1>1, <1>2, <2>1, EarlierShown DEF Set
  <2>3. SlotOf(node)' = SlotOf(node) /\ Showing' = Showing
    BY <1>1, <2>1 DEF SlotOf, Showing
  <2>. QED
    BY <1>1, <1>2, <2>1, <2>2, <2>3 DEF ArgumentsInv
<1>5. CASE PtrOffset /\ loc' # "return"
  <2>1. loc' = "nodes" /\ node' = node + 1 /\ slot' = slot + 1 /\ Set("PTR", OldBase)
    BY <1>5 DEF PtrOffset, GiveUp
  <2>2. ArgumentOf(Node.type) = "PTR" /\ Node.type \notin {"BCST", "SBCST", "SWZ"}
    BY <1>1 DEF ArgumentOf
  <2>3. slot' = SlotOf(node)' /\ ShownTo(node)'
    BY <1>1, <1>2, <2>1, <2>2, NodeShown
  <2>. QED
    BY <1>1, <1>2, <2>1, <2>3 DEF ArgumentsInv, ShownTo
<1>. QED
  BY <1>3, <1>4, <1>5

\* Where the walk begins and where it ends.
LEMMA ArgumentsEnds ==
  ASSUME TypeOK, WalkInv, ArgumentsInv, Template \/ NodesDone
  PROVE  ArgumentsInv'
<1>1. insn \in InsnType
  BY DEF TypeOK, ResultType
<1>2. Showing' = Showing /\ (\A i : SlotOf(i)' = SlotOf(i)) /\ node' = node /\ slot' = slot
  BY DEF Template, NodesDone, Showing, SlotOf, walk
<1>3. \A i \in Showing : i \in 1..Len(entry.nodes)
  BY ShowingType
<1>4. Len(entry.nodes) \in Nat /\ node \in Nat
  BY ShowingType DEF TypeOK, WalkType
<1>5. CASE Template
  <2>1. loc' = "nodes" /\ node = 1 /\ slot = 0 /\ insn.encoding = STALE
    BY <1>5 DEF Template, WalkInv, BeforeNodes, ArgumentsInv
  <2>2. insn'.encoding = insn.encoding
    BY <1>1, <1>5 DEF Template, InsnType
  <2>3. ~(\E i \in Showing : i < 1)
    BY <1>3, <1>4
  <2>4. SlotOf(1) = 0
    <3>1. {j \in Showing : j < 1} = {}
      BY <2>3
    <3>. QED
      BY <3>1, FS_EmptySet DEF SlotOf
  <2>. QED
    BY <1>2, <2>1, <2>2, <2>3, <2>4 DEF ArgumentsInv
<1>6. CASE NodesDone
  <2>1. loc = "nodes" /\ node > Len(entry.nodes) /\ loc' = "return"
        /\ slot = SlotOf(node) /\ ShownTo(node)
    BY <1>6 DEF NodesDone, ArgumentsInv, ShownTo
  <2>2. \A i \in Showing : i < node
    BY <1>3, <1>4, <2>1
  <2>3. insn'.argument_count = slot
    BY <1>1, <1>6 DEF NodesDone, InsnType
  <2>4. {j \in Showing : j < node} = Showing
    BY <2>2
  <2>5. slot = Cardinality(Showing)
    BY <2>1, <2>4 DEF SlotOf
  <2>6. \A i \in Showing : Shows(i)'
    BY <1>2, <1>6, <2>1, <2>2 DEF NodesDone, Shows, ShownTo, walk
  <2>. QED
    BY <1>2, <2>1, <2>3, <2>5, <2>6 DEF ArgumentsInv
<1>. QED
  BY <1>5, <1>6

\* ArgumentsInv is inductive with WalkInv and the type invariant.
LEMMA ArgumentsStep ==
  ASSUME TypeOK, WalkInv, ArgumentsInv, DecodeInsn
  PROVE  ArgumentsInv'
<1>1. insn \in InsnType
  BY DEF TypeOK, ResultType
<1>2. CASE RejectEmpty \/ Begin
  BY <1>2 DEF RejectEmpty, Begin, ArgumentsInv, result
<1>3. CASE Prefix \/ Opcode \/ Addressing
  <2>1. insn' = insn
    BY <1>3 DEF Prefix, Rex, SegmentPrefix, OperandSizePrefix, AddressSizePrefix, LockPrefix,
           RepeatPrefix, EscapeMap, OpcodeByte, Vex2, Vex3, Xop, Evex, Mvex, Vector,
           Opcode, NoOpcode, ModRMFirst, OpcodeFirst, OpcodeLast, LookUp,
           Addressing, ModRM, SibMissing, Sib, SibDisp, ModRMDisp, result
  <2>. QED
    BY <1>3, <2>1, ElisionAhead DEF ArgumentsInv, BeforeNodes
<1>4. CASE ImmediateMissing \/ MoffsMissing
  BY <1>4 DEF ImmediateMissing, MoffsMissing, At, GiveUp, ArgumentsInv
<1>5. CASE Return
  <2>1. insn'.encoding = insn.encoding /\ insn'.argument_count = insn.argument_count
    BY <1>1, <1>5 DEF Return, InsnType
  <2>2. Showing' = Showing /\ \A i : Shows(i)' = Shows(i)
    BY <1>5 DEF Return, Showing, Shows, SlotOf, walk
  <2>. QED
    BY <1>5, <2>1, <2>2 DEF Return, ArgumentsInv
<1>. QED
  BY <1>2, <1>3, <1>4, <1>5, ArgumentsNodes, ArgumentsPtr, ArgumentsEnds
  DEF DecodeInsn, Arguments

\* It speaks of nothing outside vars.
LEMMA ArgumentsStutters ==
  ASSUME ArgumentsInv, Finished \/ UNCHANGED vars
  PROVE  ArgumentsInv'
<1>1. UNCHANGED <<insn, arguments, loc, ret, entry, node, slot>>
  BY Stutter DEF result, walk
<1>. QED
  BY <1>1 DEF ArgumentsInv, Showing, Shows, SlotOf

\* Before the call nothing is shown.
LEMMA ArgumentsInit == Init => ArgumentsInv
BY DEF Init, StaleInsn, ArgumentsInv

\* A complete instruction shows every node of its template in order: the qualifiers leave
\* no hole, and the slot they were decoded into is used again (decode_nodes).
THEOREM ArgumentsCorrect == Spec => []ArgumentsMatchTemplate
<1>1. TypeOK /\ WalkInv /\ ArgumentsInv /\ [Next]_vars => ArgumentsInv'
  BY ArgumentsStep, ArgumentsStutters DEF Next
<1>2. ArgumentsInv => ArgumentsMatchTemplate
  BY DEF ArgumentsInv, Complete, Returned, ArgumentsMatchTemplate
<1>. QED
  BY <1>1, <1>2, ArgumentsInit, TypeCorrect, PTL DEF Spec

-----------------------------------------------------------------------------
(* The operand size.                                                       *)

\* What is read of a ModRM in advance is not the operand size.
LEMMA OpcodeSame ==
  ASSUME diagram \in DiagramType, Opcode, ~LookUp
  PROVE  SameSize(diagram, diagram')
<1>1. ASSUME NEW modrm
      PROVE  /\ SameSize(diagram, SetModRM(diagram, modrm))
             /\ DOMAIN SetModRM(diagram, modrm) = DOMAIN diagram
  BY DEF SetModRM, DiagramType, SameSize
<1>2. CASE NoOpcode
  BY <1>2 DEF NoOpcode, SameSize
<1>3. CASE ModRMFirst
  BY <1>1, <1>3 DEF ModRMFirst
<1>4. CASE OpcodeFirst
  <2>. DEFINE d == SetModRM(diagram, IF Has(2) THEN ByteAt(pc + 1) ELSE 0)
  <2>1. diagram' = [d EXCEPT !.opcode = op]
    BY <1>4 DEF OpcodeFirst
  <2>2. SameSize(diagram, d) /\ DOMAIN d = DOMAIN diagram
    BY <1>1
  <2>. HIDE DEF d
  <2>. QED
    BY <2>1, <2>2 DEF DiagramType, SameSize
<1>5. CASE OpcodeLast
  BY <1>5 DEF OpcodeLast, DiagramType, SameSize
<1>. QED
  BY <1>2, <1>3, <1>4, <1>5 DEF Opcode

\* A step that meets no prefix and leaves the size, the template and the place alone.
LEMMA SizeStands ==
  ASSUME SizeInv, Unmet(RexBytes), Unmet({OPSIZE}), SameSize(diagram, diagram'),
         context' = context,
         AheadOfLookUp' => AheadOfLookUp,
         LookedUp' /\ ~AheadOfLookUp' => LookedUp /\ ~AheadOfLookUp /\ entry' = entry
  PROVE  SizeInv'
<1>. SUFFICES ASSUME ~Full', diagram'.enc = "NONE", OneRex' PROVE SizeInv'
  BY DEF SizeInv
<1>1. /\ ~Full /\ Met(RexBytes)' = Met(RexBytes) /\ LastMet(RexBytes)' = LastMet(RexBytes)
      /\ Met({OPSIZE})' = Met({OPSIZE}) /\ diagram.enc = "NONE"
  BY DEF Unmet, SameSize
<1>2. OneRex /\ DefaultOperandSize' = DefaultOperandSize
  BY <1>1 DEF OneRex, DefaultOperandSize
<1>3. CASE AheadOfLookUp'
  BY <1>1, <1>2, <1>3 DEF SizeInv, LegacySize, RexW, Has66, SameSize
<1>4. CASE LookedUp' /\ ~AheadOfLookUp'
  <2>1. OperandSize' = OperandSize
    BY <1>1, <1>2, <1>4 DEF OperandSize, LegacySize, RexW, Has66, Forces64, Prefers64, SameSize
  <2>. QED
    BY <1>1, <1>2, <1>4, <2>1 DEF SizeInv, SameSize
<1>. QED
  BY <1>3, <1>4 DEF SizeInv
\* A vector prefix gives the instruction its class, and leaves the mode alone.
LEMMA VectorClass ==
  ASSUME TypeOK, Vex2 \/ Vex3 \/ Xop \/ Evex \/ Mvex
  PROVE  diagram'.enc # "NONE" /\ diagram'.long_mode = diagram.long_mode
<1>1. diagram \in DiagramType
  BY DEF TypeOK, FieldsType
<1>2. ASSUME NEW d \in DiagramType, NEW pp
      PROVE  SetPP(d, pp).long_mode = d.long_mode
  BY <1>2 DEF SetPP, DiagramType
<1>3. ASSUME NEW w \in BOOLEAN
      PROVE  SetW(diagram, w) \in DiagramType
             /\ SetW(diagram, w).long_mode = diagram.long_mode
  <2>. DEFINE osz == IF w THEN 2 ELSE diagram.osz
  <2>1. SetW(diagram, w) = [diagram EXCEPT !.w = w, !.osz = osz]
    BY DEF SetW
  <2>2. SetW(diagram, w) \in DiagramType
    BY <1>1, <1>3, SetWType
  <2>. HIDE DEF osz
  <2>. QED
    BY <1>1, <2>1, <2>2 DEF DiagramType
<1>4. CASE Vex2
  <2>. DEFINE d == SetPP(diagram, ByteAt(pc + 1) % 4)
  <2>1. d \in DiagramType /\ d.long_mode = diagram.long_mode
    BY <1>1, <1>2, SetPPType
  <2>2. diagram' = [[d EXCEPT !.enc = "VEX"] EXCEPT !.has_rex = TRUE]
    BY <1>4 DEF Vex2, Vector
  <2>. HIDE DEF d
  <2>. QED
    BY <2>1, <2>2 DEF DiagramType
<1>5. CASE Vex3 \/ Xop \/ Evex \/ Mvex
  <2>. DEFINE w == Bit(ByteAt(pc + 2), 7)
              e == SetW(diagram, w)
              d == SetPP(e, ByteAt(pc + 2) % 4)
  <2>1. w \in BOOLEAN
    BY DEF Bit
  <2>2. e \in DiagramType /\ e.long_mode = diagram.long_mode
    BY <1>3, <2>1
  <2>3. d \in DiagramType /\ d.long_mode = diagram.long_mode
    BY <1>2, <2>2, SetPPType
  <2>. HIDE DEF d, e
  <2>4. CASE Vex3
    <3>1. diagram' = [[d EXCEPT !.enc = "VEX", !.x = Inverted(ByteAt(pc + 1), 6)]
                        EXCEPT !.has_rex = TRUE]
      BY <2>4 DEF Vex3, Vector, d, e
    <3>. QED
      BY <2>3, <3>1 DEF DiagramType
  <2>5. CASE Xop
    <3>1. diagram' = [[e EXCEPT !.enc = "XOP", !.x = Inverted(ByteAt(pc + 1), 6)]
                        EXCEPT !.has_rex = TRUE]
      BY <2>5 DEF Xop, Vector, e
    <3>. QED
      BY <2>2, <3>1 DEF DiagramType
  <2>6. CASE Evex
    <3>1. diagram' = [[d EXCEPT !.enc = "EVEX", !.x = Inverted(ByteAt(pc + 1), 6),
                                !.bp = Bit(ByteAt(pc + 3), 4),
                                !.fb = Bit(ByteAt(pc + 3), 4), !.aaa = ByteAt(pc + 3) % 8]
                        EXCEPT !.has_rex = TRUE]
      BY <2>6 DEF Evex, Vector, d, e
    <3>. QED
      BY <2>3, <3>1 DEF DiagramType
  <2>7. CASE Mvex
    <3>1. diagram' = [[d EXCEPT !.enc = "MVEX", !.x = Inverted(ByteAt(pc + 1), 6),
                                !.aaa = ByteAt(pc + 3) % 8,
                                !.sss = (ByteAt(pc + 3) \div 16) % 8]
                        EXCEPT !.has_rex = TRUE]
      BY <2>7 DEF Mvex, Vector, d, e
    <3>. QED
      BY <2>3, <3>1 DEF DiagramType
  <2>. QED
    BY <1>5, <2>4, <2>5, <2>6, <2>7
<1>. QED
  BY <1>4, <1>5

\* REX and 66 leave their mark in the diagram, the other prefixes none there.
LEMMA SizePrefixByte ==
  ASSUME TypeOK, TypeOK', VectorInv, SizeInv, PrefixByte
  PROVE  SizeInv'
<1>. SUFFICES ASSUME ~Full', OneRex' PROVE SizeInv'
  BY DEF SizeInv
<1>. DEFINE n == Len(bytecodes)
            rexes == Met(RexBytes)
<1>1. /\ ~Full /\ n \in Nat /\ rexes \subseteq 1..n
      /\ IF op \in RexBytes
         THEN rexes' = rexes \union {n + 1} /\ LastMet(RexBytes)' = op
         ELSE rexes' = rexes /\ LastMet(RexBytes)' = LastMet(RexBytes)
  BY PrefixRecorded, MetType DEF TypeOK
<1>2. IF op = OPSIZE THEN Has66' ELSE Has66' = Has66
  <2>1. IF op \in {OPSIZE} THEN Met({OPSIZE})' = Met({OPSIZE}) \union {n + 1}
        ELSE Met({OPSIZE})' = Met({OPSIZE})
    BY PrefixRecorded
  <2>. QED
    BY <2>1 DEF Has66
<1>3. OneRex
  BY <1>1 DEF OneRex
<1>4. loc = "scan" /\ loc' = "scan" /\ context' = context
  BY DEF PrefixByte, Rex, SegmentPrefix, OperandSizePrefix, AddressSizePrefix, LockPrefix,
         RepeatPrefix, caller
<1>5. diagram \in DiagramType /\ diagram.enc = "NONE" /\ AheadOfLookUp /\ AheadOfLookUp'
  BY <1>4 DEF TypeOK, FieldsType, VectorInv, AheadOfLookUp
<1>6. /\ diagram.w <=> RexW
      /\ diagram.p66 <=> Has66
      /\ ~RexW => diagram.osz = LegacySize
  BY <1>1, <1>3, <1>5 DEF SizeInv
<1>7. DefaultOperandSize' = DefaultOperandSize
  BY <1>4 DEF DefaultOperandSize
<1>8. SUFFICES /\ diagram'.w <=> RexW'
               /\ diagram'.p66 <=> Has66'
               /\ ~RexW' => diagram'.osz = LegacySize'
  BY <1>5 DEF SizeInv
<1>9. CASE Rex
  <2>. DEFINE w == Bit(op, 3)
              d == SetW(diagram, w)
  <2>1. w \in BOOLEAN
    BY DEF Bit
  <2>2. op \in RexBytes /\ op # OPSIZE
    BY <1>9 DEF Rex, IsRex, RexBytes, OPSIZE
  <2>3. rexes = {}
    <3>1. \A i \in rexes : i \in Nat /\ i <= n
      BY <1>1
    <3>2. \A i \in rexes : i = n + 1
      BY <1>1, <2>2 DEF OneRex
    <3>3. \A i \in Nat : ~(i <= n /\ i = n + 1)
      BY <1>1
    <3>. QED
      BY <3>1, <3>2, <3>3
  <2>4. ~RexW /\ (RexW' <=> w)
    <3>1. ~RexW
      BY <2>3 DEF RexW
    <3>2. rexes' # {} /\ LastMet(RexBytes)' = op
      BY <1>1, <2>2
    <3>3. RexW' <=> rexes' # {} /\ Bit(LastMet(RexBytes)', 3)
      BY DEF RexW
    <3>. QED
      BY <3>1, <3>2, <3>3
  <2>5. /\ d.w = w /\ d.p66 = diagram.p66 /\ (~w => d.osz = diagram.osz)
        /\ DOMAIN d = DOMAIN diagram
    BY <1>5, <2>1 DEF SetW, DiagramType
  <2>6. diagram' = [d EXCEPT !.x = Bit(op, 1), !.fb = Bit(op, 0), !.has_rex = TRUE]
    BY <1>9 DEF Rex
  <2>. HIDE DEF d, w
  <2>7. diagram'.w = d.w /\ diagram'.p66 = d.p66 /\ diagram'.osz = d.osz
    BY <1>5, <2>5, <2>6 DEF DiagramType
  <2>. QED
    BY <1>2, <1>6, <1>7, <2>2, <2>4, <2>5, <2>7 DEF LegacySize
<1>10. CASE ~Rex
  <2>1. op \notin RexBytes
    BY <1>10 DEF PrefixByte, SegmentPrefix, OperandSizePrefix, AddressSizePrefix,
                 LockPrefix, RepeatPrefix, RexBytes, SegmentBytes, SegmentOf, OPSIZE,
                 ADSIZE, LOCK, REPNE, REP
  <2>2. RexW' = RexW
    BY <1>1, <2>1 DEF RexW
  <2>3. CASE OperandSizePrefix
    <3>1. diagram'.w = diagram.w /\ diagram'.p66 = TRUE /\ diagram'.osz = OverrideSize
      BY <1>5, <2>3 DEF OperandSizePrefix, DiagramType
    <3>2. Has66' /\ OverrideSize = 0
      BY <1>2, <2>3 DEF OperandSizePrefix, OverrideSize, DefaultOperandSize
    <3>. QED
      BY <1>6, <2>2, <3>1, <3>2 DEF LegacySize
  <2>4. CASE ~OperandSizePrefix
    <3>1. op # OPSIZE
      BY <1>10, <2>4 DEF PrefixByte, SegmentPrefix, AddressSizePrefix, LockPrefix,
                 RepeatPrefix, SegmentBytes, SegmentOf, OPSIZE, ADSIZE, LOCK, REPNE, REP
    <3>2. diagram'.w = diagram.w /\ diagram'.p66 = diagram.p66 /\ diagram'.osz = diagram.osz
      BY <1>5, <1>10, <2>4 DEF PrefixByte, SegmentPrefix, AddressSizePrefix, LockPrefix,
                 RepeatPrefix, DiagramType
    <3>. QED
      BY <1>2, <1>6, <1>7, <2>2, <3>1, <3>2 DEF LegacySize
  <2>. QED
    BY <2>3, <2>4
<1>. QED
  BY <1>9, <1>10
\* A vector prefix makes an end of SizeInv.
LEMMA SizeVector ==
  ASSUME TypeOK, Vex2 \/ Vex3 \/ Xop \/ Evex \/ Mvex
  PROVE  SizeInv'
BY VectorClass DEF SizeInv

\* The lookup decides.
LEMMA SizeLookUp ==
  ASSUME TypeOK, TypeOK', SizeInv, LookUp
  PROVE  SizeInv'
<1>. SUFFICES ASSUME ~Full', diagram'.enc = "NONE", OneRex' PROVE SizeInv'
  BY DEF SizeInv
<1>1. PICK e \in Lookup(mapidx, SizedDiagram) :
        /\ entry' = e
        /\ diagram' = EnteredDiagram(SizedDiagram, e)
        /\ loc' = IF e.has_modrm /\ mapidx # "0F0F" THEN "modrm" ELSE "template"
  BY DEF LookUp
<1>2. UNCHANGED <<records, mapidx, context>> /\ loc = "lookup"
  BY DEF LookUp, prefixes, caller
<1>3. ~AheadOfLookUp' /\ AheadOfLookUp
  BY <1>1, <1>2 DEF AheadOfLookUp
<1>4. Full' = Full /\ OneRex' = OneRex /\ RexW' = RexW /\ Has66' = Has66
      /\ DefaultOperandSize' = DefaultOperandSize
  BY <1>2 DEF records, Full, OneRex, RexW, Has66, Met, LastMet, DefaultOperandSize
<1>5. diagram \in DiagramType
  BY DEF TypeOK, FieldsType
<1>. DEFINE sized == SizedDiagram
            osz   == IF diagram.enc = "NONE" /\ diagram.w THEN 2 ELSE diagram.osz
            forced == ForcedSize(sized, e)
<1>6. /\ sized.enc = diagram.enc /\ sized.long_mode = diagram.long_mode
      /\ sized.p66 = diagram.p66 /\ sized.osz = osz /\ DOMAIN sized = DOMAIN diagram
  <2>1. sized = [diagram EXCEPT !.osz = osz]
    BY DEF SizedDiagram
  <2>. HIDE DEF sized, osz
  <2>. QED
    BY <1>5, <2>1 DEF DiagramType
<1>7. diagram' = IF e.has_modrm THEN [sized EXCEPT !.osz = forced]
                 ELSE [sized EXCEPT !.osz = forced, !.mod = 0, !.reg = 0, !.rm = 0]
  BY <1>1 DEF EnteredDiagram
<1>. HIDE DEF sized, forced
<1>8. /\ diagram'.enc = diagram.enc /\ diagram'.long_mode = diagram.long_mode
      /\ diagram'.osz = forced
  BY <1>5, <1>6, <1>7 DEF DiagramType
<1>9. diagram.enc = "NONE"
  BY <1>8
<1>10. /\ diagram.w <=> RexW
       /\ diagram.p66 <=> Has66
       /\ ~RexW => diagram.osz = LegacySize
  BY <1>3, <1>4, <1>9 DEF SizeInv
<1>11. osz = IF RexW THEN 2 ELSE LegacySize
  BY <1>9, <1>10
<1>12. forced = CASE diagram.long_mode /\ osz # 2 /\ e.size64 = "f64" -> 2
                  [] diagram.long_mode /\ osz # 2 /\ e.size64 = "d64" ->
                       IF diagram.p66 THEN 1 ELSE 2
                  [] OTHER -> osz
  BY <1>6 DEF ForcedSize, forced
<1>13. OperandSize' = CASE RexW \/ (diagram.long_mode /\ e.size64 = "f64") -> 2
                        [] ~RexW /\ diagram.long_mode /\ e.size64 = "d64" ->
                             IF Has66 THEN 1 ELSE 2
                        [] OTHER -> LegacySize
  BY <1>1, <1>4, <1>8 DEF OperandSize, LegacySize, Forces64, Prefers64
<1>14. LegacySize \in {0, 1}
  BY DEF LegacySize, DefaultOperandSize
<1>. HIDE DEF osz
<1>15. forced = OperandSize'
  <2>1. CASE RexW
    BY <1>11, <1>12, <1>13, <2>1
  <2>2. CASE ~RexW
    <3>1. osz = LegacySize /\ osz # 2
      BY <1>11, <1>14, <2>2
    <3>. QED
      BY <1>10, <1>12, <1>13, <2>2, <3>1
  <2>. QED
    BY <2>1, <2>2
<1>. QED
  BY <1>3, <1>8, <1>15 DEF SizeInv

\* SizeInv is inductive with VectorInv and the type invariant.
LEMMA SizeStep ==
  ASSUME TypeOK, TypeOK', VectorInv, SizeInv, DecodeInsn
  PROVE  SizeInv'
<1>1. diagram \in DiagramType
  BY DEF TypeOK, FieldsType
<1>2. context' = context
  BY InCall
<1>3. CASE Begin
  <2>1. bytecodes' = <<>> /\ (loc' = "scan" \/ (loc' = "return" /\ ret' = FALSE))
    BY <1>3 DEF Begin
  <2>2. ~RexW' /\ ~Has66'
    BY <2>1, NothingMetNext DEF RexW, Has66
  <2>3. CASE loc' = "return"
    BY <2>1, <2>3 DEF SizeInv, AheadOfLookUp, LookedUp
  <2>4. CASE loc' = "scan"
    <3>. DEFINE mode == context.machine_mode = 64
                asz  == DefaultAddressSize
                osz  == DefaultOperandSize
    <3>1. diagram' = [BlankDiagram EXCEPT !.long_mode = mode, !.asz = asz, !.osz = osz]
      BY <1>3, <2>4 DEF Begin
    <3>2. BlankDiagram \in DiagramType /\ BlankDiagram.w = FALSE /\ BlankDiagram.p66 = FALSE
      BY BlankDiagramType DEF BlankDiagram
    <3>. HIDE DEF mode, asz, osz
    <3>3. diagram'.w = FALSE /\ diagram'.p66 = FALSE /\ diagram'.osz = osz
      BY <3>1, <3>2 DEF DiagramType
    <3>4. LegacySize' = osz
      BY <1>2, <2>2 DEF LegacySize, DefaultOperandSize, osz
    <3>. QED
      BY <2>2, <2>4, <3>3, <3>4 DEF SizeInv, LookedUp
  <2>. QED
    BY <2>1, <2>3, <2>4
<1>4. CASE ~Begin /\ ~PrefixByte
  <2>1. Unmet(RexBytes) /\ Unmet({OPSIZE})
    BY <1>4, OthersUnmet
  <2>2. CASE RejectEmpty
    BY <2>2 DEF RejectEmpty, SizeInv, AheadOfLookUp, LookedUp
  <2>3. CASE EscapeMap \/ OpcodeByte
    <3>1. SameSize(diagram, diagram') /\ AheadOfLookUp /\ AheadOfLookUp'
      BY <2>3 DEF EscapeMap, OpcodeByte, SameSize, AheadOfLookUp
    <3>. QED
      BY <1>2, <2>1, <3>1, SizeStands
  <2>4. CASE Opcode /\ ~LookUp
    <3>1. AheadOfLookUp /\ (AheadOfLookUp' \/ ~LookedUp')
      BY <2>4 DEF Opcode, NoOpcode, ModRMFirst, OpcodeFirst, OpcodeLast, Fail,
                  AheadOfLookUp, LookedUp, prefixes
    <3>. QED
      BY <1>1, <1>2, <2>1, <2>4, <3>1, OpcodeSame, SizeStands
  <2>5. CASE Addressing
    <3>1. entry' = entry /\ LookedUp
      BY <2>5 DEF Addressing, ModRM, SibMissing, Sib, SibDisp, ModRMDisp, LookedUp, walk
    <3>2. mapidx' = mapidx /\ loc \in {"modrm", "sib", "sibdisp", "disp"}
      BY <2>5 DEF Addressing, ModRM, SibMissing, Sib, SibDisp, ModRMDisp, prefixes
    <3>3. IF mapidx = "0F0F"
          THEN loc' \in {"sib", "sibdisp", "disp", "opcode2"} \/ (loc' = "return" /\ ~ret')
          ELSE loc' \in {"sib", "sibdisp", "disp", "template"}
      BY <2>5 DEF Addressing, ModRM, SibMissing, Sib, SibDisp, ModRMDisp, DispMissing, Disp,
                  AfterSib, ModRMDone, ModRMReturns, Fail
    <3>4. AheadOfLookUp' => AheadOfLookUp
      BY <3>2, <3>3 DEF AheadOfLookUp
    <3>5. LookedUp' /\ ~AheadOfLookUp' => ~AheadOfLookUp
      BY <3>2, <3>3 DEF AheadOfLookUp, LookedUp
    <3>. QED
      BY <1>1, <1>2, <2>1, <2>5, <3>1, <3>4, <3>5, AddressingSame, SizeStands
      DEF SameOpcode
  <2>6. CASE Arguments
    <3>1. entry' = entry /\ loc \in {"template", "nodes", "ptr"}
      BY <2>6 DEF Arguments, Template, RegisterNode, MemoryNode, ImmediateNode,
         ImmediateMissing, MoffsNode, MoffsMissing, PtrSegment, PtrOffset, TokenNode,
         QualifierNode, NodesDone, At, walk
    <3>2. loc' \in {"nodes", "ptr", "return"}
      BY <2>6 DEF Arguments, Template, RegisterNode, MemoryNode, ImmediateNode,
         ImmediateMissing, MoffsNode, MoffsMissing, PtrSegment, PtrOffset, TokenNode,
         QualifierNode, NodesDone, At, Fill, GiveUp
    <3>3. LookedUp /\ ~AheadOfLookUp /\ ~AheadOfLookUp'
      BY <3>1, <3>2 DEF LookedUp, AheadOfLookUp
    <3>. QED
      BY <1>1, <1>2, <2>1, <2>6, <3>1, <3>3, ArgumentsSame, SizeStands DEF SameOpcode
  <2>7. CASE Return
    <3>1. /\ entry' = entry /\ SameSize(diagram, diagram') /\ ~AheadOfLookUp'
          /\ LookedUp' = LookedUp /\ ~AheadOfLookUp
      BY <2>7 DEF Return, LookedUp, AheadOfLookUp, SameSize, walk
    <3>. QED
      BY <1>2, <2>1, <3>1, SizeStands
  <2>. QED
    BY <1>4, <2>2, <2>3, <2>4, <2>5, <2>6, <2>7, SizeVector, SizeLookUp
    DEF DecodeInsn, Prefix, PrefixByte
<1>. QED
  BY <1>3, <1>4, SizePrefixByte

\* It speaks of nothing outside vars.
LEMMA SizeStutters ==
  ASSUME SizeInv, Finished \/ UNCHANGED vars
  PROVE  SizeInv'
<1>1. UNCHANGED <<context, loc, ret, bytecodes, bytecode_count, diagram, mapidx, entry>>
  BY Stutter DEF prefixes, records, walk, caller
<1>2. Unmet(RexBytes) /\ Unmet({OPSIZE}) /\ SameSize(diagram, diagram')
  BY <1>1 DEF Unmet, Full, Met, LastMet, SameSize
<1>3. AheadOfLookUp' = AheadOfLookUp /\ LookedUp' = LookedUp
  BY <1>1 DEF AheadOfLookUp, LookedUp
<1>. QED
  BY <1>1, <1>2, <1>3, SizeStands

\* Before the call there is no size to speak of.
LEMMA SizeInit == Init => SizeInv
BY DEF Init, SizeInv, AheadOfLookUp, LookedUp

\* What osz holds at the end is what the manual says, but for the two uses of 66 it leaves out.
LEMMA SizeIsManual ==
  ASSUME SizeInv
  PROVE  OperandSizeRule
<1>. SUFFICES ASSUME Returned, ~Full, diagram.enc = "NONE", OneRex
              PROVE  /\ RexW \/ Forces64 => diagram.osz = 2
                     /\ ~RexW /\ Prefers64 /\ ~Has66 => diagram.osz = 2
                     /\ ~RexW /\ ~Forces64 /\ ~Prefers64 =>
                          /\ ~Has66 => diagram.osz = DefaultOperandSize
                          /\ Has66 /\ DefaultOperandSize = 1 => diagram.osz = 0
  BY DEF OperandSizeRule
<1>1. diagram.osz = OperandSize
  BY DEF SizeInv, AheadOfLookUp, LookedUp, Returned
<1>2. ~(Forces64 /\ Prefers64)
  BY DEF Forces64, Prefers64
<1>3. /\ RexW \/ Forces64 => OperandSize = 2
      /\ ~RexW /\ Prefers64 => OperandSize = IF Has66 THEN 1 ELSE 2
      /\ ~RexW /\ ~Forces64 /\ ~Prefers64 => OperandSize = LegacySize
  BY <1>2 DEF OperandSize
<1>. QED
  BY <1>1, <1>3 DEF LegacySize

\* The operand size of a legacy instruction is the manual's where OperandSizeRule promises it,
\* in whatever order its prefixes stand: REX.W, the template, 66 over 32 bits, the mode.
THEOREM SizeCorrect == Spec => []OperandSizeRule
<1>1. Init => TypeOK /\ WalkInv /\ VectorInv /\ SizeInv
  BY TypeInit, WalkInit, VectorInit, SizeInit
<1>2. TypeOK /\ VectorInv /\ [Next]_vars => VectorInv'
  BY VectorStep, VectorStutters DEF Next
<1>3. TypeOK /\ TypeOK' /\ VectorInv /\ SizeInv /\ [Next]_vars => SizeInv'
  BY SizeStep, SizeStutters DEF Next
<1>4. SizeInv => OperandSizeRule
  BY SizeIsManual
<1>. QED
  BY <1>1, <1>2, <1>3, <1>4, TypeCorrect, PTL DEF Spec

-----------------------------------------------------------------------------
(* LES, LDS, BOUND and POP.                                                *)

\* The buffer, and what the form of an opcode is read from.
Buffer == <<memory, context, nb>>

\* The handlers move none of it once the call has begun.
LEMMA BufferStands ==
  ASSUME DecodeInsn, ~Begin
  PROVE  UNCHANGED Buffer
<1>1. UNCHANGED <<memory, context>>
  BY DEF DecodeInsn, RejectEmpty, Return, Prefix, Rex, SegmentPrefix,
         OperandSizePrefix, AddressSizePrefix, LockPrefix, RepeatPrefix, EscapeMap,
         OpcodeByte, Vex2, Vex3, Xop, Evex, Mvex, Vector, Opcode, NoOpcode, ModRMFirst,
         OpcodeFirst, OpcodeLast, LookUp, Addressing, ModRM, SibMissing, Sib, SibDisp,
         ModRMDisp, Arguments, Template, RegisterNode, MemoryNode, ImmediateNode,
         ImmediateMissing, MoffsNode, MoffsMissing, PtrSegment, PtrOffset, TokenNode,
         QualifierNode, NodesDone, caller
<1>2. nb' = nb
  <2>1. CASE RejectEmpty
    BY <2>1 DEF RejectEmpty
  <2>2. CASE ~RejectEmpty
    BY <2>2, InCall
  <2>. QED
    BY <2>1, <2>2
<1>. QED
  BY <1>1, <1>2 DEF Buffer

\* A place has the form it had.
LEMMA FormStands ==
  ASSUME UNCHANGED Buffer, diagram'.long_mode = diagram.long_mode,
         Met(Byte)' = Met(Byte)
  PROVE  /\ Behind' = Behind
         /\ IsLegacyForm(Behind)' = IsLegacyForm(Behind)
         /\ ByteAt(Behind)' = ByteAt(Behind)
<1>1. Behind' = Behind
  BY DEF Behind
<1>. QED
  BY <1>1 DEF Buffer, IsLegacyForm, ByteAt

\* A step behind the opcode.
LEMMA LegacyStands ==
  ASSUME LegacyInv, Unmet(Byte), SameOpcode(diagram, diagram'), UNCHANGED Buffer,
         UNCHANGED mapidx, loc # "opcode", loc' \notin {"scan", "opcode"},
         Scanned' => Scanned
  PROVE  LegacyInv'
<1>. SUFFICES ASSUME ~Full', Scanned', IsLegacyForm(Behind)'
              PROVE  /\ diagram'.enc = "NONE" /\ mapidx' = "NONE"
                     /\ diagram'.opcode = ByteAt(Behind)'
  BY DEF LegacyInv
<1>1. ~Full /\ Met(Byte)' = Met(Byte)
  BY DEF Unmet
<1>2. IsLegacyForm(Behind) /\ ByteAt(Behind)' = ByteAt(Behind)
  BY <1>1, FormStands DEF SameOpcode, SameSize
<1>. QED
  BY <1>1, <1>2 DEF LegacyInv, SameOpcode, SameSize

\* While prefixes are scanned the place is the number of prefixes.
LEMMA ScanPlace ==
  ASSUME TypeOK, LegacyInv, loc = "scan", ~Full
  PROVE  Behind = pc
<1>1. pc \in Nat
  BY WrapAssumption DEF TypeOK, CursorType
<1>2. Met(Byte) = 1..pc
  BY DEF LegacyInv
<1>3. Cardinality(1..pc) = pc
  BY <1>1, FS_Interval
<1>. QED
  BY <1>2, <1>3 DEF Behind

\* One more prefix.
LEMMA LegacyPrefixByte ==
  ASSUME TypeOK, TypeOK', LegacyInv, PrefixByte
  PROVE  LegacyInv'
<1>. SUFFICES ASSUME ~Full'
              PROVE  Met(Byte)' = 1..pc' /\ Len(bytecodes') = pc' /\ mapidx' = "NONE"
  BY DEF LegacyInv, Scanned, LookedUp, PrefixByte, Rex, SegmentPrefix, OperandSizePrefix,
         AddressSizePrefix, LockPrefix, RepeatPrefix
<1>1. loc = "scan" /\ Has(1) /\ Advance(1) /\ mapidx' = mapidx
  BY DEF PrefixByte, Rex, SegmentPrefix, OperandSizePrefix, AddressSizePrefix, LockPrefix,
         RepeatPrefix, Take, prefixes
<1>2. pc \in Nat /\ pc' = pc + 1
  BY <1>1, TakeInside, WrapAssumption DEF TypeOK, CursorType
<1>3. op \in Byte
  BY <1>2, ByteAtType DEF TypeOK, op
<1>4. ~Full /\ Len(bytecodes') = Len(bytecodes) + 1
      /\ Met(Byte)' = Met(Byte) \union {Len(bytecodes) + 1}
  BY <1>3, PrefixRecorded
<1>5. Met(Byte) = 1..pc /\ Len(bytecodes) = pc /\ mapidx = "NONE"
  BY <1>1, <1>4 DEF LegacyInv
<1>6. (1..pc) \union {pc + 1} = 1..pc + 1
  BY <1>2
<1>. QED
  BY <1>1, <1>2, <1>4, <1>5, <1>6

\* No vector prefix begins like a legacy form, nor does an escape to another map.
LEMMA NoLegacyForm ==
  ASSUME TypeOK, EscapeMap \/ Vex2 \/ Vex3 \/ Xop \/ Evex \/ Mvex
  PROVE  ~IsLegacyForm(pc)
<1>. SUFFICES ASSUME IsLegacyForm(pc) PROVE FALSE
  OBVIOUS
<1>. DEFINE p == ByteAt(pc + 1)
<1>1. pc \in Nat /\ p \in Byte
  <2>1. pc \in Nat
    BY WrapAssumption DEF TypeOK, CursorType
  <2>. QED
    BY <2>1, ByteAtType DEF TypeOK
<1>2. /\ ~diagram.long_mode
      /\ (op \in {VEX3, EVEX, XOP} /\ p < 192) \/ (op = VEX2 /\ p < 128)
  BY DEF IsLegacyForm, op
<1>. HIDE DEF p
<1>3. p < 128 => ~Bit(p, 7)
  <2>1. 2 ^ 7 = 128
    OBVIOUS
  <2>. QED
    BY <1>1, <2>1 DEF Bit, Byte
<1>4. p < 192 => ~(Bit(p, 7) /\ Bit(p, 6))
  <2>1. 2 ^ 7 = 128 /\ 2 ^ 6 = 64
    OBVIOUS
  <2>. QED
    BY <1>1, <2>1 DEF Bit, Byte
<1>5. CASE EscapeMap
  BY <1>2, <1>5 DEF EscapeMap, ESCAPE, VEX2, VEX3, XOP, EVEX
<1>6. CASE Vex2
  BY <1>2, <1>3, <1>6 DEF Vex2, IsVex2, VEX2, VEX3, XOP, EVEX, p
<1>7. CASE Vex3 \/ Xop \/ Evex
  <2>1. op \in {VEX3, XOP, EVEX} /\ ExtensionsAllowed(p)
    BY <1>7 DEF Vex3, IsVex3, Xop, IsXop, Evex, IsEvex, p
  <2>. QED
    BY <1>2, <1>4, <2>1 DEF ExtensionsAllowed, VEX2, VEX3, XOP, EVEX
<1>8. CASE Mvex
  BY <1>2, <1>8 DEF Mvex, IsMvex
<1>. QED
  BY <1>5, <1>6, <1>7, <1>8

\* The scan ends: at the opcode, or behind a prefix no legacy form begins with.
LEMMA LegacyScanned ==
  ASSUME TypeOK, TypeOK', VectorInv, LegacyInv,
         EscapeMap \/ Vex2 \/ Vex3 \/ Xop \/ Evex \/ Mvex \/ OpcodeByte
  PROVE  LegacyInv'
<1>1. /\ DecodeInsn /\ ~Begin /\ ~PrefixByte
      /\ loc = "scan" /\ loc' = "opcode"
  BY DEF DecodeInsn, Prefix, EscapeMap, Vex2, Vex3, Xop, Evex, Mvex, Vector, OpcodeByte,
         Begin, PrefixByte, Rex, SegmentPrefix, OperandSizePrefix, AddressSizePrefix,
         LockPrefix, RepeatPrefix
<1>. SUFFICES ASSUME ~Full', IsLegacyForm(Behind)'
              PROVE  diagram'.enc = "NONE" /\ mapidx' = "NONE" /\ pc' = Behind'
  BY <1>1 DEF LegacyInv
<1>2. ~Full /\ Met(Byte)' = Met(Byte)
  BY <1>1, OthersUnmet DEF Unmet
<1>3. diagram'.long_mode = diagram.long_mode
  <2>1. CASE EscapeMap \/ OpcodeByte
    BY <2>1 DEF EscapeMap, OpcodeByte
  <2>. QED
    BY <2>1, VectorClass
<1>4. Behind = pc /\ Behind' = Behind /\ IsLegacyForm(Behind)
  BY <1>1, <1>2, <1>3, ScanPlace, BufferStands, FormStands
<1>5. OpcodeByte
  BY <1>4, NoLegacyForm
<1>. QED
  BY <1>1, <1>2, <1>4, <1>5 DEF OpcodeByte, LegacyInv, VectorInv, prefixes
\* The opcode is read, and the lookup and 3DNow! leave it alone.
LEMMA LegacyOpcode ==
  ASSUME TypeOK, TypeOK', CursorInv, LegacyInv, Opcode
  PROVE  LegacyInv'
<1>1. /\ DecodeInsn /\ ~Begin /\ ~PrefixByte /\ mapidx' = mapidx
      /\ loc \in {"opcode", "opcode2", "lookup"} /\ Scanned
  BY DEF DecodeInsn, Opcode, NoOpcode, ModRMFirst, OpcodeFirst, OpcodeLast, LookUp,
         Begin, PrefixByte, Rex, SegmentPrefix, OperandSizePrefix, AddressSizePrefix,
         LockPrefix, RepeatPrefix, prefixes, Scanned
<1>2. Unmet(Byte) /\ UNCHANGED Buffer
  BY <1>1, OthersUnmet, BufferStands
<1>3. diagram \in DiagramType
  BY DEF TypeOK, FieldsType
<1>4. CASE NoOpcode
  BY <1>4 DEF NoOpcode, Fail, LegacyInv, Scanned, LookedUp
<1>5. CASE ModRMFirst \/ OpcodeFirst \/ OpcodeLast
  <2>. SUFFICES ASSUME ~Full', IsLegacyForm(Behind)'
                PROVE  /\ diagram'.enc = "NONE" /\ mapidx' = "NONE"
                       /\ diagram'.opcode = ByteAt(Behind)'
    BY <1>5 DEF LegacyInv, ModRMFirst, OpcodeFirst, OpcodeLast
  <2>1. ~Full /\ Met(Byte)' = Met(Byte)
    BY <1>2 DEF Unmet
  <2>2. SameSize(diagram, diagram')
    BY <1>3, <1>5, OpcodeSame DEF Opcode, LookUp, ModRMFirst, OpcodeFirst, OpcodeLast
  <2>3. IsLegacyForm(Behind) /\ ByteAt(Behind)' = ByteAt(Behind)
    BY <1>2, <2>1, <2>2, FormStands DEF SameSize
  <2>4. diagram.enc = "NONE" /\ mapidx = "NONE" /\ (loc = "opcode" => pc = Behind)
    BY <1>1, <2>1, <2>3 DEF LegacyInv
  <2>5. OpcodeFirst
    BY <1>5, <2>4 DEF ModRMFirst, OpcodeLast, CursorInv
  <2>6. diagram'.opcode = op
    <3>. DEFINE d == SetModRM(diagram, IF Has(2) THEN ByteAt(pc + 1) ELSE 0)
    <3>1. diagram' = [d EXCEPT !.opcode = op] /\ DOMAIN d = DOMAIN diagram
      BY <1>3, <2>5 DEF OpcodeFirst, SetModRM
    <3>. HIDE DEF d
    <3>. QED
      BY <1>3, <3>1 DEF DiagramType
  <2>. QED
    BY <1>1, <2>2, <2>3, <2>4, <2>5, <2>6 DEF OpcodeFirst, SameSize, op
<1>6. CASE LookUp
  <2>. SUFFICES ASSUME ~Full', IsLegacyForm(Behind)'
                PROVE  /\ diagram'.enc = "NONE" /\ mapidx' = "NONE"
                       /\ diagram'.opcode = ByteAt(Behind)'
    BY <1>6 DEF LegacyInv, LookUp
  <2>1. ~Full /\ Met(Byte)' = Met(Byte)
    BY <1>2 DEF Unmet
  <2>2. /\ diagram'.enc = diagram.enc /\ diagram'.long_mode = diagram.long_mode
        /\ diagram'.opcode = diagram.opcode
    <3>1. PICK e : diagram' = EnteredDiagram(SizedDiagram, e)
      BY <1>6 DEF LookUp
    <3>. DEFINE sized == SizedDiagram
                osz   == IF diagram.enc = "NONE" /\ diagram.w THEN 2 ELSE diagram.osz
                forced == ForcedSize(sized, e)
    <3>2. sized = [diagram EXCEPT !.osz = osz]
      BY DEF SizedDiagram
    <3>3. diagram' = IF e.has_modrm THEN [sized EXCEPT !.osz = forced]
                     ELSE [sized EXCEPT !.osz = forced, !.mod = 0, !.reg = 0, !.rm = 0]
      BY <3>1 DEF EnteredDiagram
    <3>. HIDE DEF sized, osz, forced
    <3>4. /\ sized.enc = diagram.enc /\ sized.long_mode = diagram.long_mode
          /\ sized.opcode = diagram.opcode /\ DOMAIN sized = DOMAIN diagram
      BY <1>3, <3>2 DEF DiagramType
    <3>. QED
      BY <1>3, <3>3, <3>4 DEF DiagramType
  <2>3. IsLegacyForm(Behind) /\ ByteAt(Behind)' = ByteAt(Behind)
    BY <1>2, <2>1, <2>2, FormStands
  <2>. QED
    BY <1>1, <1>6, <2>1, <2>2, <2>3 DEF LegacyInv, LookUp
<1>. QED
  BY <1>4, <1>5, <1>6 DEF Opcode

\* LegacyInv is inductive with CursorInv, VectorInv and the type invariant.
LEMMA LegacyStep ==
  ASSUME TypeOK, TypeOK', CursorInv, VectorInv, LegacyInv, DecodeInsn
  PROVE  LegacyInv'
<1>1. diagram \in DiagramType
  BY DEF TypeOK, FieldsType
<1>2. CASE RejectEmpty
  BY <1>2 DEF RejectEmpty, LegacyInv, Scanned, LookedUp
<1>3. CASE Begin
  <2>1. /\ bytecodes' = <<>> /\ pc' = 0 /\ mapidx' = "NONE"
        /\ loc' = "scan" \/ (loc' = "return" /\ ret' = FALSE)
    BY <1>3 DEF Begin
  <2>2. Met(Byte)' = {} /\ Len(bytecodes') = 0
    BY <2>1, NothingMetNext
  <2>3. 1..0 = {}
    OBVIOUS
  <2>. QED
    BY <2>1, <2>2, <2>3 DEF LegacyInv, Scanned, LookedUp
<1>4. CASE Addressing \/ Arguments \/ Return
  <2>1. DecodeInsn /\ ~Begin /\ ~PrefixByte
    BY <1>4 DEF Begin, PrefixByte, Rex, SegmentPrefix, OperandSizePrefix,
         AddressSizePrefix, LockPrefix, RepeatPrefix, Return,
         Addressing, ModRM, SibMissing, Sib, SibDisp,
         ModRMDisp, Arguments, Template, RegisterNode, MemoryNode, ImmediateNode,
         ImmediateMissing, MoffsNode, MoffsMissing, PtrSegment, PtrOffset, TokenNode,
         QualifierNode, NodesDone, At
  <2>2. Unmet(Byte) /\ UNCHANGED Buffer
    BY <2>1, OthersUnmet, BufferStands
  <2>3. SameOpcode(diagram, diagram')
    <3>1. CASE Return
      BY <3>1 DEF Return, SameOpcode, SameSize
    <3>. QED
      BY <1>1, <1>4, <3>1, AddressingSame, ArgumentsSame
  <2>4. mapidx' = mapidx /\ loc # "opcode" /\ loc' \notin {"scan", "opcode"}
        /\ (Scanned' => Scanned)
    <3>1. CASE Addressing
      <4>1. mapidx' = mapidx /\ loc \in {"modrm", "sib", "sibdisp", "disp"}
        BY <3>1 DEF Addressing, ModRM, SibMissing, Sib, SibDisp, ModRMDisp, prefixes
      <4>2. loc' \notin {"scan", "opcode"}
        BY <3>1 DEF Addressing, ModRM, SibMissing, Sib, SibDisp, ModRMDisp, DispMissing, Disp,
                  AfterSib, ModRMDone, ModRMReturns, Fail
      <4>. QED
        BY <4>1, <4>2 DEF Scanned, LookedUp
    <3>2. CASE Arguments
      <4>1. mapidx' = mapidx /\ loc \in {"template", "nodes", "ptr"}
        BY <3>2 DEF Arguments, Template, RegisterNode, MemoryNode, ImmediateNode,
         ImmediateMissing, MoffsNode, MoffsMissing, PtrSegment, PtrOffset, TokenNode,
         QualifierNode, NodesDone, At, prefixes
      <4>2. loc' \in {"nodes", "ptr", "return"}
        BY <3>2 DEF Arguments, Template, RegisterNode, MemoryNode, ImmediateNode,
         ImmediateMissing, MoffsNode, MoffsMissing, PtrSegment, PtrOffset, TokenNode,
         QualifierNode, NodesDone, At, Fill, GiveUp
      <4>. QED
        BY <4>1, <4>2 DEF Scanned, LookedUp
    <3>3. CASE Return
      BY <3>3 DEF Return, Scanned, LookedUp, prefixes
    <3>. QED
      BY <1>4, <3>1, <3>2, <3>3
  <2>. QED
    BY <2>2, <2>3, <2>4, LegacyStands
<1>. QED
  BY <1>2, <1>3, <1>4, LegacyPrefixByte, LegacyScanned, LegacyOpcode
  DEF DecodeInsn, Prefix, PrefixByte

\* It speaks of nothing outside vars.
LEMMA LegacyStutters ==
  ASSUME LegacyInv, Finished \/ UNCHANGED vars
  PROVE  LegacyInv'
<1>1. UNCHANGED <<memory, context, nb, pc, loc, ret, bytecodes, bytecode_count, diagram,
                  mapidx>>
  BY Stutter DEF prefixes, records, caller
<1>2. Full' = Full /\ Met(Byte)' = Met(Byte) /\ Scanned' = Scanned
  BY <1>1 DEF Full, Met, Scanned, LookedUp
<1>3. /\ Behind' = Behind
      /\ IsLegacyForm(Behind)' = IsLegacyForm(Behind)
      /\ ByteAt(Behind)' = ByteAt(Behind)
  BY <1>1, <1>2, FormStands DEF Buffer
<1>. QED
  BY <1>1, <1>2, <1>3 DEF LegacyInv

\* Before the call nothing is scanned.
LEMMA LegacyInit == Init => LegacyInv
BY DEF Init, LegacyInv, Scanned, LookedUp

\* Outside long mode c4, 62 and 8f with a memory operand are LES, BOUND and POP, and c5
\* with mod 0 or 1 is LDS: no handler of a vector prefix takes them, however many
\* prefixes stand before them and whatever their payload is.
THEOREM LegacyCorrect == Spec => []LegacyFormsStay
<1>1. Init => TypeOK /\ WalkInv /\ CursorInv /\ VectorInv /\ LegacyInv
  BY TypeInit, WalkInit, CursorInit, VectorInit, LegacyInit
<1>2. TypeOK /\ TypeOK' /\ WalkInv /\ CursorInv /\ [Next]_vars => CursorInv'
  BY CursorStep, CursorStutters DEF Next
<1>3. TypeOK /\ VectorInv /\ [Next]_vars => VectorInv'
  BY VectorStep, VectorStutters DEF Next
<1>4. TypeOK /\ TypeOK' /\ CursorInv /\ VectorInv /\ LegacyInv /\ [Next]_vars => LegacyInv'
  BY LegacyStep, LegacyStutters DEF Next
<1>5. LegacyInv => LegacyFormsStay
  BY DEF LegacyInv, Scanned, LookedUp, Returned, LegacyFormsStay
<1>. QED
  BY <1>1, <1>2, <1>3, <1>4, <1>5, TypeCorrect, PTL DEF Spec

-----------------------------------------------------------------------------
(* The records tile the instruction.                                       *)

\* A byte lies before record m + 1 if it lies in one of the first m.
LEMMA InRecords ==
  ASSUME NEW g, NEW m
  PROVE  \A x : x \in UNION {{j} \X DOMAIN g[j].bytes : j \in 1..m}
                  <=> \E j \in 1..m : x \in {j} \X DOMAIN g[j].bytes
<1>. DEFINE P(j) == {j} \X DOMAIN g[j].bytes
            U == UNION {P(j) : j \in 1..m}
<1>. HIDE DEF P
<1>1. \A x : x \in U <=> \E j \in 1..m : x \in P(j)
  OBVIOUS
<1>. QED
  BY <1>1 DEF P

\* Finitely many bytes have been recorded.
LEMMA BeforeFinite ==
  ASSUME RecordsType, NEW i \in 1..Len(bytecodes) + 1
  PROVE  IsFiniteSet(Before(i))
<1>. DEFINE f == [j \in 1..i - 1 |-> {j} \X DOMAIN bytecodes[j].bytes]
            S == {f[j] : j \in 1..i - 1}
<1>1. Len(bytecodes) \in Nat /\ \A j \in 1..i - 1 : bytecodes[j].bytes \in Seq(Byte)
  <2>. DEFINE R == [type : BytecodeTypes, bytes : Seq(Byte)]
  <2>1. bytecodes \in Seq(R) /\ \A r \in R : r.bytes \in Seq(Byte)
    BY DEF RecordsType
  <2>. HIDE DEF R
  <2>. QED
    BY <2>1
<1>2. ASSUME NEW j \in 1..i - 1
      PROVE  IsFiniteSet(f[j])
  <2>1. DOMAIN bytecodes[j].bytes = 1..Len(bytecodes[j].bytes)
        /\ Len(bytecodes[j].bytes) \in Int
    BY <1>1
  <2>2. IsFiniteSet({j}) /\ IsFiniteSet(1..Len(bytecodes[j].bytes))
    <3>1. IsFiniteSet({j})
      BY FS_Singleton
    <3>2. 1 \in Int /\ Len(bytecodes[j].bytes) \in Int
      BY <2>1
    <3>3. IsFiniteSet(1..Len(bytecodes[j].bytes))
      BY <3>2, FS_Interval
    <3>. QED
      BY <3>1, <3>3
  <2>. QED
    BY <2>1, <2>2, FS_Product
<1>3. IsFiniteSet(1..i - 1)
  <2>1. i - 1 \in Int
    BY <1>1
  <2>. QED
    BY <2>1, FS_Interval
<1>4. f \in Surjection(1..i - 1, S)
  BY DEF Surjection
<1>5. IsFiniteSet(S)
  BY <1>3, <1>4, FS_Surjection
<1>6. \A T \in S : IsFiniteSet(T)
  BY <1>2
<1>7. IsFiniteSet(UNION S)
  BY <1>5, <1>6, FS_UNION
<1>8. Before(i) = UNION S
  BY DEF Before
<1>. QED
  BY <1>7, <1>8

\* A new record begins where the last one ended, and none of the others moves.
LEMMA PlaceAppended ==
  ASSUME RecordsType, NEW type \in BytecodeTypes, NEW bytes \in Seq(Byte),
         bytecodes' = Append(bytecodes, [type |-> type, bytes |-> bytes]),
         NEW n, n = Len(bytecodes)
  PROVE  /\ \A i \in 1..n + 1 : PlaceOf(i)' = PlaceOf(i) /\ PlaceOf(i) \in Nat
         /\ PlaceOf(n + 2)' = PlaceOf(n + 1) + Len(bytes)
         /\ Len(bytecodes') = n + 1
         /\ bytecodes'[n + 1].type = type /\ bytecodes'[n + 1].bytes = bytes
         /\ \A i \in 1..n : bytecodes'[i] = bytecodes[i]
<1>. DEFINE R == [type : BytecodeTypes, bytes : Seq(Byte)]
            record == [type |-> type, bytes |-> bytes]
            last == {n + 1} \X (1..Len(bytes))
<1>1. bytecodes \in Seq(R) /\ record.type = type /\ record.bytes = bytes
  BY DEF RecordsType
<1>2. bytecodes' = Append(bytecodes, record)
  OBVIOUS
<1>. HIDE DEF R, record
<1>3. /\ n \in Nat /\ Len(bytecodes') = n + 1 /\ bytecodes'[n + 1] = record
      /\ \A k \in 1..n : bytecodes'[k] = bytecodes[k]
  BY <1>1, <1>2
<1>4. ASSUME NEW i \in 1..n + 1
      PROVE  PlaceOf(i)' = PlaceOf(i) /\ PlaceOf(i) \in Nat
  <2>1. \A j \in 1..i - 1 : bytecodes'[j] = bytecodes[j]
    BY <1>3
  <2>2. Before(i)' = Before(i)
    BY <2>1 DEF Before
  <2>3. IsFiniteSet(Before(i))
    BY <1>4, BeforeFinite
  <2>. QED
    BY <2>2, <2>3, FS_CardinalityType DEF PlaceOf
<1>5. Before(n + 2)' = Before(n + 1) \union last
  <2>1. \A j : j \in 1..n + 2 - 1 <=> j \in 1..n + 1 - 1 \/ j = n + 1
    BY <1>3
  <2>2. \A j \in 1..n + 1 - 1 : bytecodes'[j] = bytecodes[j]
    BY <1>3
  <2>3. DOMAIN bytecodes'[n + 1].bytes = 1..Len(bytes)
    BY <1>1, <1>3
  <2>4. ASSUME NEW x
        PROVE  x \in Before(n + 2)' <=> x \in Before(n + 1) \/ x \in last
    <3>1. x \in Before(n + 2)' <=>
            \E j \in 1..n + 2 - 1 : x \in {j} \X DOMAIN bytecodes'[j].bytes
      BY InRecords DEF Before
    <3>2. x \in Before(n + 1) <=>
            \E j \in 1..n + 1 - 1 : x \in {j} \X DOMAIN bytecodes[j].bytes
      BY InRecords DEF Before
    <3>. QED
      BY <2>1, <2>2, <2>3, <3>1, <3>2
  <2>. QED
    BY <2>4
<1>6. Before(n + 1) \cap last = {}
  <2>1. \A x \in Before(n + 1) : x[1] \in 1..n + 1 - 1
    <3>1. \A x \in Before(n + 1) :
            \E j \in 1..n + 1 - 1 : x \in {j} \X DOMAIN bytecodes[j].bytes
      BY InRecords DEF Before
    <3>. QED
      BY <3>1
  <2>2. \A x \in last : x[1] = n + 1
    OBVIOUS
  <2>3. n + 1 \notin 1..n + 1 - 1
    BY <1>3
  <2>. QED
    BY <2>1, <2>2, <2>3
<1>7. IsFiniteSet(last) /\ Cardinality(last) = Len(bytes)
  <2>1. Len(bytes) \in Nat
    OBVIOUS
  <2>2. IsFiniteSet(1..Len(bytes)) /\ Cardinality(1..Len(bytes)) = Len(bytes)
    <3>1. 1 \in Int /\ Len(bytes) \in Int
      BY <2>1
    <3>2. /\ IsFiniteSet(1..Len(bytes))
          /\ Cardinality(1..Len(bytes))
               = IF 1 > Len(bytes) THEN 0 ELSE Len(bytes) - 1 + 1
      BY <3>1, FS_Interval
    <3>. QED
      BY <2>1, <3>2
  <2>3. IsFiniteSet({n + 1}) /\ Cardinality({n + 1}) = 1
    BY FS_Singleton
  <2>4. Cardinality(last) = 1 * Len(bytes) /\ IsFiniteSet(last)
    BY <2>2, <2>3, FS_Product
  <2>. QED
    BY <2>1, <2>4
<1>. HIDE DEF last
<1>8. IsFiniteSet(Before(n + 1))
  <2>1. n + 1 \in 1..n + 1
    BY <1>3
  <2>. QED
    BY <2>1, BeforeFinite
<1>9. Cardinality(Before(n + 1) \union last) = Cardinality(Before(n + 1)) + Len(bytes)
  <2>1. Cardinality(Before(n + 1) \union last)
          = Cardinality(Before(n + 1)) + Cardinality(last) - Cardinality({})
    BY <1>6, <1>7, <1>8, FS_Union
  <2>2. Cardinality({}) = 0 /\ Cardinality(Before(n + 1)) \in Nat /\ Len(bytes) \in Nat
    BY <1>8, FS_EmptySet, FS_CardinalityType
  <2>. QED
    BY <1>7, <2>1, <2>2
<1>10. PlaceOf(n + 2)' = PlaceOf(n + 1) + Len(bytes)
  <2>1. PlaceOf(n + 2)' = Cardinality(Before(n + 2)')
    BY <1>3 DEF PlaceOf
  <2>. QED
    BY <1>5, <1>9, <2>1 DEF PlaceOf
<1>. QED
  BY <1>1, <1>3, <1>4, <1>10
\* What a record is put on the list with: its bytes are those consumed, at most eight.
Appends(type, bytes) ==
  /\ Len(bytes) \in 0..8
  /\ Advance(Len(bytes)) /\ AddBytecode(type, bytes)
  /\ pc + Len(bytes) <= nb =>
       StreamBytes([type |-> type, bytes |-> bytes]) = Bytes(pc, Len(bytes))

\* Low byte first is stream order read backwards.
LEMMA ReversedPair ==
  ASSUME NEW a, NEW b
  PROVE  Reverse(<<b, a>>) = <<a, b>> /\ Reverse(<<a>>) = <<a>>
BY DEF Reverse

\* One byte of the stream, and two.
LEMMA ShortBytes ==
  ASSUME pc \in Nat
  PROVE  Bytes(pc, 1) = <<ByteAt(pc)>> /\ Bytes(pc, 2) = <<ByteAt(pc), ByteAt(pc + 1)>>
<1>1. pc + 1 - 1 = pc /\ pc + 2 - 1 = pc + 1
  OBVIOUS
<1>. QED
  BY <1>1 DEF Bytes

\* A step that moves pc records what it consumes: decode_map low byte first, decode_modrm
\* the byte it has guessed.
LEMMA StepAppends ==
  ASSUME TypeOK, WalkInv, GuessInv, DecodeInsn, loc # "call"
  PROVE  \/ UNCHANGED <<pc, records>>
         \/ \E type \in BytecodeTypes, bytes \in Seq(Byte) : Appends(type, bytes)
<1>1. CallerType /\ pc \in Nat /\ pc \in Int /\ nb \in Nat
  BY WrapAssumption DEF TypeOK, CursorType
<1>2. ASSUME NEW type \in BytecodeTypes \ {"MAP"}, NEW n \in 0..8, Take(type, n)
      PROVE  \E t \in BytecodeTypes, bytes \in Seq(Byte) : Appends(t, bytes)
  <2>. DEFINE bytes == Bytes(pc, n)
  <2>1. bytes \in Seq(Byte) /\ Len(bytes) = n
    BY <1>1, BytesType
  <2>2. Advance(n) /\ AddBytecode(type, bytes)
    BY <1>2 DEF Take
  <2>3. StreamBytes([type |-> type, bytes |-> bytes]) = Bytes(pc, n)
    BY DEF StreamBytes
  <2>. HIDE DEF bytes
  <2>4. Appends(type, bytes)
    BY <2>1, <2>2, <2>3 DEF Appends
  <2>. QED
    BY <2>1, <2>4
<1>3. CASE EscapeMap
  <2>. DEFINE next == ByteAt(pc + 1)
  <2>1. ByteAt(pc) = 15 /\ next \in Byte /\ "MAP" \in BytecodeTypes /\ 15 \in Byte
    <3>1. pc + 1 \in Int
      BY <1>1
    <3>2. next \in Byte
      BY <1>1, <3>1, ByteAtType
    <3>. QED
      BY <1>3, <3>2 DEF op, EscapeMap, ESCAPE, BytecodeTypes, Byte
  <2>2. \/ Advance(2) /\ AddBytecode("MAP", <<next, 15>>)
        \/ Advance(1) /\ AddBytecode("MAP", <<15>>)
    BY <1>3 DEF EscapeMap
  <2>3. /\ Bytes(pc, 1) = <<15>> /\ Bytes(pc, 2) = <<15, next>>
        /\ Reverse(<<15>>) = <<15>> /\ Reverse(<<next, 15>>) = <<15, next>>
    BY <1>1, <2>1, ShortBytes, ReversedPair
  <2>4. /\ Len(<<15>>) = 1 /\ Len(<<next, 15>>) = 2
        /\ <<15>> \in Seq(Byte) /\ <<next, 15>> \in Seq(Byte)
    BY <2>1
  <2>. HIDE DEF next
  <2>5. Appends("MAP", <<next, 15>>) \/ Appends("MAP", <<15>>)
    BY <2>2, <2>3, <2>4 DEF Appends, StreamBytes
  <2>. QED
    BY <2>1, <2>4, <2>5
<1>4. CASE ModRM
  <2>. DEFINE b == ModRMByte(diagram.mod, diagram.reg, diagram.rm)
  <2>1. b \in Byte /\ "MODRM" \in BytecodeTypes
    <3>1. diagram.mod \in 0..3 /\ diagram.reg \in 0..7 /\ diagram.rm \in 0..7
      BY DEF TypeOK, FieldsType, DiagramType
    <3>. QED
      BY <3>1 DEF ModRMByte, Byte, BytecodeTypes
  <2>2. Advance(1) /\ AddBytecode("MODRM", <<b>>)
    BY <1>4 DEF ModRM
  <2>3. ASSUME pc + 1 <= nb
        PROVE  b = ByteAt(pc)
    BY <1>1, <1>4, <2>3 DEF GuessInv, ModRM
  <2>4. Bytes(pc, 1) = <<ByteAt(pc)>>
    BY <1>1, ShortBytes
  <2>5. Len(<<b>>) = 1 /\ <<b>> \in Seq(Byte)
    BY <2>1
  <2>. HIDE DEF b
  <2>6. Appends("MODRM", <<b>>)
    BY <2>2, <2>3, <2>4, <2>5 DEF Appends, StreamBytes
  <2>. QED
    BY <2>1, <2>5, <2>6
<1>. QED
  BY <1>2, <1>3, <1>4, StepConsumes

\* Putting a byte together from its fields.
LEMMA ModRMWhole ==
  ASSUME NEW modrm \in Byte
  PROVE  ModRMByte(ModOf(modrm), RegOf(modrm), RmOf(modrm)) = modrm
BY DEF ModRMByte, ModOf, RegOf, RmOf, Byte

\* Every step keeps the guess of a ModRM.
LEMMA GuessStep ==
  ASSUME TypeOK, CursorInv, GuessInv, DecodeInsn
  PROVE  GuessInv'
<1>1. /\ CallerType /\ CursorType /\ pc \in Nat /\ nb \in Nat /\ pc + 1 \in Int
      /\ diagram \in DiagramType
  BY WrapAssumption DEF TypeOK, CursorType, FieldsType
<1>2. CASE ModRMFirst
  <2>1. op \in Byte /\ UNCHANGED <<memory, context, pc>>
    <3>1. op \in Byte
      BY <1>1, ByteAtType DEF op
    <3>. QED
      BY <1>2, <3>1 DEF ModRMFirst, caller
  <2>2. diagram'.mod = ModOf(op) /\ diagram'.reg = RegOf(op) /\ diagram'.rm = RmOf(op)
    <3>. DEFINE b == op
    <3>1. diagram' = SetModRM(diagram, b)
      BY <1>2 DEF ModRMFirst
    <3>. HIDE DEF b
    <3>2. diagram'.mod = ModOf(b) /\ diagram'.reg = RegOf(b) /\ diagram'.rm = RmOf(b)
      BY <1>1, <3>1 DEF SetModRM, DiagramType
    <3>. QED
      BY <3>2 DEF b
  <2>3. ByteAt(pc)' = op
    BY <2>1 DEF ByteAt, op
  <2>. QED
    BY <2>1, <2>2, <2>3, ModRMWhole DEF GuessInv
<1>3. CASE OpcodeFirst
  <2>. DEFINE modrm == IF Has(2) THEN ByteAt(pc + 1) ELSE 0
              d == SetModRM(diagram, modrm)
  <2>1. modrm \in Byte
    BY <1>1, ByteAtType DEF Byte
  <2>2. d.mod = ModOf(modrm) /\ d.reg = RegOf(modrm) /\ d.rm = RmOf(modrm)
    BY <1>1 DEF SetModRM, DiagramType
  <2>3. d \in DiagramType /\ diagram' = [d EXCEPT !.opcode = op]
    BY <1>1, <1>3, <2>1, SetModRMType DEF OpcodeFirst
  <2>4. pc' = pc + 1 /\ nb' = nb /\ UNCHANGED <<memory, context>>
    BY <1>1, <1>3, TakeInside DEF OpcodeFirst, Take, caller
  <2>5. ASSUME pc' < nb'
        PROVE  modrm = ByteAt(pc)'
    <3>1. Has(2)
      BY <1>1, <2>4, <2>5 DEF Has
    <3>. QED
      BY <2>4, <3>1 DEF ByteAt
  <2>. HIDE DEF d
  <2>6. diagram'.mod = d.mod /\ diagram'.reg = d.reg /\ diagram'.rm = d.rm
    BY <2>3 DEF DiagramType
  <2>. HIDE DEF modrm
  <2>. QED
    BY <2>1, <2>2, <2>5, <2>6, ModRMWhole DEF GuessInv
<1>4. CASE LookUp
  <2>1. PICK e : /\ diagram' = EnteredDiagram(SizedDiagram, e)
                 /\ loc' = IF e.has_modrm /\ mapidx # "0F0F" THEN "modrm" ELSE "template"
    BY <1>4 DEF LookUp
  <2>2. loc = "lookup" /\ UNCHANGED <<memory, context, pc, nb>>
    BY <1>4 DEF LookUp, caller
  <2>3. ASSUME e.has_modrm
        PROVE  diagram'.mod = diagram.mod /\ diagram'.reg = diagram.reg
               /\ diagram'.rm = diagram.rm
    BY <1>1, <2>1, <2>3 DEF EnteredDiagram, SizedDiagram, DiagramType
  <2>4. ByteAt(pc)' = ByteAt(pc)
    BY <2>2 DEF ByteAt
  <2>. QED
    BY <2>1, <2>2, <2>3, <2>4 DEF GuessInv
<1>5. CASE OpcodeLast
  BY <1>5 DEF OpcodeLast, CursorInv, GuessInv, prefixes
<1>6. CASE RejectEmpty \/ Begin \/ Return
  BY <1>6 DEF RejectEmpty, Begin, Return, GuessInv
<1>7. CASE Prefix
  BY <1>7 DEF Prefix, Rex, SegmentPrefix, OperandSizePrefix, AddressSizePrefix, LockPrefix,
     RepeatPrefix, EscapeMap, Vex2, Vex3, Xop, Evex, Mvex, Vector, OpcodeByte, GuessInv
<1>8. CASE NoOpcode
  BY <1>8 DEF NoOpcode, Fail, GuessInv
<1>9. CASE Addressing
  BY <1>9 DEF Addressing, ModRM, SibMissing, Sib, SibDisp, ModRMDisp, DispMissing, Disp,
     AfterSib, ModRMDone, ModRMReturns, Fail, GuessInv
<1>10. CASE Arguments
  BY <1>10 DEF Arguments, Template, RegisterNode, MemoryNode, ImmediateNode,
     ImmediateMissing, MoffsNode, MoffsMissing, PtrSegment, PtrOffset, TokenNode,
     QualifierNode, NodesDone, At, Fill, GiveUp, GuessInv
<1>. QED
  BY <1>2, <1>3, <1>4, <1>5, <1>6, <1>7, <1>8, <1>9, <1>10 DEF DecodeInsn, Opcode
\* It speaks of nothing outside vars.
LEMMA GuessStutters ==
  ASSUME GuessInv, Finished \/ UNCHANGED vars
  PROVE  GuessInv'
<1>1. UNCHANGED <<memory, context, nb, pc, loc, mapidx, diagram>>
  BY Stutter DEF prefixes, caller
<1>. QED
  BY <1>1 DEF GuessInv, ByteAt

\* Nothing is guessed before the call.
LEMMA GuessInit == Init => GuessInv
BY DEF Init, GuessInv

\* Where no record is added and the buffer stands, the records go on tiling.
LEMMA TileStands ==
  ASSUME RecordsType, TileInv, UNCHANGED <<memory, context, nb, pc, records>>
  PROVE  TileInv'
<1>1. bytecodes' = bytecodes /\ bytecode_count' = bytecode_count
  BY DEF records
<1>2. Full' = Full
  BY <1>1 DEF Full
<1>3. Tiled => Tiled'
  <2>1. \A i : PlaceOf(i)' = PlaceOf(i)
    BY <1>1 DEF PlaceOf, Before
  <2>2. \A i, n : Bytes(i, n)' = Bytes(i, n)
    BY DEF Bytes, ByteAt
  <2>3. \A r : StreamBytes(r)' = StreamBytes(r)
    BY DEF StreamBytes
  <2>. QED
    BY <1>1, <2>1, <2>2, <2>3 DEF Tiled
<1>. QED
  BY <1>1, <1>2, <1>3 DEF TileInv

\* One record more.
LEMMA TileAppends ==
  ASSUME 8 * MaxBytecodes <= Wrap, TypeOK, RecordsType', CursorType', TileInv,
         UNCHANGED <<memory, context, nb>>,
         NEW type \in BytecodeTypes, NEW bytes \in Seq(Byte), Appends(type, bytes)
  PROVE  TileInv'
<1>. DEFINE record == [type |-> type, bytes |-> bytes]
            R == [type : BytecodeTypes, bytes : Seq(Byte)]
<1>1. /\ RecordsType /\ pc \in Nat /\ nb \in Nat /\ Len(bytes) \in 0..8
      /\ bytecode_count \in Nat /\ Len(bytecodes) \in Nat
  <2>1. bytecodes \in Seq(R)
    BY DEF TypeOK, RecordsType
  <2>. HIDE DEF R
  <2>2. Len(bytecodes) \in Nat
    BY <2>1
  <2>. QED
    BY <2>2, WrapAssumption DEF TypeOK, CursorType, RecordsType, Appends
<1>2. AddBytecode(type, bytes) /\ pc' = (pc + Len(bytes)) % Wrap
  BY DEF Appends, Advance
<1>3. CASE Full
  <2>1. UNCHANGED records
    BY <1>2, <1>3 DEF AddBytecode, Full
  <2>. QED
    BY <1>3, <2>1 DEF TileInv, Full, records
<1>4. CASE ~Full
  <2>1. PICK n : n = Len(bytecodes)
    OBVIOUS
  <2>2. bytecodes' = Append(bytecodes, record) /\ bytecode_count' = bytecode_count + 1
    BY <1>2, <1>4 DEF AddBytecode, Full
  <2>3. /\ \A i \in 1..n + 1 : PlaceOf(i)' = PlaceOf(i) /\ PlaceOf(i) \in Nat
        /\ PlaceOf(n + 2)' = PlaceOf(n + 1) + Len(bytes)
        /\ Len(bytecodes') = n + 1
        /\ bytecodes'[n + 1].type = type /\ bytecodes'[n + 1].bytes = bytes
        /\ \A i \in 1..n : bytecodes'[i] = bytecodes[i]
    BY <1>1, <2>1, <2>2, PlaceAppended
  <2>4. DOMAIN bytecodes = 1..n /\ DOMAIN bytecodes' = 1..n + 1
        /\ bytecodes'[n + 1] = record
    <3>1. bytecodes \in Seq(R) /\ record \in R
      BY DEF TypeOK, RecordsType
    <3>. HIDE DEF R, record
    <3>. QED
      BY <2>1, <2>2, <3>1
  <2>5. Len(bytecodes') <= bytecode_count'
    BY <1>1, <2>1, <2>2, <2>3 DEF TileInv
  <2>6. ASSUME ~Full'
        PROVE  pc' = pc + Len(bytes) /\ pc' <= 8 * Len(bytecodes')
    <3>1. bytecode_count + 1 < MaxBytecodes
      BY <1>1, <2>2, <2>6, BytecodesAssumption DEF Full
    <3>2. pc <= 8 * n /\ n <= bytecode_count /\ n \in Nat
      BY <1>1, <1>4, <2>1 DEF TileInv
    <3>3. pc + Len(bytes) <= 8 * (n + 1) /\ 8 * (n + 1) < Wrap
      <4>1. \A p, k, count \in Nat :
              p <= 8 * n /\ n <= count /\ count + 1 < MaxBytecodes /\ k <= 8 =>
                p + k <= 8 * (n + 1) /\ 8 * (n + 1) < Wrap
        BY <3>2, BytecodesAssumption, WrapAssumption
      <4>2. Len(bytes) \in Nat /\ Len(bytes) <= 8
        <5>1. \A k \in 0..8 : k \in Nat /\ k <= 8
          OBVIOUS
        <5>. QED
          BY <1>1, <5>1, Zenon
      <4>. QED
        BY <1>1, <3>1, <3>2, <4>1, <4>2
    <3>4. pc + Len(bytes) \in 0..Wrap - 1
      <4>1. \A k \in Nat : pc + k <= 8 * (n + 1) => pc + k \in 0..Wrap - 1
        BY <1>1, <3>2, <3>3, WrapAssumption
      <4>. QED
        BY <1>1, <3>3, <4>1
    <3>5. pc' = pc + Len(bytes)
      BY <1>2, <3>4, WrapAssumption
    <3>. QED
      BY <2>3, <3>3, <3>5
  <2>7. ASSUME ~Full', pc' <= nb'
        PROVE  Tiled'
    <3>1. pc' = pc + Len(bytes) /\ pc + Len(bytes) <= nb /\ pc <= nb
      BY <1>1, <2>6, <2>7
    <3>2. Tiled
      BY <1>4, <3>1 DEF TileInv
    <3>3. PlaceOf(n + 1) = pc
      BY <2>1, <3>2 DEF Tiled
    <3>4. PlaceOf(n + 2)' = pc'
      BY <2>3, <3>1, <3>3
    <3>5. \A i, k : Bytes(i, k)' = Bytes(i, k)
      BY DEF Bytes, ByteAt
    <3>6. StreamBytes(record) = Bytes(pc, Len(bytes))
      BY <3>1 DEF Appends
    <3>7. ASSUME NEW i \in DOMAIN bytecodes'
          PROVE  StreamBytes(bytecodes[i])' = Bytes(PlaceOf(i), Len(bytecodes[i].bytes))'
      <4>1. CASE i = n + 1
        <5>1. PlaceOf(i)' = pc /\ bytecodes'[i] = record /\ record.bytes = bytes
          BY <1>1, <2>1, <2>3, <2>4, <3>3, <4>1
        <5>. HIDE DEF record
        <5>. QED
          BY <3>5, <3>6, <5>1 DEF StreamBytes
      <4>2. CASE i # n + 1
        <5>1. i \in 1..n
          BY <1>1, <2>1, <2>4, <4>2
        <5>2. PlaceOf(i)' = PlaceOf(i) /\ bytecodes'[i] = bytecodes[i]
          BY <1>1, <2>1, <2>3, <5>1
        <5>3. StreamBytes(bytecodes[i]) = Bytes(PlaceOf(i), Len(bytecodes[i].bytes))
          BY <2>4, <3>2, <5>1 DEF Tiled
        <5>. QED
          BY <3>5, <5>2, <5>3 DEF StreamBytes
      <4>. QED
        BY <4>1, <4>2
    <3>8. PlaceOf(Len(bytecodes) + 1)' = pc'
      <4>1. Len(bytecodes') + 1 = n + 2
        BY <1>1, <2>1, <2>3
      <4>. QED
        BY <3>4, <4>1 DEF PlaceOf, Before
    <3>. QED
      BY <3>7, <3>8 DEF Tiled
  <2>. QED
    BY <2>5, <2>6, <2>7 DEF TileInv
<1>. QED
  BY <1>3, <1>4

\* Every step keeps the records tiling what is consumed.
LEMMA TileStep ==
  ASSUME 8 * MaxBytecodes <= Wrap, TypeOK, TypeOK', WalkInv, GuessInv, TileInv, DecodeInsn
  PROVE  TileInv'
<1>1. RecordsType /\ RecordsType' /\ CursorType'
  BY DEF TypeOK
<1>2. CASE RejectEmpty
  BY <1>1, <1>2, TileStands DEF RejectEmpty, caller
<1>3. CASE Begin
  <2>1. bytecodes' = <<>> /\ pc' = 0 /\ bytecode_count' \in Nat
    BY <1>1, <1>3 DEF Begin, RecordsType
  <2>2. Len(bytecodes') = 0 /\ DOMAIN bytecodes' = {} /\ 0 + 1 = 1
    BY <2>1
  <2>3. PlaceOf(1)' = 0
    <3>1. 1..1 - 1 = {}
      OBVIOUS
    <3>2. Before(1)' = UNION {{j} \X DOMAIN bytecodes'[j].bytes : j \in 1..1 - 1}
      BY DEF Before
    <3>3. \A x : x \notin Before(1)'
      BY <3>1, <3>2, InRecords
    <3>4. Before(1)' = {} /\ PlaceOf(1)' = Cardinality(Before(1)')
      BY <3>3 DEF PlaceOf
    <3>. QED
      BY <3>4, FS_EmptySet
  <2>4. Tiled'
    BY <2>1, <2>2, <2>3 DEF Tiled
  <2>. QED
    BY <2>1, <2>2, <2>4 DEF TileInv
<1>4. CASE ~RejectEmpty /\ ~Begin
  <2>1. loc # "call" /\ UNCHANGED <<memory, context, nb>>
    <3>1. CASE Prefix
      BY <3>1 DEF Prefix, Rex, SegmentPrefix, OperandSizePrefix, AddressSizePrefix,
         LockPrefix, RepeatPrefix, EscapeMap, Vex2, Vex3, Xop, Evex, Mvex, Vector, OpcodeByte,
         caller
    <3>2. CASE Opcode
      BY <3>2 DEF Opcode, NoOpcode, ModRMFirst, OpcodeFirst, OpcodeLast, LookUp, caller
    <3>3. CASE Addressing
      BY <3>3 DEF Addressing, ModRM, SibMissing, Sib, SibDisp, ModRMDisp, caller
    <3>4. CASE Arguments
      BY <3>4 DEF Arguments, Template, RegisterNode, MemoryNode, ImmediateNode,
         ImmediateMissing, MoffsNode, MoffsMissing, PtrSegment, PtrOffset, TokenNode,
         QualifierNode, NodesDone, At, caller
    <3>5. CASE Return
      BY <3>5 DEF Return, caller
    <3>. QED
      BY <1>4, <3>1, <3>2, <3>3, <3>4, <3>5 DEF DecodeInsn
  <2>2. CASE UNCHANGED <<pc, records>>
    BY <1>1, <2>1, <2>2, TileStands
  <2>3. ASSUME NEW type \in BytecodeTypes, NEW bytes \in Seq(Byte), Appends(type, bytes)
        PROVE  TileInv'
    BY <1>1, <2>1, <2>3, TileAppends
  <2>. QED
    BY <2>1, <2>2, <2>3, StepAppends
<1>. QED
  BY <1>2, <1>3, <1>4

\* It speaks of nothing outside vars.
LEMMA TileStutters ==
  ASSUME TypeOK, TileInv, Finished \/ UNCHANGED vars
  PROVE  TileInv'
<1>1. UNCHANGED <<memory, context, nb, pc, records>>
  BY Stutter DEF caller
<1>. QED
  BY <1>1, TileStands DEF TypeOK

\* Nothing is recorded before the call.
LEMMA TileInit == Init => TypeOK /\ TileInv
<1>. SUFFICES ASSUME Init PROVE TileInv
  BY TypeInit
<1>1. bytecodes = <<>> /\ pc = 0 /\ bytecode_count \in Nat
  BY CountsAssumption DEF Init
<1>2. Len(bytecodes) = 0 /\ DOMAIN bytecodes = {} /\ 0 + 1 = 1
  BY <1>1
<1>3. PlaceOf(1) = 0
  <2>1. 1..1 - 1 = {}
    OBVIOUS
  <2>2. Before(1) = {}
    BY <2>1 DEF Before
  <2>. QED
    BY <2>2, FS_EmptySet DEF PlaceOf
<1>. QED
  BY <1>1, <1>2, <1>3 DEF TileInv, Tiled

\* Laid end to end in stream order the records are the bytes the call consumed, none
\* twice and none missing, as long as add_bytecode had room, whatever the image and the
\* tables.  The record list holds 15 records of at most 8 bytes, so that pc, a uint8_t,
\* does not wrap before it is full.
THEOREM BytecodesCorrect ==
  ASSUME 8 * MaxBytecodes <= Wrap
  PROVE  Spec => []BytecodesTile
<1>1. Init => TypeOK /\ WalkInv /\ CursorInv /\ GuessInv /\ TileInv
  BY TileInit, WalkInit, CursorInit, GuessInit
<1>2. TypeOK /\ TypeOK' /\ WalkInv /\ CursorInv /\ GuessInv /\ TileInv /\ [Next]_vars
        => CursorInv' /\ GuessInv' /\ TileInv'
  BY CursorStep, CursorStutters, GuessStep, GuessStutters, TileStep, TileStutters DEF Next
<1>3. TileInv => BytecodesTile
  BY DEF TileInv, BytecodesTile
<1>. QED
  BY <1>1, <1>2, <1>3, TypeCorrect, PTL DEF Spec

-----------------------------------------------------------------------------
(* The loop of the examples is a cursor.                                   *)

\* The first call finds the caller's state.
LEMMA LoopInit ==
  ASSUME \A length \in Lengths : length <= Wrap - 2
  PROVE  StreamInit => LoopInv
<1>. SUFFICES ASSUME Init PROVE LoopInv
  BY DEF StreamInit
<1>1. TypeOK /\ WalkInv /\ CursorInv
  BY TypeInit, WalkInit, CursorInit
<1>2. loc = "call" /\ pc = 0 /\ nb = 0 /\ ret = FALSE
  BY DEF Init
<1>3. context.length <= Wrap - 2
  BY DEF Init
<1>4. pc <= nb + 1 /\ ~(pc > nb)
  BY <1>2
<1>. QED
  BY <1>1, <1>2, <1>3, <1>4 DEF LoopInv, WalkInv

\* A call begins or is refused, whatever the one before it left.
LEMMA LoopCalls ==
  ASSUME LoopInv, RejectEmpty \/ Begin
  PROVE  LoopInv'
<1>1. TypeOK' /\ TypeOK /\ context' = context
  BY CallType, InCall DEF LoopInv, DecodeInsn
<1>2. CASE RejectEmpty
  <2>1. /\ loc = "call" /\ loc' = "done" /\ ret' = FALSE /\ context.length = 0
        /\ UNCHANGED <<node, slot, entry, pc, nb, diagram, mapidx>>
    BY <1>2 DEF RejectEmpty, walk, prefixes
  <2>2. WalkInv'
    BY <2>1 DEF LoopInv, WalkInv, BeforeNodes
  <2>3. CursorInv'
    BY <2>1 DEF LoopInv, CursorInv, OvershootIsModRM, NothingRead
  <2>. QED
    BY <1>1, <2>1, <2>2, <2>3 DEF LoopInv
<1>3. CASE Begin
  <2>1. loc' \in {"scan", "return"} /\ context.length # 0
    BY <1>3 DEF Begin
  <2>2. WalkInv'
    <3>1. 1 <= Len(FirstEntry.nodes) + 1 /\ 0 < 1
      BY FirstEntryType, EntryNodes DEF Slots
    <3>. QED
      BY <1>3, <2>1, <3>1 DEF Begin, WalkInv
  <2>3. CursorInv' /\ LengthInv'
    BY <1>1, <1>3, CursorBegin, LengthBegin DEF TypeOK
  <2>. QED
    BY <1>1, <2>1, <2>2, <2>3 DEF LoopInv
<1>. QED
  BY <1>2, <1>3

\* Within a call the invariants of one call hold.
LEMMA LoopDecodes ==
  ASSUME LoopInv, DecodeInsn
  PROVE  LoopInv'
<1>1. CASE loc = "call"
  BY <1>1, LoopCalls, InCall
<1>2. CASE loc # "call"
  <2>1. TypeOK /\ WalkInv /\ CursorInv
    BY <1>2 DEF LoopInv
  <2>2. TypeOK' /\ WalkInv'
    BY <2>1, TypeStep, WalkStep
  <2>3. CursorInv'
    BY <2>1, <2>2, CursorStep
  <2>4. loc # "done" /\ loc' # "call" /\ context' = context
    BY InCall
  <2>5. context.length # 0 /\ LengthInv
    BY <1>2, <2>4 DEF LoopInv
  <2>6. LengthInv'
    BY <2>1, <2>2, <2>5, LengthStep
  <2>7. loc' = "done" /\ ret' => insn'.length = pc'
    <3>1. SUFFICES ASSUME loc' = "done" PROVE insn'.length = pc'
      OBVIOUS
    <3>2. Return
      BY <1>2, <3>1, InCall DEF RejectEmpty
    <3>3. insn \in InsnType
      BY <2>1 DEF TypeOK, ResultType
    <3>. QED
      BY <3>2, <3>3 DEF Return, InsnType
  <2>. QED
    BY <2>2, <2>3, <2>4, <2>5, <2>6, <2>7 DEF LoopInv
<1>. QED
  BY <1>1, <1>2

\* The caller moves on by the length it was given.
LEMMA LoopAdvances ==
  ASSUME LoopInv, NextInsn
  PROVE  /\ LoopInv'
         /\ insn.length \in 0..Wrap - 1
         /\ context.length # 0
         /\ context.length > 0 => insn.length \in 1..context.length + 1
         /\ context'.address = context.address + insn.length
         /\ context'.length = context.length - insn.length
         /\ loc' = "call"
<1>1. TypeOK /\ WalkInv /\ CursorInv /\ loc = "done" /\ ret /\ loc' = "call"
  BY DEF LoopInv, NextInsn
<1>2. /\ context.length # 0 /\ insn.length = pc /\ LengthInv
      /\ context.length <= Wrap - 2 /\ context.length \in Int /\ context.address \in Nat
      /\ pc \in Nat /\ pc \in 0..Wrap - 1
  BY <1>1, WrapAssumption DEF LoopInv, TypeOK, CallerType, CursorType
<1>3. context.length > 0 => insn.length \in 1..context.length + 1
  <2>1. SUFFICES ASSUME context.length > 0 PROVE insn.length \in 1..context.length + 1
    OBVIOUS
  <2>2. context.length \in 1..Wrap - 2
    BY <1>2, <2>1, WrapAssumption
  <2>. QED
    BY <1>1, <1>2, <2>2, CursorProgress DEF Progress, Returned
<1>. DEFINE C == [machine_mode : MachineModes, address : Nat, length : Int]
            n == insn.length
<1>4. context \in C /\ context' = [context EXCEPT !.address = @ + n, !.length = @ - n]
  BY <1>1 DEF TypeOK, CallerType, NextInsn, Advanced
<1>5. n \in Nat
  BY <1>2
<1>. HIDE DEF n
<1>6. /\ context'.address = context.address + n /\ context'.length = context.length - n
      /\ context' \in C
  <2>. DEFINE a == context.address + n
              l == context.length - n
  <2>1. a \in Nat /\ l \in Int
    BY <1>2, <1>5
  <2>2. context' = [context EXCEPT !.address = a, !.length = l]
    BY <1>4
  <2>. HIDE DEF a, l
  <2>3. context'.address = a /\ context'.length = l /\ context' \in C
    BY <1>4, <2>1, <2>2
  <2>. QED
    BY <2>3 DEF a, l
<1>7. context'.length <= Wrap - 2
  BY <1>2, <1>5, <1>6, WrapAssumption
<1>8. TypeOK'
  <2>1. CallerType'
    BY <1>1, <1>6 DEF NextInsn, TypeOK, CallerType
  <2>2. PlaceType'
    BY <1>1 DEF NextInsn, TypeOK, PlaceType, Locations
  <2>3. ResultType' /\ RecordsType' /\ CursorType' /\ PrefixesType' /\ FieldsType' /\ WalkType'
    BY <1>1, Unchanged DEF NextInsn, TypeOK
  <2>. QED
    BY <2>1, <2>2, <2>3 DEF TypeOK
<1>9. LoopInv'
  <2>1. UNCHANGED <<node, slot, entry, pc, nb, diagram>>
    BY DEF NextInsn, walk
  <2>2. /\ slot < node /\ node <= Len(entry.nodes) + 1
        /\ pc <= nb + 1 /\ (pc > nb => entry.has_modrm /\ NothingRead)
    BY <1>1 DEF WalkInv, CursorInv, OvershootIsModRM, NothingRead
  <2>. QED
    BY <1>1, <1>7, <1>8, <2>1, <2>2 DEF LoopInv, NothingRead
<1>. QED
  BY <1>1, <1>2, <1>3, <1>6, <1>9 DEF n

\* LoopInv speaks of nothing outside vars.
LEMMA LoopStutters ==
  ASSUME LoopInv, UNCHANGED vars
  PROVE  LoopInv'
<1>1. CASE loc = "call"
  <2>1. TypeOK'
    BY Stutter, Unchanged DEF LoopInv, TypeOK
  <2>2. UNCHANGED <<loc, ret, nb, pc, diagram, context, insn, entry, node, slot>>
    BY Stutter DEF caller, result, walk
  <2>. QED
    BY <1>1, <2>1, <2>2 DEF LoopInv, NothingRead
<1>2. CASE loc # "call"
  <2>1. TypeOK /\ WalkInv /\ CursorInv
    BY <1>2 DEF LoopInv
  <2>2. UNCHANGED <<loc, ret, nb, pc, context, insn, walk>>
    BY Stutter DEF caller, result
  <2>3. TypeOK' /\ CursorInv' /\ (LengthInv => LengthInv')
    BY <2>1, Stutter, Unchanged, CursorStutters, LengthStutters DEF TypeOK
  <2>4. WalkInv'
    BY <2>1, <2>2 DEF WalkInv, walk, Node
  <2>. QED
    BY <1>2, <2>2, <2>3, <2>4 DEF LoopInv
<1>. QED
  BY <1>1, <1>2

\* Every step of the loop moves the cursor by an instruction, stops it, or leaves it alone.
LEMMA MovesAsCursor ==
  ASSUME LoopInv, [StreamNext]_streamVars
  PROVE  [Cursor!Next]_(Cursor!cursor)
<1>. DEFINE running == ~(loc = "done" /\ ~ret)
<1>1. CASE NextInsn
  <2>. DEFINE n == insn.length
              rest == context.length
  <2>1. /\ n \in 0..Wrap - 1 /\ rest # 0 /\ rest \in Int
        /\ rest > 0 => n \in 1..rest + 1
        /\ context'.address = context.address + n
        /\ context'.length = rest - n
    BY <1>1, LoopAdvances DEF LoopInv, TypeOK, CallerType
  <2>2. running /\ running'
    BY <1>1 DEF NextInsn
  <2>. HIDE DEF n
  <2>3. CASE rest > 0 /\ n <= rest
    <3>1. n \in 1..rest
      BY <2>1, <2>3
    <3>2. Cursor!Step
      BY <2>1, <2>2, <2>3, <3>1 DEF Cursor!Step, Cursor!Move
    <3>. QED
      BY <3>2 DEF Cursor!Next
  <2>4. CASE rest > 0 /\ ~(n <= rest)
    <3>1. n \in rest + 1..rest + 1
      BY <2>1, <2>4
    <3>2. Cursor!Overrun
      BY <2>1, <2>2, <2>4, <3>1 DEF Cursor!Overrun, Cursor!Move
    <3>. QED
      BY <3>2 DEF Cursor!Next
  <2>5. CASE ~(rest > 0)
    <3>1. rest < 0
      BY <2>1, <2>5
    <3>2. Cursor!Astray
      BY <2>1, <2>2, <3>1 DEF Cursor!Astray, Cursor!Move
    <3>. QED
      BY <3>2 DEF Cursor!Next
  <2>. QED
    BY <2>3, <2>4, <2>5
<1>2. CASE DecodeInsn
  <2>1. context' = context /\ loc # "done"
    BY <1>2, InCall
  <2>2. CASE running'
    BY <2>1, <2>2 DEF Cursor!cursor
  <2>3. CASE ~running'
    BY <2>1, <2>3 DEF Cursor!Next, Cursor!Stop
  <2>. QED
    BY <2>2, <2>3
<1>3. CASE UNCHANGED vars
  <2>1. UNCHANGED <<context, loc, ret>>
    BY <1>3, Stutter DEF caller
  <2>. QED
    BY <2>1 DEF Cursor!cursor
<1>. QED
  BY <1>1, <1>2, <1>3 DEF StreamNext, Loop, Ended, streamVars

\* The safety of StreamIsCursor: in a buffer of up to 254 bytes, nb being 8 bits wide, the
\* loop goes forward by whole instructions, leaves the buffer by one byte at most, and stops
\* for good, whatever the bytes, the tables and the amed_insn it begins with.
THEOREM LoopIsCursor ==
  ASSUME \A length \in Lengths : length <= Wrap - 2
  PROVE  StreamSpec => Cursor!Init /\ [][Cursor!Next]_(Cursor!cursor)
<1>1. StreamInit => Cursor!Init
  BY DEF StreamInit, Init, Cursor!Init
<1>2. LoopInv /\ [StreamNext]_streamVars => LoopInv'
  BY LoopDecodes, LoopAdvances, LoopStutters DEF StreamNext, Loop, Ended, streamVars
<1>. QED
  BY <1>1, <1>2, LoopInit, MovesAsCursor, PTL DEF StreamSpec
=============================================================================
