---------------------------- MODULE X86Decoder ----------------------------
(***************************************************************************)
(* One call of amed_x86_decode_insn (source/x86/decoder.c): the prefix     *)
(* scan, the vector prefixes, opcode and map, the table lookup, ModRM, SIB *)
(* and displacement, and the argument nodes that consume immediates.       *)
(*                                                                         *)
(* `memory' is the image the caller's address points into, `context' the   *)
(* amed_context it passes.  `loc' is the place the decoder has reached;    *)
(* each action is one handler run at that place.  The generated tables are *)
(* external: Entries holds their rows, and x86_lookup may answer any row   *)
(* that agrees with the part of the hash code modelled here.               *)
(***************************************************************************)
EXTENDS Integers, Sequences, X86Fields

CONSTANTS
  Images,        \* byte sequences the memory may begin with
  Filler,        \* the byte everywhere behind an image
  Lengths,       \* values of context.length
  MachineModes,  \* values of context.machine_mode
  OldCounts,     \* values of insn.x86.bytecode_count the caller leaves behind
  OldBases,      \* base registers the caller leaves behind in the arguments
  Wrap,          \* 2^8: pc and nb are uint8_t
  MaxBytecodes,  \* AMED_X86_MAX_BYTECODE_COUNT
  Entries,       \* rows of the generated tables
  FirstEntry     \* row 0 of both tables, which x86_lookup answers for `not found' too

\* insn.arguments has room for MaxArguments; the longest node lists of the tables
\* (PUSHA, POPA, XCRYPT) run past it, so Slots of them can be written.
MaxArguments == 8
Slots == 10

Encodings == {"NONE", "VEX", "EVEX", "MVEX", "XOP"}

Flags == {"undefined", "unpredictable", "ugly", "vector", "predicated", "atomic",
          "acquiring", "releasing", "sae", "branch", "load", "store"}

Functionalities == {"NONE", "REP", "REPZ", "REPNZ", "XACQUIRE", "XRELEASE", "BND"}

NodeTypes == {"REG", "VREG", "PREG", "MEM", "AGEN", "MIB", "IMM", "REL", "SHIFT",
              "ROTATE", "CC", "MOFFS", "PTR", "SAE", "EVH", "RC", "BCST", "SBCST", "SWZ"}

ArgumentTypes == {"NONE", "REGISTER", "MEMORY", "ADDRESS", "IMMEDIATE", "LABEL",
                  "CONDITION", "PTR", "SAE", "EVH", "ROUNDING"}

\* A base register: none, the instruction pointer, a general register.
Bases == {"NONE", "IP", "REG"}

\* An argument node of the tables.  `bytes' is how many bytes of the stream an
\* immediate takes for operand size 0, 1, 2 (0: the table holds its value); `is4' is a
\* register in the high half of an immediate byte; `encoded' is memory ModRM describes;
\* memory is also read and written where that is conditional; `reserved' are the
\* conversions a swizzle table reserves.
NodeType == [type : NodeTypes, bytes : [0..2 -> 0..8], is4 : BOOLEAN,
             encoded : BOOLEAN, read : BOOLEAN, write : BOOLEAN,
             reserved : SUBSET (0..7)]

\* The flags of the hash code that tell the modelled entries apart.
Selectors == {"long_mode", "modreg", "w", "p66", "f2", "f3", "fb"}

\* An encoding and template pair of the tables; `when' holds the values of the selectors
\* it is found for.
EntryType == [map : Maps, opcode : Byte, enc : Encodings,
              when : [Selectors -> SUBSET BOOLEAN],
              encoding : Nat, template : Nat, has_modrm : BOOLEAN,
              size64 : {"none", "f64", "d64"}, lock : BOOLEAN,
              f2 : {"NONE", "BND", "XACQUIRE", "REPNZ"},
              f3 : {"NONE", "XRELEASE", "REPZ", "REP"},
              branch : BOOLEAN, unpredictable : BOOLEAN, nodes : Seq(NodeType)]

ASSUME ImagesAssumption == Images \subseteq Seq(Byte) /\ Filler \in Byte
ASSUME LengthsAssumption == Lengths \subseteq Int
ASSUME CountsAssumption == OldCounts \subseteq Nat /\ OldBases \subseteq Bases
ASSUME WrapAssumption == Wrap \in Nat /\ Wrap > 1
ASSUME BytecodesAssumption == MaxBytecodes \in Nat

\* The tables give a broadcast qualifier a memory node before it.
Qualified(nodes) ==
  \A i \in DOMAIN nodes :
    nodes[i].type = "BCST" => \E j \in DOMAIN nodes : j < i /\ nodes[j].type = "MEM"

ASSUME EntriesAssumption ==
  /\ Entries \subseteq EntryType
  /\ \A e \in Entries : Len(e.nodes) <= Slots /\ Qualified(e.nodes)
  /\ FirstEntry \in Entries

VARIABLES
  memory, context,                      \* the caller's buffer and amed_context
  insn, flags, arguments,               \* the caller's amed_insn
  bytecodes, bytecode_count,            \* insn.x86.bytecodes
  loc, ret,
  nb, pc, vfpc, mapidx, segment, last_f_prefix, diagram, addressing,
  entry, node, slot, vmem, src_reg      \* x86_internal

caller   == <<memory, context>>
result   == <<insn, flags, arguments>>
records  == <<bytecodes, bytecode_count>>
prefixes == <<vfpc, mapidx, segment, last_f_prefix>>
walk     == <<entry, node, slot, vmem, src_reg>>

vars == <<caller, result, records, loc, ret, nb, pc, prefixes, diagram, addressing, walk>>

-----------------------------------------------------------------------------
(* Reading the stream.                                                     *)

ByteAt(i) ==
  LET a == context.address + i + 1
  IN  IF a \in DOMAIN memory THEN memory[a] ELSE Filler

\* Mutant: the bound is compared with `>='.
HasInclusive(n) == pc + n <= nb + 1

\* peek_byte and peek_bytes: n more bytes lie inside the buffer.
Has(n) == pc + n <= nb

op == ByteAt(pc)

Advance(n) == pc' = (pc + n) % Wrap

\* The n bytes at offset i.
Bytes(i, n) == [k \in 1..n |-> ByteAt(i + k - 1)]

\* add_bytecode; what it answers when the list is full is ignored by every caller.
AddBytecode(type, bytes) ==
  IF bytecode_count >= MaxBytecodes
  THEN UNCHANGED records
  ELSE /\ bytecodes' = Append(bytecodes, [type |-> type, bytes |-> bytes])
       /\ bytecode_count' = bytecode_count + 1

\* Mutant: a handler stops at a full list before it advances.
TakeIfRoom(type, n) ==
  IF bytecode_count >= MaxBytecodes
  THEN UNCHANGED <<pc, records>>
  ELSE Advance(n) /\ AddBytecode(type, Bytes(pc, n))

\* Mutant: a displacement is recorded as one byte, whatever its size.
TakeDispByte(type, n) ==
  Advance(n) /\ AddBytecode(type, Bytes(pc, IF type = "DISP" THEN 1 ELSE n))

\* Consume n bytes and record them under one type.
Take(type, n) == Advance(n) /\ AddBytecode(type, Bytes(pc, n))

-----------------------------------------------------------------------------
(* A call.                                                                 *)

BlankDiagram ==
  [long_mode |-> FALSE, asz |-> 0, osz |-> 0, w |-> FALSE, p66 |-> FALSE,
   f2 |-> FALSE, f3 |-> FALSE, f0 |-> FALSE, fb |-> FALSE, enc |-> "NONE",
   has_rex |-> FALSE, x |-> FALSE, bp |-> FALSE, aaa |-> 0, sss |-> 0,
   mod |-> 0, reg |-> 0, rm |-> 0, modreg |-> FALSE, index |-> 0, base |-> 0,
   opcode |-> 0, has_modrm |-> FALSE, has_sib |-> FALSE, has_disp |-> FALSE,
   has_is4 |-> FALSE]

NoBase == [has_base |-> FALSE, has_index |-> FALSE, base_ip |-> FALSE]

\* Default operand and address sizes of a machine mode: 0 is 16-bit, 1 32-bit, 2 64-bit.
DefaultOperandSize == IF context.machine_mode = 16 THEN 0 ELSE 1
DefaultAddressSize ==
  CASE context.machine_mode = 16 -> 0
    [] context.machine_mode = 32 -> 1
    [] OTHER -> 2

\* if (!pcontext->length) return false.
RejectEmpty ==
  /\ loc = "call" /\ context.length = 0
  /\ loc' = "done" /\ ret' = FALSE
  /\ UNCHANGED <<caller, result, records, nb, pc, prefixes, diagram, addressing, walk>>

\* The start of decode_entry: the length is cut to a uint8_t, the flags are cleared,
\* the rest of *pinsn keeps what the caller left there.
Begin ==
  /\ loc = "call" /\ context.length # 0
  /\ nb' = context.length % Wrap
  /\ pc' = 0
  /\ flags' = {}
  /\ bytecodes' = <<>>
  /\ vfpc' = 0 /\ mapidx' = "NONE" /\ segment' = "NONE" /\ last_f_prefix' = 0
  /\ addressing' = NoBase
  /\ entry' = FirstEntry /\ node' = 1 /\ slot' = 0 /\ vmem' = FALSE /\ src_reg' = FALSE
  /\ IF context.machine_mode \in {16, 32, 64}
     THEN /\ diagram' = [BlankDiagram EXCEPT !.long_mode = context.machine_mode = 64,
                                             !.asz = DefaultAddressSize,
                                             !.osz = DefaultOperandSize]
          /\ loc' = "scan" /\ UNCHANGED ret
     ELSE diagram' = BlankDiagram /\ loc' = "return" /\ ret' = FALSE
  /\ UNCHANGED <<caller, insn, arguments, bytecode_count>>

\* The end of amed_x86_decode_insn.
Return ==
  /\ loc = "return"
  /\ insn' = [insn EXCEPT !.length = pc]
  /\ loc' = "done"
  /\ UNCHANGED <<caller, flags, arguments, records, ret, nb, pc, prefixes, diagram,
                 addressing, walk>>

Fail == loc' = "return" /\ ret' = FALSE

-----------------------------------------------------------------------------
(* The prefix scan.  A handler that ends in `goto reenter' stays at "scan".*)

SetW(d, w) == [d EXCEPT !.w = w, !.osz = IF w THEN 2 ELSE @]
SetPP(d, pp) == [d EXCEPT !.p66 = @ \/ pp = 1, !.f3 = @ \/ pp = 2, !.f2 = @ \/ pp = 3]

IsRex == op \in RexBytes /\ diagram.long_mode

Rex ==
  /\ loc = "scan" /\ Has(1) /\ IsRex
  /\ Take("REX", 1)
  /\ diagram' = [SetW(diagram, Bit(op, 3)) EXCEPT !.x = Bit(op, 1), !.fb = Bit(op, 0),
                                                !.has_rex = TRUE]
  /\ vfpc' = (vfpc + 1) % Wrap
  /\ UNCHANGED <<caller, result, loc, ret, nb, mapidx, segment, last_f_prefix,
                 addressing, walk>>

\* Mutant: the first override stands.
FirstSegmentStands == IF segment # "NONE" THEN segment ELSE SegmentOf[op]

\* The override stored by add_segment.
NewSegment == SegmentOf[op]

\* add_segment: a second override is ugly, the last one stands.
SegmentPrefix ==
  /\ loc = "scan" /\ Has(1) /\ op \in SegmentBytes
  /\ Take("PREFIX", 1)
  /\ flags' = IF segment # "NONE" THEN flags \union {"ugly"} ELSE flags
  /\ segment' = NewSegment
  /\ UNCHANGED <<caller, insn, arguments, loc, ret, nb, vfpc, mapidx, last_f_prefix,
                 diagram, addressing, walk>>

\* Mutant: one size below the default, which 16 bits do not have.
SizeBelow == DefaultOperandSize - 1

\* dfopsize >> 1.
OverrideSize == DefaultOperandSize \div 2

OperandSizePrefix ==
  /\ loc = "scan" /\ Has(1) /\ op = OPSIZE
  /\ Take("PREFIX", 1)
  /\ diagram' = [diagram EXCEPT !.p66 = TRUE, !.osz = OverrideSize]
  /\ vfpc' = (vfpc + 1) % Wrap
  /\ UNCHANGED <<caller, result, loc, ret, nb, mapidx, segment, last_f_prefix,
                 addressing, walk>>

AddressSizePrefix ==
  /\ loc = "scan" /\ Has(1) /\ op = ADSIZE
  /\ Take("PREFIX", 1)
  /\ diagram' = [diagram EXCEPT !.asz = DefaultAddressSize \div 2]
  /\ UNCHANGED <<caller, result, loc, ret, nb, prefixes, addressing, walk>>

LockPrefix ==
  /\ loc = "scan" /\ Has(1) /\ op = LOCK
  /\ Take("PREFIX", 1)
  /\ diagram' = [diagram EXCEPT !.f0 = TRUE]
  /\ vfpc' = (vfpc + 1) % Wrap
  /\ UNCHANGED <<caller, result, loc, ret, nb, mapidx, segment, last_f_prefix,
                 addressing, walk>>

RepeatPrefix ==
  /\ loc = "scan" /\ Has(1) /\ op \in {REPNE, REP}
  /\ Take("PREFIX", 1)
  /\ last_f_prefix' = op
  /\ diagram' = [diagram EXCEPT !.f2 = @ \/ op = REPNE, !.f3 = @ \/ op = REP]
  /\ vfpc' = (vfpc + 1) % Wrap
  /\ UNCHANGED <<caller, result, loc, ret, nb, mapidx, segment, addressing, walk>>

\* decode_map: 0f, 0f 0f, 0f 38 or 0f 3a.  A two-byte map is stored as a uint16_t, low
\* byte first.
EscapeMap ==
  LET next == IF pc + 2 <= nb THEN ByteAt(pc + 1) ELSE 0
  IN  /\ loc = "scan" /\ Has(1) /\ op = ESCAPE
      /\ IF pc + 2 <= nb /\ next \in {15, 56, 58}
         THEN /\ mapidx' = CASE next = 15 -> "0F0F" [] next = 56 -> "0F38"
                              [] next = 58 -> "0F3A"
              /\ Advance(2) /\ AddBytecode("MAP", <<next, 15>>)
         ELSE mapidx' = "0F" /\ Advance(1) /\ AddBytecode("MAP", <<15>>)
      /\ loc' = "opcode"
      /\ UNCHANGED <<caller, result, ret, nb, vfpc, segment, last_f_prefix, diagram,
                     addressing, walk>>

-----------------------------------------------------------------------------
(* The vector prefixes.  A handler that rejects its bytes leaves the state *)
(* alone and the first byte is read again as an opcode (OpcodeByte).       *)

\* Mutant: one of the inverted bits is enough.
ExtensionsSome(payload) ==
  diagram.long_mode \/ Bit(payload, 7) \/ Bit(payload, 6) \/ Bit(payload, 5)

\* Outside long mode the inverted R, X and B bits must all be set.
ExtensionsAllowed(payload) ==
  diagram.long_mode \/ (Bit(payload, 7) /\ Bit(payload, 6) /\ Bit(payload, 5))

IsVex2 == op = VEX2 /\ Has(2) /\ (diagram.long_mode \/ Bit(ByteAt(pc + 1), 7))

IsVex3 == /\ op = VEX3 /\ Has(3)
          /\ ExtensionsAllowed(ByteAt(pc + 1))
          /\ ByteAt(pc + 1) % 32 \in DOMAIN VexMap

IsXop == /\ op = XOP /\ Has(3)
         /\ ExtensionsAllowed(ByteAt(pc + 1))
         /\ ByteAt(pc + 1) % 32 \in DOMAIN XopMap

\* The reserved bits that tell EVEX from MVEX.
EvexReserved == (ByteAt(pc + 1) \div 4) % 4 = 0 /\ Bit(ByteAt(pc + 2), 2)

IsEvex == /\ op = EVEX /\ Has(4) /\ EvexReserved
          /\ ExtensionsAllowed(ByteAt(pc + 1))
          /\ ByteAt(pc + 1) % 4 \in DOMAIN VexMap

IsMvex == /\ op = EVEX /\ Has(4) /\ ~EvexReserved /\ diagram.long_mode
          /\ ByteAt(pc + 1) % 16 \in DOMAIN MvexMap

\* Mutant: pc moves past the payload but not past the first byte.
VectorPayloadOnly(map, d, type, n) ==
  /\ loc = "scan" /\ loc' = "opcode"
  /\ mapidx' = map
  /\ diagram' = [d EXCEPT !.has_rex = TRUE]
  /\ Advance(n - 1) /\ AddBytecode(type, Bytes(pc, n))
  /\ UNCHANGED <<caller, result, ret, nb, vfpc, segment, last_f_prefix, addressing, walk>>

\* What every vector prefix does to the prefix state.
Vector(map, d, type, n) ==
  /\ loc = "scan" /\ loc' = "opcode"
  /\ mapidx' = map
  /\ diagram' = [d EXCEPT !.has_rex = TRUE]
  /\ Take(type, n)
  /\ UNCHANGED <<caller, result, ret, nb, vfpc, segment, last_f_prefix, addressing, walk>>

Vex2 ==
  /\ loc = "scan" /\ Has(1) /\ IsVex2
  /\ Vector("0F", [SetPP(diagram, ByteAt(pc + 1) % 4) EXCEPT !.enc = "VEX"], "VEX2", 2)

Vex3 ==
  LET p1 == ByteAt(pc + 1)
      p2 == ByteAt(pc + 2)
  IN  /\ loc = "scan" /\ Has(1) /\ IsVex3
      /\ Vector(VexMap[p1 % 32],
                [SetPP(SetW(diagram, Bit(p2, 7)), p2 % 4) EXCEPT !.enc = "VEX",
                                                                 !.x = Inverted(p1, 6)],
                "VEX3", 3)

\* XOP is recorded as a VEX3 bytecode; its pp is not looked at.
Xop ==
  LET p1 == ByteAt(pc + 1)
      p2 == ByteAt(pc + 2)
  IN  /\ loc = "scan" /\ Has(1) /\ IsXop
      /\ Vector(XopMap[p1 % 32],
                [SetW(diagram, Bit(p2, 7)) EXCEPT !.enc = "XOP", !.x = Inverted(p1, 6)],
                "VEX3", 3)

Evex ==
  LET p1 == ByteAt(pc + 1)
      p2 == ByteAt(pc + 2)
      p3 == ByteAt(pc + 3)
  IN  /\ loc = "scan" /\ Has(1) /\ IsEvex
      /\ Vector(VexMap[p1 % 4],
                [SetPP(SetW(diagram, Bit(p2, 7)), p2 % 4) EXCEPT
                    !.enc = "EVEX", !.x = Inverted(p1, 6), !.bp = Bit(p3, 4),
                    !.fb = Bit(p3, 4), !.aaa = p3 % 8],
                "EVEX", 4)

Mvex ==
  LET p1 == ByteAt(pc + 1)
      p2 == ByteAt(pc + 2)
      p3 == ByteAt(pc + 3)
  IN  /\ loc = "scan" /\ Has(1) /\ IsMvex
      /\ Vector(MvexMap[p1 % 16],
                [SetPP(SetW(diagram, Bit(p2, 7)), p2 % 4) EXCEPT
                    !.enc = "MVEX", !.x = Inverted(p1, 6), !.aaa = p3 % 8,
                    !.sss = (p3 \div 16) % 8],
                "MVEX", 4)

\* Any other byte, a REX byte outside long mode, or a vector prefix refused: the switch
\* is left and the byte under pc will be the opcode.
TakenForPrefix ==
  \/ IsRex \/ IsVex2 \/ IsVex3 \/ IsXop \/ IsEvex \/ IsMvex
  \/ op \in SegmentBytes \union {OPSIZE, ADSIZE, LOCK, REPNE, REP, ESCAPE}

OpcodeByte ==
  /\ loc = "scan" /\ (Has(1) => ~TakenForPrefix)
  /\ loc' = "opcode"
  /\ UNCHANGED <<caller, result, records, ret, nb, pc, prefixes, diagram, addressing, walk>>

-----------------------------------------------------------------------------
(* Opcode and lookup.                                                      *)

\* set_modrm_field.
SetModRM(d, modrm) ==
  [d EXCEPT !.mod = ModOf(modrm), !.reg = RegOf(modrm), !.rm = RmOf(modrm),
            !.modreg = ModOf(modrm) = 3]

NoOpcode ==
  /\ loc \in {"opcode", "opcode2"} /\ ~Has(1)
  /\ Fail
  /\ UNCHANGED <<caller, result, records, nb, pc, prefixes, diagram, addressing, walk>>

\* 3DNow! puts ModRM in front of the opcode.
ModRMFirst ==
  /\ loc = "opcode" /\ Has(1) /\ mapidx = "0F0F"
  /\ diagram' = SetModRM(diagram, op)
  /\ loc' = "modrm"
  /\ UNCHANGED <<caller, result, records, ret, nb, pc, prefixes, addressing, walk>>

\* Every other map: the opcode, and the byte behind it taken for a ModRM in advance.
\* A missing byte counts as 0.
OpcodeFirst ==
  /\ loc = "opcode" /\ Has(1) /\ mapidx # "0F0F"
  /\ Take("OPCODE", 1)
  /\ diagram' = [SetModRM(diagram, IF Has(2) THEN ByteAt(pc + 1) ELSE 0)
                   EXCEPT !.opcode = op]
  /\ loc' = "lookup"
  /\ UNCHANGED <<caller, result, ret, nb, prefixes, addressing, walk>>

OpcodeLast ==
  /\ loc = "opcode2" /\ Has(1)
  /\ Take("OPCODE", 1)
  /\ diagram' = [diagram EXCEPT !.opcode = op]
  /\ loc' = "lookup"
  /\ UNCHANGED <<caller, result, ret, nb, prefixes, addressing, walk>>

\* Mutant: the last of REX.W and 66 decides.
LastSizeWins == diagram

\* A legacy instruction with REX.W is 64-bit, whatever 66 said.
SizedDiagram ==
  [diagram EXCEPT !.osz = IF diagram.enc = "NONE" /\ diagram.w THEN 2 ELSE @]

\* In long mode a template may force 64 bits, or default to them.
ForcedSize(d, e) ==
  CASE d.long_mode /\ d.osz # 2 /\ e.size64 = "f64" -> 2
    [] d.long_mode /\ d.osz # 2 /\ e.size64 = "d64" -> IF d.p66 THEN 1 ELSE 2
    [] OTHER -> d.osz

\* An entry without ModRM clears the fields OpcodeFirst guessed.
EnteredDiagram(d, e) ==
  IF e.has_modrm THEN [d EXCEPT !.osz = ForcedSize(d, e)]
  ELSE [d EXCEPT !.osz = ForcedSize(d, e), !.mod = 0, !.reg = 0, !.rm = 0]

Lookup(map, d) ==
  LET found == {e \in Entries : /\ e.map = map /\ e.opcode = d.opcode /\ e.enc = d.enc
                                /\ \A s \in Selectors : d[s] \in e.when[s]}
  IN  IF found = {} THEN {FirstEntry} ELSE found

\* Mutant: is_undefined is assigned by the lookup instead of or-ed.
AssignedFlags(e) ==
  (flags \ {"undefined"}) \union {f \in {"undefined"} : e.encoding = 0}

\* What is_undefined becomes; encoding 0 is taken for `nothing found'.
LookUpFlags(e) ==
  flags \union {f \in {"undefined"} :
                   e.encoding = 0 \/ (diagram.enc # "NONE" /\ vfpc # 0)}

\* x86_lookup and what decode_entry does around it.  REX, 66, f0, f2 and f3 are
\* undefined together with a vector prefix.
LookUp ==
  /\ loc = "lookup"
  /\ \E e \in Lookup(mapidx, SizedDiagram) :
       /\ entry' = e
       /\ diagram' = EnteredDiagram(SizedDiagram, e)
       /\ flags' = LookUpFlags(e)
       /\ loc' = IF e.has_modrm /\ mapidx # "0F0F" THEN "modrm" ELSE "template"
  /\ UNCHANGED <<caller, insn, arguments, records, ret, nb, pc, prefixes, addressing,
                 node, slot, vmem, src_reg>>

-----------------------------------------------------------------------------
(* ModRM, SIB and displacement.                                            *)

\* Mutant: the answer is taken the wrong way round.
ModRMReturnsInverted(ok) ==
  IF mapidx = "0F0F"
  THEN IF ok THEN Fail ELSE loc' = "opcode2" /\ UNCHANGED ret
  ELSE loc' = "template" /\ UNCHANGED ret

\* decode_modrm returns: 3DNow! goes on to its opcode or gives up; decode_entry ignores
\* the answer everywhere else.
ModRMReturns(ok) ==
  IF mapidx = "0F0F"
  THEN IF ok THEN loc' = "opcode2" /\ UNCHANGED ret ELSE Fail
  ELSE loc' = "template" /\ UNCHANGED ret

\* What decode_modrm still reads when the SIB byte and its displacement are behind it.
AfterSib(d) ==
  IF DispSize(d.mod, d.rm) > 0
  THEN loc' = "disp" /\ diagram' = d /\ UNCHANGED ret
  ELSE diagram' = [d EXCEPT !.has_modrm = TRUE] /\ ModRMReturns(TRUE)

\* The byte is not peeked again: it is consumed even where the buffer has ended.
ModRM ==
  LET d == diagram
      relative == d.mod = 0 /\ d.rm = 5
      ip == d.long_mode /\ d.asz # 0
  IN  /\ loc = "modrm"
      /\ Advance(1)
      /\ AddBytecode("MODRM", <<ModRMByte(d.mod, d.reg, d.rm)>>)
      /\ addressing' = [addressing EXCEPT !.has_base = relative => ip,
                                          !.base_ip = relative /\ ip]
      /\ IF NeedsSib(d.mod, d.rm)
         THEN loc' = "sib" /\ UNCHANGED <<diagram, ret>>
         ELSE AfterSib(d)
      /\ UNCHANGED <<caller, result, nb, prefixes, walk>>

SibMissing ==
  /\ loc = "sib" /\ ~Has(1)
  /\ ModRMReturns(FALSE)
  /\ UNCHANGED <<caller, result, records, nb, pc, prefixes, diagram, addressing, walk>>

Sib ==
  LET d == [diagram EXCEPT !.index = IndexOf(op), !.base = BaseOf(op), !.has_sib = TRUE]
  IN  /\ loc = "sib" /\ Has(1)
      /\ Take("SIB", 1)
      /\ addressing' = [addressing EXCEPT
                          !.has_index = d.enc # "NONE" \/ d.x \/ d.index # 4,
                          !.has_base = @ /\ ~(d.base = 5 /\ d.mod = 0)]
      /\ IF SibDispSize(d.mod, d.base) > 0
         THEN loc' = "sibdisp" /\ diagram' = d /\ UNCHANGED ret
         ELSE AfterSib(d)
      /\ UNCHANGED <<caller, result, nb, prefixes, walk>>

\* decode_disp, called by decode_sib and then by decode_modrm.
DispMissing(n) ==
  /\ ~Has(n)
  /\ ModRMReturns(FALSE)
  /\ UNCHANGED <<records, pc, diagram>>

Disp(n, After(_)) ==
  /\ Has(n)
  /\ Take("DISP", n)
  /\ After([diagram EXCEPT !.has_disp = TRUE])

SibDisp ==
  /\ loc = "sibdisp"
  /\ LET n == SibDispSize(diagram.mod, diagram.base)
     IN  DispMissing(n) \/ Disp(n, AfterSib)
  /\ UNCHANGED <<caller, result, nb, prefixes, addressing, walk>>

ModRMDone(d) == diagram' = [d EXCEPT !.has_modrm = TRUE] /\ ModRMReturns(TRUE)

ModRMDisp ==
  /\ loc = "disp"
  /\ LET n == DispSize(diagram.mod, diagram.rm)
     IN  DispMissing(n) \/ Disp(n, ModRMDone)
  /\ UNCHANGED <<caller, result, nb, prefixes, addressing, walk>>

-----------------------------------------------------------------------------
(* The template and its argument nodes.                                    *)

\* Mutant: the flags of the hash code decide, f2 before f3.
FlagFunctionality ==
  CASE diagram.f2 -> entry.f2
    [] diagram.f3 -> entry.f3
    [] OTHER -> "NONE"

\* What the last f2 or f3 prefix means to this template.
Functionality ==
  CASE last_f_prefix = REPNE -> entry.f2
    [] last_f_prefix = REP   -> entry.f3
    [] OTHER -> "NONE"

\* The head of decode_template.
Template ==
  /\ loc = "template"
  /\ insn' = [insn EXCEPT !.iform = entry.template,
                          !.prefix_functionality = Functionality]
  /\ flags' = flags
       \union {f \in {"atomic"} : entry.lock /\ diagram.f0}
       \union {f \in {"acquiring"} : Functionality = "XACQUIRE"}
       \union {f \in {"releasing"} : Functionality = "XRELEASE"}
  /\ loc' = "nodes"
  /\ UNCHANGED <<caller, arguments, records, ret, nb, pc, prefixes, diagram, addressing,
                 walk>>

\* decode_template gave up; decode_entry ignores that and reports success.
GiveUp == loc' = "return" /\ ret' = TRUE /\ UNCHANGED <<node, slot>>

\* Mutant: every node takes a slot.
FillAlways(type) ==
  /\ node' = node + 1 /\ slot' = slot + 1
  /\ UNCHANGED <<loc, ret>>

\* A node decoded into the current slot; a slot whose type stays NONE is used again.
Fill(type) ==
  /\ node' = node + 1
  /\ slot' = IF type = "NONE" THEN slot ELSE slot + 1
  /\ UNCHANGED <<loc, ret>>

Set(type, base) ==
  arguments' = [arguments EXCEPT ![slot] = [type |-> type, base |-> base]]

\* The slots behind the array lie over insn.x86: record i is gone once they are written.
\* `bytecodes' keeps what add_bytecode wrote there.
Overlaid(i) == \/ slot > MaxArguments /\ i <= 6
               \/ slot > MaxArguments + 1 /\ i \in 6..12

\* The base register the slot held before: only decode_arg_mem writes it.
OldBase == arguments[slot].base

\* get_is4_value: the byte register and immediate share, read once; when it is missing
\* 0 is used.
TakeIs4 ==
  IF ~diagram.has_is4 /\ Has(1)
  THEN Take("IMM", 1) /\ diagram' = [diagram EXCEPT !.has_is4 = TRUE]
  ELSE UNCHANGED <<records, pc, diagram>>

At(types) == loc = "nodes" /\ node <= Len(entry.nodes) /\ entry.nodes[node].type \in types

Node == entry.nodes[node]

RegisterNode ==
  /\ At({"REG", "VREG", "PREG"})
  /\ IF Node.is4 THEN TakeIs4 ELSE UNCHANGED <<records, pc, diagram>>
  /\ Set("REGISTER", OldBase)
  /\ src_reg' = (src_reg \/ Node.read)
  /\ flags' = flags \union {f \in {"vector"} : Node.type = "VREG"}
                    \union {f \in {"predicated"} : Node.type = "PREG" /\ diagram.aaa # 0}
  /\ Fill("REGISTER")
  /\ UNCHANGED <<caller, insn, nb, prefixes, addressing, entry, vmem>>

\* Mutant: memory without a base leaves the field alone.
MemoryBaseKept ==
  IF ~addressing.has_base THEN OldBase
  ELSE IF addressing.base_ip /\ ~diagram.has_sib THEN "IP" ELSE "REG"

\* decode_arg_mem; AGEN and MIB turn it into an address.
MemoryBase ==
  IF ~addressing.has_base THEN "NONE"
  ELSE IF addressing.base_ip /\ ~diagram.has_sib THEN "IP" ELSE "REG"

MemoryNode ==
  /\ At({"MEM", "AGEN", "MIB"})
  /\ LET type == IF Node.type = "MEM" THEN "MEMORY" ELSE "ADDRESS"
     IN  Set(type, IF Node.encoded THEN MemoryBase ELSE "REG") /\ Fill(type)
  /\ vmem' = TRUE
  /\ flags' = flags \union {f \in {"load"} : Node.read} \union {f \in {"store"} : Node.write}
  /\ UNCHANGED <<caller, insn, records, nb, pc, prefixes, diagram, addressing, entry,
                 src_reg>>

\* decode_arg_imm and the nodes built on it: a value of the table, or n bytes of the
\* stream; a comparison predicate up to 31 stores a token, which lies over the slot's
\* base register and clears it; a shift or rotate count out of range is ugly.
ImmediateArgument ==
  CASE Node.type = "REL" -> "LABEL"
    [] Node.type = "CC"  -> "CONDITION"
    [] OTHER -> "IMMEDIATE"

MayBeUgly ==
  IF Node.type \in {"SHIFT", "ROTATE"} /\ src_reg
  THEN flags' \in {flags, flags \union {"ugly"}}
  ELSE UNCHANGED flags

Immediates == {"IMM", "REL", "CC", "SHIFT", "ROTATE"}

ImmediateNode ==
  LET n == Node.bytes[diagram.osz]
  IN  /\ At(Immediates) /\ (n = 0 \/ Has(n))
      /\ IF n > 0 THEN Take("IMM", n) ELSE UNCHANGED <<records, pc>>
      /\ Set(ImmediateArgument, IF Node.type = "CC" /\ op <= 31 THEN "NONE" ELSE OldBase)
      /\ MayBeUgly
      /\ Fill(ImmediateArgument)
      /\ UNCHANGED <<caller, insn, nb, prefixes, diagram, addressing, entry, vmem, src_reg>>

ImmediateMissing ==
  /\ At(Immediates)
  /\ Node.bytes[diagram.osz] > 0 /\ ~Has(Node.bytes[diagram.osz])
  /\ Set("IMMEDIATE", OldBase)
  /\ GiveUp
  /\ UNCHANGED <<caller, insn, flags, records, nb, pc, prefixes, diagram, addressing,
                 entry, vmem, src_reg>>

\* decode_arg_moffs: an absolute offset as wide as an address.
MoffsSize == CASE diagram.asz = 0 -> 2 [] diagram.asz = 1 -> 4 [] OTHER -> 8

MoffsNode ==
  /\ At({"MOFFS"})
  /\ Has(MoffsSize)
  /\ Take("DISP", MoffsSize)
  /\ Set("MEMORY", OldBase)
  /\ Fill("MEMORY")
  /\ flags' = flags \union {f \in {"load"} : Node.read} \union {f \in {"store"} : Node.write}
  /\ UNCHANGED <<caller, insn, nb, prefixes, diagram, addressing, entry, vmem, src_reg>>

MoffsMissing ==
  /\ At({"MOFFS"}) /\ ~Has(MoffsSize)
  /\ Set("NONE", OldBase)
  /\ GiveUp
  /\ UNCHANGED <<caller, insn, flags, records, nb, pc, prefixes, diagram, addressing,
                 entry, vmem, src_reg>>

\* Mutant: a 32-bit operand size has no far pointer.
NoDwordPtr == IF diagram.osz = 0 THEN 2 ELSE 0

\* decode_arg_ptr: a segment, then an offset; the segment stays consumed when the
\* offset is missing or the operand size has none.
PtrSize == CASE diagram.osz = 0 -> 2 [] diagram.osz = 1 -> 4 [] OTHER -> 0

PtrSegment ==
  /\ At({"PTR"})
  /\ Set("NONE", OldBase)
  /\ \/ Has(2) /\ Take("ABS_SEG", 2) /\ loc' = "ptr" /\ UNCHANGED <<ret, node, slot>>
     \/ ~Has(2) /\ GiveUp /\ UNCHANGED <<records, pc>>
  /\ UNCHANGED <<caller, insn, flags, nb, prefixes, diagram, addressing, entry, vmem,
                 src_reg>>

PtrOffset ==
  /\ loc = "ptr"
  /\ \/ /\ PtrSize > 0 /\ Has(PtrSize)
        /\ Take("DISP", PtrSize)
        /\ Set("PTR", OldBase)
        /\ loc' = "nodes" /\ node' = node + 1 /\ slot' = slot + 1 /\ UNCHANGED ret
     \/ /\ PtrSize = 0 \/ ~Has(PtrSize)
        /\ GiveUp
        /\ UNCHANGED <<arguments, records, pc>>
  /\ UNCHANGED <<caller, insn, flags, nb, prefixes, diagram, addressing, entry, vmem,
                 src_reg>>

\* decode_node_sae, decode_node_evh and decode_node_rc: no byte of their own.  The token
\* they store lies over the slot's base register and clears it.
Suppressing ==
  CASE Node.type = "SAE" -> diagram.bp
    [] Node.type = "RC" /\ diagram.enc = "EVEX" -> diagram.bp
    [] Node.type = "RC" /\ diagram.enc = "MVEX" -> diagram.sss >= 4
    [] Node.type = "EVH" -> "sae" \in flags
    [] OTHER -> FALSE

TokenNode ==
  LET type == IF Node.type = "RC" THEN "ROUNDING" ELSE Node.type
  IN  /\ At({"SAE", "EVH", "RC"})
      /\ flags' = IF Suppressing THEN flags \union {"sae"} ELSE flags \ {"sae"}
      /\ Set(type, "NONE")
      /\ Fill(type)
      /\ UNCHANGED <<caller, insn, records, nb, pc, prefixes, diagram, addressing, entry,
                     vmem, src_reg>>

\* decode_node_bcst, decode_node_sbcst and decode_node_swz qualify the memory argument
\* and leave the slot empty; a reserved conversion is undefined.  Their answers to tables
\* that qualify nothing (`db-error') are left out: see Qualified.
QualifierNode ==
  /\ At({"BCST", "SBCST", "SWZ"})
  /\ flags' = flags \union {f \in {"undefined"} :
                              Node.type = "SWZ" /\ vmem /\ diagram.sss \in Node.reserved}
  /\ Set("NONE", OldBase)
  /\ Fill("NONE")
  /\ UNCHANGED <<caller, insn, records, nb, pc, prefixes, diagram, addressing, entry, vmem,
                 src_reg>>

\* decode_nodes has met the NULL behind the last node; the rest of decode_template.
NodesDone ==
  /\ loc = "nodes" /\ node > Len(entry.nodes)
  /\ insn' = [insn EXCEPT !.argument_count = slot, !.encoding = entry.encoding]
  /\ flags' = flags \union {f \in {"branch"} : entry.branch}
                    \union {f \in {"unpredictable"} : entry.unpredictable}
  /\ loc' = "return" /\ ret' = TRUE
  /\ UNCHANGED <<caller, arguments, records, nb, pc, prefixes, diagram, addressing, walk>>

-----------------------------------------------------------------------------

\* A caller's amed_insn before the call: whatever an earlier call, or nothing, left in
\* it.  STALE marks what this call has not written.
STALE == -1

StaleInsn == [length |-> STALE, iform |-> STALE, encoding |-> STALE,
              argument_count |-> STALE, prefix_functionality |-> "NONE"]

Locations == {"call", "scan", "opcode", "opcode2", "lookup", "modrm", "sib", "sibdisp",
              "disp", "template", "nodes", "ptr", "return", "done"}

Init ==
  /\ memory \in Images
  /\ \E mode \in MachineModes, length \in Lengths :
       context = [machine_mode |-> mode, address |-> 0, length |-> length]
  /\ insn = StaleInsn
  /\ flags = Flags
  /\ \E base \in OldBases :
       arguments = [i \in 0..Slots - 1 |-> [type |-> "NONE", base |-> base]]
  /\ bytecodes = <<>>
  /\ bytecode_count \in OldCounts
  /\ loc = "call" /\ ret = FALSE
  /\ nb = 0 /\ pc = 0
  /\ vfpc = 0 /\ mapidx = "NONE" /\ segment = "NONE" /\ last_f_prefix = 0
  /\ diagram = BlankDiagram /\ addressing = NoBase
  /\ entry = FirstEntry /\ node = 1 /\ slot = 0 /\ vmem = FALSE /\ src_reg = FALSE

DiagramType ==
  [long_mode : BOOLEAN, asz : 0..2, osz : 0..2, w : BOOLEAN, p66 : BOOLEAN,
   f2 : BOOLEAN, f3 : BOOLEAN, f0 : BOOLEAN, fb : BOOLEAN, enc : Encodings,
   has_rex : BOOLEAN, x : BOOLEAN, bp : BOOLEAN, aaa : 0..7, sss : 0..7,
   mod : 0..3, reg : 0..7, rm : 0..7, modreg : BOOLEAN, index : 0..7, base : 0..7,
   opcode : Byte, has_modrm : BOOLEAN, has_sib : BOOLEAN, has_disp : BOOLEAN,
   has_is4 : BOOLEAN]

Written == Nat \union {STALE}

InsnType == [length : Written, iform : Written, encoding : Written,
             argument_count : Written, prefix_functionality : Functionalities]

BytecodeTypes == {"REX", "PREFIX", "MAP", "VEX2", "VEX3", "EVEX", "MVEX", "OPCODE",
                  "MODRM", "SIB", "DISP", "IMM", "ABS_SEG"}

CallerType ==
  /\ memory \in Seq(Byte)
  /\ context \in [machine_mode : MachineModes, address : Nat, length : Int]

ResultType ==
  /\ insn \in InsnType
  /\ flags \subseteq Flags
  /\ arguments \in [0..Slots - 1 -> [type : ArgumentTypes, base : Bases]]

RecordsType ==
  /\ bytecodes \in Seq([type : BytecodeTypes, bytes : Seq(Byte)])
  /\ bytecode_count \in Nat

PlaceType == loc \in Locations /\ ret \in BOOLEAN

CursorType == nb \in 0..Wrap - 1 /\ pc \in 0..Wrap - 1

PrefixesType ==
  /\ vfpc \in 0..Wrap - 1
  /\ mapidx \in Maps /\ segment \in Segments /\ last_f_prefix \in {0, REPNE, REP}

FieldsType ==
  /\ diagram \in DiagramType
  /\ addressing \in [has_base : BOOLEAN, has_index : BOOLEAN, base_ip : BOOLEAN]

WalkType ==
  /\ entry \in Entries
  /\ node \in 1..Slots + 1 /\ slot \in 0..Slots
  /\ vmem \in BOOLEAN /\ src_reg \in BOOLEAN

\* Every variable keeps its C type: pc, nb and vfpc are uint8_t, the node and slot stay
\* in the node list and in the memory of the arguments.
TypeOK ==
  /\ CallerType /\ ResultType /\ RecordsType /\ PlaceType
  /\ CursorType /\ PrefixesType /\ FieldsType /\ WalkType

Prefix ==
  \/ Rex \/ SegmentPrefix \/ OperandSizePrefix \/ AddressSizePrefix \/ LockPrefix
  \/ RepeatPrefix \/ EscapeMap \/ Vex2 \/ Vex3 \/ Xop \/ Evex \/ Mvex \/ OpcodeByte

Opcode == NoOpcode \/ ModRMFirst \/ OpcodeFirst \/ OpcodeLast \/ LookUp

Addressing == ModRM \/ SibMissing \/ Sib \/ SibDisp \/ ModRMDisp

Arguments ==
  \/ Template \/ RegisterNode \/ MemoryNode \/ ImmediateNode \/ ImmediateMissing
  \/ MoffsNode \/ MoffsMissing \/ PtrSegment \/ PtrOffset \/ TokenNode \/ QualifierNode
  \/ NodesDone

DecodeInsn == RejectEmpty \/ Begin \/ Prefix \/ Opcode \/ Addressing \/ Arguments \/ Return

\* The call has returned; nothing happens any more.
Finished == loc = "done" /\ UNCHANGED vars

Next == DecodeInsn \/ Finished

\* The decoder is one sequential call: it keeps running until it returns.
Spec == Init /\ [][Next]_vars /\ WF_vars(DecodeInsn)
=============================================================================
