--------------------------- MODULE X86Properties ---------------------------
(***************************************************************************)
(* What a call of amed_x86_decode_insn promises its caller, stated over    *)
(* the records it appended, the flags it set and the arguments it filled.  *)
(***************************************************************************)
EXTENDS X86Decoder, SequencesExt

Returned == loc = "done" /\ ret

\* The record list was full at the end: prefixes may have gone unrecorded.
Full == bytecode_count >= MaxBytecodes

\* The template's nodes were all decoded.
Complete == Returned /\ insn.encoding # STALE

Recorded(types) == SelectSeq(bytecodes, LAMBDA r : r.type \in types)

\* The records of prefixes whose byte is one of `bytes', and the last of these bytes, 0
\* if there is none.
Met(bytes) == {i \in DOMAIN bytecodes : /\ bytecodes[i].type \in {"PREFIX", "REX"}
                                       /\ bytecodes[i].bytes[1] \in bytes}

LastMet(bytes) ==
  LET met == Met(bytes)
  IN  IF met = {} THEN 0
      ELSE bytecodes[CHOOSE i \in met : \A j \in met : j <= i].bytes[1]

\* A prefix that is forbidden before a vector prefix was met.
ForbiddenRecorded ==
  \E i \in DOMAIN bytecodes : /\ bytecodes[i].type \in {"PREFIX", "REX"}
                             /\ bytecodes[i].bytes[1] \in ForbiddenBytes

\* The bytes of a record in stream order: a two-byte map is kept low byte first.
StreamBytes(r) == IF r.type = "MAP" THEN Reverse(r.bytes) ELSE r.bytes

-----------------------------------------------------------------------------
(* Safety.                                                                 *)

\* The bytes recorded before record i, each as the record it is in and its place there;
\* record i begins behind them.
Before(i) == UNION {{j} \X DOMAIN bytecodes[j].bytes : j \in 1..i - 1}
PlaceOf(i) == Cardinality(Before(i))

Tiled ==
  /\ PlaceOf(Len(bytecodes) + 1) = pc
  /\ \A i \in DOMAIN bytecodes :
       StreamBytes(bytecodes[i]) = Bytes(PlaceOf(i), Len(bytecodes[i].bytes))

\* The records of amed_insn.x86.bytecodes tile the instruction: laid end to end they are
\* the pc bytes the call consumed, none twice and none missing, while add_bytecode has
\* room, decode_modrm did not run past the buffer and no argument lies over the records.
BytecodesTile ==
  Returned /\ ~Full /\ pc <= nb /\ (\A i \in DOMAIN bytecodes : ~Overlaid(i)) => Tiled

\* The one place that consumes a byte without looking is decode_modrm: pc never leaves
\* the buffer by more than that ModRM, and then nothing more is read, neither SIB nor
\* displacement nor is4.
OvershootIsModRM ==
  /\ pc <= nb + 1
  /\ pc > nb =>
       /\ loc \in {"template", "nodes", "return", "done"}
       /\ entry.has_modrm
       /\ ~diagram.has_sib /\ ~diagram.has_disp /\ ~diagram.has_is4

\* `any use of REX, F0, F2, F3, 66 with EVEX/MVEX/VEX/XOP will UD': vfpc counts these
\* prefixes in a uint8_t, and however many there are the count is not 0 at the lookup.
ForbiddenPrefixUndefined ==
  Returned /\ diagram.enc # "NONE" /\ ForbiddenRecorded => "undefined" \in flags

\* Of several f2 and f3 prefixes the one closest to the opcode gives the prefix its
\* meaning (last_f_prefix), whatever other prefixes stand between; a call never ends up
\* both acquiring and releasing.
LastRepeatPrefixWins ==
  Returned /\ ~Full =>
    LET last == LastMet({REPNE, REP})
    IN  /\ insn.prefix_functionality = CASE last = REPNE -> entry.f2
                                         [] last = REP   -> entry.f3
                                         [] OTHER        -> "NONE"
        /\ ~({"acquiring", "releasing"} \subseteq flags)

\* Of several segment overrides the last one stands, and two or more make the
\* instruction ugly (add_segment), wherever they stand among the other prefixes.
SegmentOverride ==
  Returned /\ ~Full =>
    LET overrides == Met(SegmentBytes)
    IN  /\ segment = IF overrides = {} THEN "NONE" ELSE SegmentOf[LastMet(SegmentBytes)]
        /\ (\E i, j \in overrides : i # j) => "ugly" \in flags

\* What the prefixes of a legacy instruction say of its operand size.  With two REX prefixes
\* the code remembers the first W.
OneRex == \A i, j \in Met(RexBytes) : i = j
RexW   == Met(RexBytes) # {} /\ Bit(LastMet(RexBytes), 3)
Has66  == Met({OPSIZE}) # {}

\* In long mode a template may want 64 bits, always or by default.
Forces64 == diagram.long_mode /\ entry.size64 = "f64"
Prefers64 == diagram.long_mode /\ entry.size64 = "d64"

\* The operand size of a legacy instruction is the manual's, in whatever order the prefixes
\* stand and however often: 64 bits by REX.W or by the template, else what the mode gives, or
\* 16 where 66 overrides 32.  Of the other two uses of 66 nothing is promised, as the code does
\* not do what the manual says: with a template that only prefers 64 bits it leaves 32 where the
\* manual has 16 (html/target/x86/PUSH.html), and in 16-bit mode it leaves 16 where 66 selects 32.
OperandSizeRule ==
  Returned /\ ~Full /\ diagram.enc = "NONE" /\ OneRex =>
    /\ RexW \/ Forces64 => diagram.osz = 2
    /\ ~RexW /\ Prefers64 /\ ~Has66 => diagram.osz = 2
    /\ ~RexW /\ ~Forces64 /\ ~Prefers64 =>
         /\ ~Has66 => diagram.osz = DefaultOperandSize
         /\ Has66 /\ DefaultOperandSize = 1 => diagram.osz = 0

\* What a node leaves in its slot.
ArgumentOf(type) ==
  CASE type \in {"REG", "VREG", "PREG"} -> "REGISTER"
    [] type \in {"MEM", "MOFFS"} -> "MEMORY"
    [] type \in {"AGEN", "MIB"} -> "ADDRESS"
    [] type \in {"IMM", "SHIFT", "ROTATE"} -> "IMMEDIATE"
    [] type = "REL" -> "LABEL"
    [] type = "CC" -> "CONDITION"
    [] type = "RC" -> "ROUNDING"
    [] OTHER -> type

\* The nodes that show in an argument, and the slot each is due.
Showing == {i \in DOMAIN entry.nodes : entry.nodes[i].type \notin {"BCST", "SBCST", "SWZ"}}
SlotOf(i) == Cardinality({j \in Showing : j < i})
Shows(i) == arguments[SlotOf(i)].type = ArgumentOf(entry.nodes[i].type)

\* A complete instruction has one argument per node of its template, in order; the
\* qualifiers SBCST, BCST and SWZ leave no hole and the slot they used is used again.
ArgumentsMatchTemplate ==
  Complete => insn.argument_count = Cardinality(Showing) /\ \A i \in Showing : Shows(i)

\* argument_count and encoding keep what the caller left there only where the buffer
\* ends inside an operand, or a far pointer meets the 64-bit operand size: with 8 bytes
\* to spare everything else completes.
StaleOnlyWhenTruncated ==
  Returned /\ insn.encoding = STALE =>
    \/ pc + 8 > nb
    \/ diagram.osz = 2 /\ Node.type = "PTR"

\* The call refuses only what it could not read: fewer than 4 bytes are left, unless the
\* machine mode is none of the three.
RefusedOnlyWhenTruncated ==
  loc = "done" /\ ~ret =>
    context.machine_mode \notin {16, 32, 64} \/ pc + 4 > nb

\* Outside long mode c4, 62 and 8f with a memory operand are LES, BOUND and POP, and c5
\* with mod 0 or 1 is LDS: no vector prefix handler takes them, whatever its payload is.
IsLegacyForm(i) ==
  /\ ~diagram.long_mode /\ i + 1 < nb
  /\ \/ ByteAt(i) \in {VEX3, EVEX, XOP} /\ ByteAt(i + 1) < 192
     \/ ByteAt(i) = VEX2 /\ ByteAt(i + 1) < 128

\* Every prefix is one byte, so that their number is the place of the byte behind them.
Behind == Cardinality(Met(Byte))

LegacyFormsStay ==
  Returned /\ ~Full /\ IsLegacyForm(Behind)
    => diagram.enc = "NONE" /\ mapidx = "NONE" /\ diagram.opcode = ByteAt(Behind)

\* A caller that advances by length makes progress and stays within one byte of its
\* buffer, as long as the buffer is shorter than the uint8_t nb can say.
Progress ==
  Returned /\ context.length \in 1..Wrap - 2
    => insn.length \in 1..context.length + 1

-----------------------------------------------------------------------------
(* Steps and liveness.                                                     *)

\* pc and the records move together: a step that consumes bytes appends one record of
\* that many bytes unless the list is full, and no step appends without consuming.
AdvanceIsRecorded ==
  [][loc # "call" =>
       \/ pc' = pc /\ UNCHANGED records
       \/ Full /\ UNCHANGED records
       \/ /\ Len(bytecodes') = Len(bytecodes) + 1
          /\ pc' = (pc + Len(Last(bytecodes').bytes)) % Wrap]_vars

\* Every call returns, whatever its bytes: the prefix loop runs out of buffer.
Terminates == <>(loc = "done")
=============================================================================
