--------------------------- MODULE X86Invariants ---------------------------
(***************************************************************************)
(* The inductive invariant behind the safety properties of X86Properties:  *)
(* what each place of the decoder may rely on.  X86Proofs.tla,             *)
(* X86SafetyProofs.tla and X86MeaningProofs.tla prove it.                  *)
(***************************************************************************)
EXTENDS X86Properties

BeforeNodes == {"call", "scan", "opcode", "opcode2", "lookup", "modrm", "sib", "sibdisp",
                "disp", "template"}

\* decode_nodes writes at most one slot per node it has passed, and a far pointer is
\* still on its node between segment and offset.
WalkInv ==
  /\ slot < node /\ node <= Len(entry.nodes) + 1
  /\ loc \in BeforeNodes => node = 1 /\ slot = 0
  /\ loc = "ptr" => node <= Len(entry.nodes) /\ Node.type = "PTR"

\* Nothing has been read that only a byte inside the buffer can give.
NothingRead == ~diagram.has_sib /\ ~diagram.has_disp /\ ~diagram.has_is4

\* Where the buffer ends behind the opcode the guessed ModRM is 0, so decode_modrm asks
\* for neither SIB nor displacement after it has run past the buffer; 3DNow! looked at
\* its ModRM before.
CursorInv ==
  /\ OvershootIsModRM
  /\ loc = "call" => pc = 0 /\ nb = 0
  /\ loc \in {"lookup", "modrm"} /\ mapidx # "0F0F" /\ pc = nb
       => diagram.mod = 0 /\ diagram.rm = 0
  /\ loc = "modrm" => IF mapidx = "0F0F" THEN pc < nb ELSE entry.has_modrm
  /\ loc \in {"scan", "opcode", "modrm"} => NothingRead
  /\ loc = "lookup" /\ mapidx # "0F0F" => NothingRead
  /\ loc = "opcode2" => mapidx = "0F0F"

\* Behind the lookup of an opcode whose map does not put ModRM in front of it.
LookedUp ==
  \/ loc \in {"modrm", "sib", "sibdisp", "disp", "template", "nodes", "ptr"}
  \/ loc \in {"return", "done"} /\ ret

\* vfpc counts no more prefixes than bytes were consumed, so it does not wrap; a
\* forbidden prefix leaves it above 0, and the lookup has turned that into `undefined'.
VectorInv ==
  /\ loc = "scan" => vfpc <= pc /\ diagram.enc = "NONE"
  /\ ForbiddenRecorded => vfpc > 0
  /\ mapidx = "0F0F" => diagram.enc = "NONE"
  /\ LookedUp /\ diagram.enc # "NONE" /\ vfpc # 0 => "undefined" \in flags

\* What a refusal, and a stale encoding, say of the place the buffer ended at.
AnswerInv ==
  /\ loc \in {"return", "done"} /\ ~ret =>
       context.machine_mode \notin {16, 32, 64} \/ pc + 4 > nb
  /\ loc \in {"return", "done"} /\ ret /\ insn.encoding = STALE =>
       pc + 8 > nb \/ (diagram.osz = 2 /\ Node.type = "PTR")

\* A buffer that fits nb is seen whole, and behind the opcode some of it is consumed.
LengthInv ==
  /\ loc # "call" => nb = context.length % Wrap
  /\ context.length \in 1..Wrap - 2 =>
       /\ mapidx = "0F0F" \/ LookedUp \/ loc = "lookup" => pc >= 1
       /\ loc = "done" /\ ret => insn.length = pc

-----------------------------------------------------------------------------
(* What the prefixes mean, as long as each of them was recorded.           *)

\* last_f_prefix and segment remember the last prefix of their kind.
PrefixInv ==
  ~Full =>
    /\ last_f_prefix = LastMet({REPNE, REP})
    /\ segment = IF Met(SegmentBytes) = {} THEN "NONE" ELSE SegmentOf[LastMet(SegmentBytes)]
    /\ (\E i, j \in Met(SegmentBytes) : i # j) => "ugly" \in flags

\* decode_template has been entered, and the call has not failed.
Entered == loc \in {"nodes", "ptr"} \/ (loc \in {"return", "done"} /\ ret)

FunctionalityInv ==
  /\ loc \in BeforeNodes \ {"call"} => flags \cap {"acquiring", "releasing"} = {}
  /\ Entered => /\ insn.prefix_functionality = Functionality
                /\ ~({"acquiring", "releasing"} \subseteq flags)

\* 3DNow! decodes ModRM before the lookup, all others behind it.
AheadOfLookUp ==
  \/ loc \in {"scan", "opcode", "opcode2", "lookup"}
  \/ mapidx = "0F0F" /\ loc \in {"modrm", "sib", "sibdisp", "disp"}

\* What the code makes of prefixes and template, without REX.W and a template of its own, and
\* with them.  It covers the two uses of 66 of which OperandSizeRule promises nothing: 32 bits
\* for a template that prefers 64, and 16 bits in 16-bit mode.
LegacySize == IF Has66 THEN 0 ELSE DefaultOperandSize

OperandSize ==
  CASE RexW \/ Forces64 -> 2
    [] ~RexW /\ Prefers64 -> IF Has66 THEN 1 ELSE 2
    [] OTHER -> LegacySize

\* Until the lookup osz follows 66 unless there is a REX.W, which the lookup looks at.
SizeInv ==
  ~Full /\ diagram.enc = "NONE" /\ OneRex =>
    /\ AheadOfLookUp => /\ diagram.w <=> RexW
                        /\ diagram.p66 <=> Has66
                        /\ ~RexW => diagram.osz = LegacySize
    /\ LookedUp /\ ~AheadOfLookUp => diagram.osz = OperandSize

\* The scan is over.
Scanned == loc \in {"opcode", "opcode2", "lookup"} \/ LookedUp

\* All that is consumed while prefixes are scanned is prefixes; behind them no handler of
\* a vector prefix takes a legacy form, and its first byte becomes the opcode.
LegacyInv ==
  ~Full =>
    /\ loc = "scan" => Met(Byte) = 1..pc /\ Len(bytecodes) = pc /\ mapidx = "NONE"
    /\ Scanned /\ IsLegacyForm(Behind) =>
         /\ diagram.enc = "NONE" /\ mapidx = "NONE"
         /\ IF loc = "opcode" THEN pc = Behind ELSE diagram.opcode = ByteAt(Behind)

-----------------------------------------------------------------------------
(* What the records are.                                                   *)

\* A ModRM guessed inside the buffer is the byte that decode_modrm will consume.
GuessInv ==
  (loc = "modrm" \/ (loc = "lookup" /\ mapidx # "0F0F")) /\ pc < nb =>
    ModRMByte(diagram.mod, diagram.reg, diagram.rm) = ByteAt(pc)

\* A record is at most eight bytes, so that pc does not wrap before the list is full.
TileInv ==
  /\ Len(bytecodes) <= bytecode_count
  /\ ~Full => pc <= 8 * Len(bytecodes)
  /\ ~Full /\ pc <= nb => Tiled

-----------------------------------------------------------------------------
(* What the arguments are.                                                 *)

\* The nodes passed show in the slots they are due; encoding is written behind the last.
ArgumentsInv ==
  /\ loc \notin {"return", "done"} => insn.encoding = STALE
  /\ loc \in {"nodes", "ptr"} =>
       /\ slot = SlotOf(node)
       /\ \A i \in Showing : i < node => Shows(i)
  /\ loc \in {"return", "done"} /\ ret /\ insn.encoding # STALE =>
       insn.argument_count = Cardinality(Showing) /\ \A i \in Showing : Shows(i)

-----------------------------------------------------------------------------
(* One call after another.                                                 *)

\* What a loop over the decoder may rely on.  Between two calls the cursor still lies where
\* the first one left it, possibly behind the buffer, so that what WalkInv and CursorInv
\* say of loc = "call" does not hold there; an empty buffer is refused before nb is cut.
LoopInv ==
  /\ TypeOK
  /\ IF loc = "call"
     THEN /\ slot < node /\ node <= Len(entry.nodes) + 1
          /\ pc <= nb + 1 /\ (pc > nb => entry.has_modrm /\ NothingRead)
     ELSE WalkInv /\ CursorInv
  /\ loc # "call" /\ context.length # 0 => LengthInv
  /\ loc # "call" /\ context.length = 0 => loc = "done" /\ ~ret
  /\ loc = "done" /\ ret => insn.length = pc
  /\ context.length <= Wrap - 2

-----------------------------------------------------------------------------

Inductive ==
  /\ TypeOK /\ WalkInv /\ CursorInv /\ VectorInv /\ AnswerInv /\ LengthInv
  /\ PrefixInv /\ FunctionalityInv /\ SizeInv /\ LegacyInv /\ GuessInv /\ TileInv
  /\ ArgumentsInv
=============================================================================
