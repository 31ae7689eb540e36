----------------------------- MODULE X86Stream -----------------------------
(***************************************************************************)
(* The loop of the examples (examples/example1.c) around the x86 decoder:  *)
(* one amed_context that moves through the buffer and one amed_insn used   *)
(* again for every instruction.  What a call leaves in the amed_insn is    *)
(* what the next call finds there.                                         *)
(***************************************************************************)
EXTENDS X86Properties

CONSTANT MaxAstray   \* bound: bytes the model follows the loop behind its buffer

ASSUME AstrayAssumption == MaxAstray \in Nat

VARIABLE printed     \* the instructions handed to amed_print_insn, in order

streamVars == <<vars, printed>>

StreamInit == Init /\ printed = <<>>

\* An argument as printed: memory has a base, but decode_arg_moffs keeps the one an
\* earlier instruction left in its slot.
Shown(a) ==
  LET moffs == \E i \in DOMAIN entry.nodes : entry.nodes[i].type = "MOFFS"
  IN  IF a.type \in {"MEMORY", "ADDRESS"} /\ ~moffs THEN a ELSE [a EXCEPT !.base = "NONE"]

\* What a reader of the amed_insn sees of it.
View ==
  [at |-> context.address, rest |-> context.length, length |-> insn.length,
   encoding |-> insn.encoding, iform |-> insn.iform, flags |-> flags,
   functionality |-> insn.prefix_functionality,
   arguments |-> [i \in 1..insn.argument_count |-> Shown(arguments[i - 1])]]

\* Mutant: the length that is left is forgotten.
AddressOnly(n) == [context EXCEPT !.address = @ + n]

\* address += insn.length, length -= insn.length.
Advanced(n) == [context EXCEPT !.address = @ + n, !.length = @ - n]

\* while (amed_decode_insn(pcontext, &insn)): the body of the loop, then the next call.
NextInsn ==
  /\ loc = "done" /\ ret /\ context.length >= -MaxAstray
  /\ context' = Advanced(insn.length)
  /\ printed' = Append(printed, View)
  /\ loc' = "call"
  /\ UNCHANGED <<memory, result, records, ret, nb, pc, prefixes, diagram, addressing,
                 walk>>

\* The loop has ended, or the model follows it no further.
Ended ==
  /\ loc = "done" /\ (ret => context.length < -MaxAstray)
  /\ UNCHANGED streamVars

Loop ==
  \/ DecodeInsn /\ UNCHANGED printed
  \/ NextInsn

StreamNext == Loop \/ Ended

\* Decoder and loop are one sequential program.
StreamSpec == StreamInit /\ [][StreamNext]_streamVars /\ WF_streamVars(Loop)

-----------------------------------------------------------------------------

\* The loop over the buffer is an InsnCursor: it moves forward, stays in the buffer but
\* for one byte, and ends.  This rests on every call returning, with a length above 0.
Cursor ==
  INSTANCE InsnCursor WITH Sizes <- Lengths, Slack <- 1, Longest <- Wrap - 1,
                           position <- context.address, rest <- context.length,
                           running <- ~(loc = "done" /\ ~ret)

StreamIsCursor == Cursor!Spec

\* The bytes of the i-th printed instruction.
PrintedBytes(i) ==
  [k \in 1..printed[i].length |->
     LET a == printed[i].at + k IN IF a \in DOMAIN memory THEN memory[a] ELSE Filler]

\* With this many bytes behind its first one no instruction of up to 15 is cut off.
Room == 23

\* The same bytes are the same instruction wherever they stand: what decode_entry fails
\* to initialise, and what an earlier instruction left in the amed_insn (flags, argument
\* types, base registers, indices), does not show in a later one.  The base of an
\* absolute address does show.
SameBytesSameInsn ==
  \A i, j \in DOMAIN printed :
    /\ printed[i].rest >= Room /\ printed[j].rest >= Room
    /\ PrintedBytes(i) = PrintedBytes(j)
    => [printed[i] EXCEPT !.at = 0, !.rest = 0] = [printed[j] EXCEPT !.at = 0, !.rest = 0]
=============================================================================
