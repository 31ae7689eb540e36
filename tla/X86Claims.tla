----------------------------- MODULE X86Claims -----------------------------
(***************************************************************************)
(* What comments, headers, tests and the instruction manual shipped in     *)
(* html/ say of the decoder where the code does something else.  Each      *)
(* claim is quoted in a finding and refuted by a run of its own, on the    *)
(* one byte image below it.                                                *)
(***************************************************************************)
EXTENDS X86Properties, X86Tables, FiniteSets

\* test/db/x86/AVX2GATHER.pl: a SIB operand has one displacement byte for mod 1, four for
\* mod 2.  With base 5 decode_sib takes them and decode_modrm takes as many again.
OneDisplacement ==
  Complete => Len(Recorded({"DISP"})) <= Cardinality({i \in DOMAIN entry.nodes :
                                             entry.nodes[i].type \in {"MEM", "AGEN", "MIB"}
                                             /\ entry.nodes[i].encoded})

Gather == {<<196, 226, 233, 146, 76, 125, 0>>}

\* amed.h, `amed_argument arguments[8]': the operands of an instruction fit.  PUSHAD has
\* ten; the last two are written over insn.x86.bytecodes.
ArgumentsFit == slot <= MaxArguments

PushadImage == {<<96>>}
=============================================================================
