--------------------------- MODULE MCX86Stream ---------------------------
(***************************************************************************)
(* Instances of the examples' loop for TLC: buffers that hold one          *)
(* instruction twice, with another between them.                           *)
(***************************************************************************)
EXTENDS X86Stream, X86Tables

\* NOP, MOV between registers, MOV with base and without (in long mode IP), LOCK ADD,
\* REPNE REP MOVSB, LEA, moffs, CMPPS with and without base, PUSH, PUSHAD (undefined in
\* long mode), a VEX instruction behind 66, and one without row.
Insns ==
  {<<144>>, <<72, 139, 192>>, <<139, 71, 8>>, <<139, 5, 1, 2, 3, 4>>, <<240, 1, 8>>,
   <<242, 243, 164>>, <<46, 141, 4, 201>>, <<103, 161, 1, 2, 3, 4>>, <<15, 194, 193, 40>>,
   <<15, 194, 3, 2>>, <<102, 104, 1, 2>>, <<96>>, <<102, 197, 240, 88, 194>>, <<6>>}

Sandwiches == {i \o j \o i : i \in Insns, j \in Insns}

StreamLengths == {1, 3, 6, 38}
=============================================================================
