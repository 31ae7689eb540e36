----------------------------- MODULE MCAArch32 -----------------------------
(***************************************************************************)
(* Instances of the AArch32 decoder for TLC: the rows of AArch32Tables and *)
(* the words memory may hold.                                              *)
(***************************************************************************)
EXTENDS AArch32History, AArch32Tables

\* Data processing: MOV with an immediate (every rotation that shows, PC, NV, a word under
\* no mask, a word of no encoding), MOV with each shift by zero and not, PC and NV; ADR; bit fields with msb
\* above, at and below lsb; undefined words.
Arithmetic ==
  {W(\he3a0, \h1004), W(\he3a0, \h140f), W(\he3a0, \h1fff), W(\he3a0, \hf001),
   W(\h03a0, \h2001), W(\hf100, \h0001), W(\he3a1, \h1004), W(\he1a0, \h1002), W(\he1a0, \h1082),
   W(\he1a0, \h1022), W(\he1a0, \h1042), W(\he1a0, \h10e2), W(\he1a0, \hf00e),
   W(\he1a0, \h100f), W(\hf1a0, \h0001), W(\h11a0, \h1001), W(\he1a0, \h1312),
   W(\he1a0, \h8f51),
   W(\he28f, \h1010), W(\he28f, \h1fff), W(\he7c7, \h121f), W(\he7c2, \h121f),
   W(\he7df, \h101f), W(\he7c7, \hf21f), W(\he7a7, \h1251)}

\* Loads and stores: offsets added, subtracted, shifted, before and after the access; PC
\* as base, written back or not, destination and offset; POP; register pairs, lists with base, SP and PC.
Transfers ==
  {W(\he591, \h2004), W(\he511, \h2fff), W(\he591, \hf004), W(\he491, \h2004),
   W(\he49d, \h1004), W(\he49d, \hf004), W(\he411, \hf0ff), W(\he48f, \h1004), W(\he791, \h2003),
   W(\he711, \h2063), W(\he791, \h2043), W(\he791, \h2023), W(\he791, \h200f),
   W(\he161, \h2fd4), W(\he161, \h30d0), W(\he161, \he0d0), W(\he161, \hf0d0), W(\he16f, \h4fd8),
   W(\he891, \h0006), W(\he8bd, \h0006), W(\he8bd, \h8010), W(\he8b1, \h003e),
   W(\he8bd, \h00f8), W(\he8bd, \h0010), W(\he89f, \h0006), W(\he191, \h1e9f)}

\* Branches, exceptions, barriers and banked registers.
System ==
  {W(\hea00, \h0001), W(\heaff, \hfffe), W(\h0a00, \h0010), W(\hea80, \h0000),
   W(\heb00, \h0000), W(\hebff, \hffff), W(\he12f, \hff11), W(\he12f, \hff1f),
   W(\he120, \h0011), W(\hf108, \h0040), W(\hf108, \h0000), W(\hf108, \h01c0),
   W(\hf57f, \hf05f), W(\hf57f, \hf050), W(\hf57f, \hf05b), W(\he100, \h1200),
   W(\he107, \h1200), W(\he140, \hf300), W(\hecc1, \h6dce)}

\* Vectors: modified immediates of every cmode group, lists that end the bank or not.
Vectors ==
  {W(\hf287, \h0015), W(\hf287, \h0615), W(\hf280, \h0810), W(\hf280, \h0e10),
   W(\hf282, \h0e35), W(\hf280, \h0f10), W(\hf286, \h0f10), W(\hf280, \h0c15),
   W(\hf280, \h0d15), W(\heeb7, \h0a00), W(\heef0, \h0a08), W(\heeb7, \h0aa0), W(\hfeb0, \h0a00),
   W(\hec91, \h0a04), W(\hecb1, \h0a21), W(\hecbd, \h0a02), W(\hecd1, \h0a00),
   W(\hecd1, \hfa02), W(\hec91, \h0b04), W(\hecd1, \hfb06), W(\hecbd, \h0b04),
   W(\hecd1, \h0b00), W(\hf421, \h070f), W(\hf421, \h071f), W(\hf421, \h072f),
   W(\hf461, \hf7cf), W(\hf42f, \h070f), W(\hf421, \h0a0f), W(\hf461, \hfa0f), W(\hee50, \h0b10), W(\hee10, \h0b30),
   W(\hee90, \h0b30), W(\hee10, \h0b10), W(\hee10, \h0b50), W(\hee10, \hfb10),
   W(\hf221, \h1111), W(\hf222, \h1113)}

\* Thumb in 16 bits: IT with masks of each length, and what may stand in its block.
Narrow ==
  {H(\hbf08), H(\hbf18), H(\hbf04), H(\hbf1a), H(\hbf01), H(\h4148), H(\hc806), H(\hc803),
   H(\hd0fe), H(\hd180), H(\he7fe), H(\he3ff), H(\h4770), H(\h4778), H(\h4771), H(\h4687), H(\h4608), H(\h4088),
   H(\hb633)}

\* Thumb in 32 bits, as the half-words lie in memory.
Wide ==
  {W(\hf800, \hf000), W(\hd000, \hf000), W(\hfffe, \hf7ff), W(\hf800, \hf400),
   W(\h0203, \hf041), W(\h1203, \hf041), W(\h2203, \hf041), W(\h3203, \hf041), W(\h72ff, \hf441),
   W(\h2b04, \hf841), W(\h3b9b, \hf84f), W(\hfb04, \hf841),
   W(\h0006, \he891), W(\h8010, \he8bd), W(\h00ff, \he8bd), W(\h8f5f, \hf3bf),
   W(\hb03e, \hfbc0)}

WordsByMode == A32 :> Arithmetic \union Transfers \union System \union Vectors
                 @@ THUMB :> Narrow \union Wide @@ 0 :> {}

-----------------------------------------------------------------------------
(* TLC evaluates a definition once, and what a constant stands for every   *)
(* time it is used: the constants stand for names of definitions.          *)

MCWords == WordsByMode
MCEncodings == EncodingRows
MCTemplates == TemplateRows
=============================================================================
