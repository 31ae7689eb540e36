----------------------------- MODULE MCAArch64 -----------------------------
(***************************************************************************)
(* Instances of the AArch64 decoder for TLC: the rows of AArch64Tables and *)
(* the words memory may hold.                                              *)
(***************************************************************************)
EXTENDS AArch64Properties, AArch64Tables

\* Addition, with shifts and extensions of every kind, of SP, and with shifts no table has; the
\* aliases NEG, CMN and MOV of them; ADR and ADRP; selection, with CINC and CSET.
Arithmetic ==
  {W(\h9100, \h0420), W(\h9100, \h043f), W(\h9100, \h03fd), W(\h9140, \h0420),
   W(\h8b20, \h63e0), W(\h8b21, \hc820), W(\h8b21, \h7c20), W(\h8b20, \h43e0),
   W(\h8b3f, \h6021), W(\hcb02, \h0020), W(\hcbc2, \h0020), W(\hcb02, \h03e0),
   W(\hcb82, \h17e0), W(\hcbd6, \ha9f5), W(\hcbcc, \h47fe), W(\hab02, \h003f),
   W(\hab02, \h0020), W(\habde, \h415f), W(\h1000, \h0020), W(\h70ff, \hffe0),
   W(\h9000, \h0020), W(\hb0ff, \hffe1), W(\h1a82, \h0420), W(\h1a81, \h1420),
   W(\h1a9f, \h17e0), W(\h1a82, \he420), W(\h1a9f, \he7e0)}

\* Logical immediates of every element size, rotated or not, of ones only, and of no element; wide
\* ones in each halfword, of zeros and of ones; bit fields that wrap around and do not.
Immediates ==
  {W(\hb240, \h1c20), W(\hb240, \h0fe0), W(\hb27f, \h03e0), W(\hb200, \hf3e0),
   W(\hb200, \h3fe0), W(\hb200, \hf7e0), W(\hb200, \hffe0), W(\hb240, \hffe0),
   W(\hb250, \h3fe0), W(\hb241, \h3fe0), W(\hb243, \h03e0), W(\h1200, \h1c20),
   W(\h1201, \hf020), W(\h1203, \hcc20), W(\h1205, \ha820), W(\h1200, \hfc20),
   W(\h1210, \h4020), W(\h5280, \h0020), W(\h52a0, \h0020), W(\h52a0, \h0000),
   W(\h52bf, \hffe0), W(\h9280, \h0020), W(\h92e0, \h0020), W(\h92a0, \h0000),
   W(\h1280, \h0020), W(\h12bf, \hffe0), W(\h12a0, \h0020), W(\h129f, \hffe0),
   W(\hd340, \hfc20), W(\hd343, \hfc20), W(\hd37d, \hf020), W(\hd37c, \h0c20),
   W(\hd37f, \h7c20), W(\hd344, \h1c20), W(\hd340, \h1c20), W(\hd340, \h7c20),
   W(\hb37c, \h0fe0), W(\hb37c, \h0c20), W(\hb344, \h1c20), W(\h9343, \hfc20),
   W(\h937c, \h0c20), W(\h9344, \h1c20), W(\h9340, \h1c20), W(\h9340, \h3c20),
   W(\h9340, \h7c20)}

\* Loads before, after and without a write back, with each extension of the offset and with those
\* no table has; pairs of registers, even and odd, and at the end of the bank.
Transfers ==
  {W(\hf840, \h8420), W(\hf85f, \h8c20), W(\hf940, \h0420), W(\hf940, \h07ff),
   W(\hf862, \h6820), W(\hf862, \h4820), W(\hf862, \hd820), W(\hf862, \hf820),
   W(\hf862, \h0820), W(\ha940, \h0820), W(\ha97f, \h7be0), W(\h38a2, \h4820),
   W(\h38bf, \h3a11), W(\h38a2, \hf820), W(\h4820, \h7c20), W(\h4821, \h7c22),
   W(\h483f, \h7c3e), W(\h483e, \h7c20), W(\hf980, \h0020), W(\hf980, \h003f),
   W(\hf980, \h0026), W(\hf980, \h000d)}

\* Branches, with a condition up to NV, exceptions, system registers, fields of PSTATE, barriers
\* and targets, with and without a name; words of no encoding, and of the undefined one.
System ==
  {W(\h5400, \h0020), W(\h5400, \h002e), W(\h5400, \h002f), W(\h54ff, \hffe1),
   W(\h1400, \h0001), W(\h17ff, \hffff), W(\h3600, \h0020), W(\hb6ff, \hffe1),
   W(\hd664, \h5fa9), W(\hd61f, \h0020), W(\h5400, \h0010), W(\h1240, \h0c20), H(\h0),
   H(\hffff), W(\h0001, \h0000), W(\h6300, \h0000), W(\hd52b, \h7421), W(\hd538, \h1000),
   W(\hd518, \h1001), W(\hd530, \h1000), W(\hd500, \h40bf), W(\hd503, \h4fdf),
   W(\hd501, \h401f), W(\hd500, \h40df), W(\hd503, \h3bbf), W(\hd503, \h30bf),
   W(\hd503, \h34bf), W(\hd420, \h0020), W(\hd503, \h241f), W(\hd503, \h245f),
   W(\hd503, \h24df)}

\* Vector immediates, lists that pass the last register, elements, shifts, and the templates the
\* size of a lane leaves without a match; scalable vectors and predicates.
Vectors ==
  {W(\h1e2e, \h1000), W(\h1e3c, \h1000), W(\h9eaf, \h0020), W(\h0f00, \h0420),
   W(\h4f00, \h2421), W(\h4f07, \h6420), W(\h6f00, \hf400), W(\h6f03, \hf60f),
   W(\h0e02, \h23e0), W(\h4e02, \h2020), W(\h4e02, \h23e0), W(\h2e02, \h0820),
   W(\h2e09, \h4a99), W(\h6e02, \h4820), W(\h0d40, \h0020), W(\h4d40, \h1c20),
   W(\h4d40, \h1c3f), W(\h5f41, \h5420), W(\h5f00, \h5420), W(\h5f7f, \h0420),
   W(\h5f40, \h0420), W(\h9ed8, \hfc20), W(\h9ed8, \h0020), W(\h0421, \h5020),
   W(\h043f, \h57ff), W(\h0422, \ha020), W(\h0422, \hac20), W(\ha401, \h4020),
   W(\ha41f, \h5fff), W(\hc441, \hc020), W(\h2518, \he3e0), W(\h2558, \he200),
   W(\h2518, \he1c0), W(\h25d8, \he000), W(\h0430, \he3e0), W(\h0433, \he020),
   W(\h0430, \he1c0), W(\h8580, \h0020), W(\h85bf, \h1fef), W(\h0551, \hc020),
   W(\h0511, \hc020), W(\h0515, \hc7dd), W(\h05c0, \h0020), W(\h05c2, \h0000),
   W(\h05c0, \h07e0), W(\h05c0, \h06e0), W(\h05c0, \h07a0), W(\h05c3, \hffe0)}

AllWords == Arithmetic \union Immediates \union Transfers \union System \union Vectors

-----------------------------------------------------------------------------
(* TLC evaluates a definition once, and what a constant stands for every   *)
(* time it is used: the constants stand for names of definitions.          *)

MCWords == AllWords
MCEncodings == EncodingRows
MCTemplates == TemplateRows
=============================================================================
