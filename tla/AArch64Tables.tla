---------------------------- MODULE AArch64Tables ----------------------------
(***************************************************************************)
(* Rows of the generated tables (source/aarch64/include/: encodings.inc,   *)
(* templates.inc, argument.inc, tables.inc, lookup-a64.inc) for the words  *)
(* the model checker decodes, under their names and indices.  Nodes that   *)
(* differ in their datatype only are one.                                  *)
(***************************************************************************)
EXTENDS AArch64Decoder

\* Words in hexadecimal, by their half-words.
H(low) == Bits(low, 16)
W(high, low) == H(low) \union {b + 16 : b \in H(high)}

Reg(bank, enc, attrs) == Leaf("REG", bank, enc, attrs)
Imm(enc, attrs) == Leaf("IMM", "other", enc, attrs)

-----------------------------------------------------------------------------
(* tables.inc *)

tbl_shifter == 0 :> Tv("LSL", 0) @@ 1 :> Tv("LSL", 12)
tbl_extend1 == 0 :> Tv("UXTB", 0) @@ 1 :> Tv("UXTH", 0) @@ 2 :> Tv("UXTW", 0) @@
  3 :> Tv("LSL", 0) @@ 4 :> Tv("SXTB", 0) @@ 5 :> Tv("SXTH", 0) @@ 6 :> Tv("SXTW", 0) @@
  7 :> Tv("SXTX", 0)
tbl_shift0 == 0 :> Tv("LSL", 0) @@ 1 :> Tv("LSR", 0) @@ 2 :> Tv("ASR", 0)
tbl_imm7 == 0 :> Tv(0, 0) @@ 1 :> Tv(3, 0)
tbl_extend3 == 2 :> Tv("UXTW", 0) @@ 3 :> Tv("LSL", 0) @@ 6 :> Tv("SXTW", 0) @@
  7 :> Tv("SXTX", 0)
tbl_extend2 == 2 :> Tv("UXTW", 0) @@ 6 :> Tv("SXTW", 0) @@ 7 :> Tv("SXTX", 0)
tbl_pstatefield == 3 :> Tv(8, 0) @@ 4 :> Tv(4, 0) @@ 5 :> Tv(5, 0) @@ 25 :> Tv(6, 0) @@
  26 :> Tv(3, 0) @@ 28 :> Tv(7, 0) @@ 30 :> Tv(2, 0) @@ 31 :> Tv(1, 0)
tbl_bti_op == 0 :> Tv(0, 0) @@ 1 :> Tv(1, 0) @@ 2 :> Tv(2, 0) @@ 3 :> Tv(3, 0)
tbl_imm2 == 0 :> Tv(0, 0) @@ 1 :> Tv(8, 0) @@ 2 :> Tv(16, 0) @@ 3 :> Tv(24, 0)
tbl_imm9 == 0 :> Tv(0, 0) @@ 1 :> Tv(1, 0) @@ 2 :> Tv(2, 0) @@ 3 :> Tv(3, 0)
\* Between the named patterns lie numbers without a name.
PatternNames == <<4, 5, 8, 10, 12, 13, 14, 16, 17, 7, 11, 15, 6, 9>>
tbl_pattern == 29 :> Tv(3, 0) @@ 30 :> Tv(2, 0) @@ 31 :> Tv(1, 0) @@
  [e \in 0..13 |-> Tv(PatternNames[e + 1], 0)] @@ [e \in 14..28 |-> Unnamed(18)]

-----------------------------------------------------------------------------
(* argument.inc *)

reg8 == Reg("GPR64", Span(4, 0), {"sp", "write"})
reg9 == Reg("GPR64", Span(9, 5), {"sp", "read"})
shifter2 == Tabled(Leaf("SHIFTER", "other", <<22>>, {}), tbl_shifter)
immsh0 == Compound("IMMSH", [imm |-> Imm(Span(21, 10), {}), shifter |-> shifter2], {})
reg5 == Reg("GPR64", Span(20, 16), {"read"})
extend1 == Tabled(Leaf("EXTEND", "other", Span(15, 13), {}), tbl_extend1)
shifter1 == Compound("SHIFTER", [amount |-> Leaf("AMOUNT", "other", Span(12, 10), {}),
  shift |-> extend1], {})
regsh1 == Compound("REGSH", [reg |-> reg5, shifter |-> shifter1], {})
reg2 == Reg("GPR32", Span(20, 16), {"read"})
regsh2 == Compound("REGSH", [reg |-> reg2, shifter |-> shifter1], {})
reg3 == Reg("GPR64", Span(4, 0), {"write"})
reg4 == Reg("GPR64", Span(9, 5), {"read"})
shift0 == Tabled(Leaf("SHIFT", "other", Span(23, 22), {}), tbl_shift0)
shifter3 == Compound("SHIFTER", [amount |-> Leaf("AMOUNT", "other", Span(15, 10), {}),
  shift |-> shift0], {})
regsh4 == Compound("REGSH", [reg |-> reg5, shifter |-> shifter3], {})
imm4 == Leaf("IMM", "aimm", <<22>> \o Span(15, 10) \o Span(21, 16), {})
reg1 == Reg("GPR32", Span(9, 5), {"read"})
reg0 == Reg("GPR32", Span(4, 0), {"write"})
imm7 == Imm(Span(20, 5), {})
shift2 == Fixed("SHIFT", "LSL", {})
shifter14 == Compound("SHIFTER", [amount |-> Times(Leaf("AMOUNT", "other", Span(22, 21),
  {}), 16), shift |-> shift2], {})
immsh1 == Compound("IMMSH", [imm |-> imm7, shifter |-> shifter14], {})
imm5 == Imm(Span(21, 16), {})
imm6 == Imm(Span(15, 10), {})
base0 == Leaf("BASE", "GPR64", Span(9, 5), {"sp", "read"})
immoff7 == Leaf("IMMOFF", "other", Span(20, 12), {"signpos"})
mem73 == Compound("MEM", [base |-> base0, regoff |-> immoff7], {"read", "post_indexed"})
mem75 == Compound("MEM", [base |-> base0, regoff |-> immoff7], {"read", "pre_indexed"})
mem77 == Compound("MEM", [base |-> base0, regoff |-> Times(Leaf("IMMOFF", "other",
  Span(21, 10), {}), 8)], {"read"})
extend2 == Tabled(Leaf("EXTEND", "other", Span(15, 13), {}), tbl_extend3)
shifter6 == Compound("SHIFTER", [amount |-> Tabled(Leaf("AMOUNT", "other", <<12>>, {}),
  tbl_imm7), shift |-> extend2], {})
regoffsh2 == Compound("REGOFFSH", [reg |-> reg2, shifter |-> shifter6], {})
mem80 == Compound("MEM", [base |-> base0, regoff |-> regoffsh2], {"read"})
regoffsh3 == Compound("REGOFFSH", [reg |-> reg5, shifter |-> shifter6], {})
mem81 == Compound("MEM", [base |-> base0, regoff |-> regoffsh3], {"read"})
immoff4 == Times(Leaf("IMMOFF", "other", Span(21, 15), {"signpos"}), 8)
mem64 == Compound("MEM", [base |-> base0, regoff |-> immoff4], {"read"})
mem20 == Compound("MEM", [base |-> base0, regoff |-> Fixed("IMMOFF", 0, {})], {"read",
  "write"})
extend3 == Tabled(Leaf("EXTEND", "other", Span(15, 13), {}), tbl_extend2)
shifter10 == Compound("SHIFTER", [amount |-> Leaf("AMOUNT", "other", <<12>>, {}),
  shift |-> extend3], {})
regoffsh9 == Compound("REGOFFSH", [reg |-> reg2, shifter |-> shifter10], {})
mem101 == Compound("MEM", [base |-> base0, regoff |-> regoffsh9], {"read"})
regoffsh10 == Compound("REGOFFSH", [reg |-> reg5, shifter |-> shifter10], {})
mem102 == Compound("MEM", [base |-> base0, regoff |-> regoffsh10], {"read"})
label1 == Times(Leaf("LABEL", "other", Span(23, 5), {"signpos"}), 4)
label2 == Times(Leaf("LABEL", "other", Span(25, 0), {"signpos"}), 4)
imm20 == Imm(<<31>> \o Span(23, 19), {})
label3 == Times(Leaf("LABEL", "other", Span(18, 5), {"signpos"}), 4)
reg14 == Reg("GPR64", Span(4, 0), {"read"})
addr0 == Leaf("ADDR", "other", Span(23, 5) \o Span(30, 29), {"signpos"})
label0 == Times(Leaf("LABEL", "other", Span(23, 5) \o Span(30, 29), {"signpos"}), 4096)
sysreg0 == Leaf("SYSREG", "other", Span(11, 8) \o Span(15, 12) \o Span(19, 16) \o Span(7, 5),
  {})
pstatefield0 == Tabled(Leaf("PSTATEFIELD", "other", Span(18, 16) \o Span(7, 5), {}),
  tbl_pstatefield)
bti_op0 == Tabled(Leaf("BTI_OP", "other", Span(7, 6), {}), tbl_bti_op)
reg107 == Reg("VECREG", Span(4, 0), {"write"})
ereg11 == Compound("EREG", [idx |-> Fixed("IDX", 1, {}), reg |-> reg107], {})
vreg8 == Compound("VREG", [reg |-> reg107], {})
amount13 == Tabled(Leaf("AMOUNT", "other", Span(14, 13), {}), tbl_imm2)
shifter18 == Compound("SHIFTER", [amount |-> amount13, shift |-> shift2], {})
immsh4 == Compound("IMMSH", [imm |-> Imm(Span(18, 16) \o Span(9, 5), {}),
  shifter |-> shifter18], {})
imm48 == Leaf("IMM", "advimm", <<29>> \o Span(15, 12) \o Span(18, 16) \o Span(9, 5), {})
reg59 == Reg("VECREG", Span(9, 5), {"read"})
vbase16 == Compound("VBASE", [reg |-> reg59], {})
vlist64 == Compound("VLIST", [count |-> Fixed("COUNT", 2, {}), base |-> vbase16], {})
vreg14 == Compound("VREG", [reg |-> Reg("VECREG", Span(20, 16), {"read"})], {})
vreg1 == Compound("VREG", [reg |-> reg59], {})
count0 == Fixed("COUNT", 1, {})
ebase0 == Compound("EBASE", [idx |-> Leaf("IDX", "other", <<30>> \o Span(12, 10), {}),
  reg |-> reg107], {})
elist0 == Compound("ELIST", [count |-> count0, base |-> ebase0], {})
mem313 == Compound("MEM", [base |-> base0], {"read"})
reg56 == Reg("SIMD64", Span(4, 0), {"write"})
reg57 == Reg("SIMD64", Span(9, 5), {"read"})
reg174 == Reg("SVEREG", Span(4, 0), {"write"})
vreg93 == Compound("VREG", [reg |-> reg174], {})
vbase18 == Compound("VBASE", [reg |-> Reg("SVEREG", Span(9, 5), {"read"})], {})
amount20 == Tabled(Leaf("AMOUNT", "other", Span(11, 10), {}), tbl_imm9)
shifter28 == Compound("SHIFTER", [amount |-> amount20, shift |-> Fixed("EXTEND", "SXTW",
  {})], {})
reg185 == Reg("SVEREG", Span(20, 16), {"read"})
vreg104 == Compound("VREG", [reg |-> reg185], {})
vregoffsh2 == Compound("VREGOFFSH", [shifter |-> shifter28, reg |-> vreg104], {})
mem512 == Compound("MEM", [base |-> vbase18, regoff |-> vregoffsh2], {"read"})
vbase22 == Compound("VBASE", [reg |-> reg174], {})
vlist71 == Compound("VLIST", [count |-> count0, base |-> vbase22], {})
preg3 == Leaf("PREG", "PRDREG", Span(12, 10), {"zeroing", "read"})
mem520 == Compound("MEM", [base |-> base0, regoff |-> Leaf("REGOFF", "GPR64",
  Span(20, 16), {"read"})], {"read"})
vregoff0 == Compound("VREGOFF", [reg |-> reg185], {})
mem526 == Compound("MEM", [base |-> base0, regoff |-> vregoff0], {"read"})
reg186 == Reg("PRDREG", Span(3, 0), {"write"})
vreg105 == Compound("VREG", [reg |-> reg186], {})
pattern1 == Tabled(Leaf("PATTERN", "other", Span(9, 5), {}), tbl_pattern)
shift4 == Fixed("SHIFT", "MUL", {})
shifter30 == Compound("SHIFTER", [amount |-> Leaf("AMOUNT", "other", Span(19, 16), {}),
  shift |-> shift4], {})
patternsh0 == Compound("PATTERNSH", [pattern |-> pattern1, shifter |-> shifter30], {})
shifter31 == Compound("SHIFTER", [amount |-> Fixed("AMOUNT", VL, {}), shift |-> shift4],
  {})
immoffsh4 == Compound("IMMOFFSH", [imm |-> Imm(Span(21, 16) \o Span(12, 10), {"signpos"}),
  shifter |-> shifter31], {})
mem671 == Compound("MEM", [base |-> base0, regoff |-> immoffsh4], {"read"})
preg5 == Leaf("PREG", "PRDREG", Span(19, 16), {"merging", "read"})
imm86 == Imm(Span(12, 5), {})
imm62 == Leaf("IMM", "aimm", Span(17, 5), {})
imm26 == Leaf("IMM", "WideImmInverted", Span(22, 5), {})
imm23 == Leaf("IMM", "lsb", Span(21, 16), {})
imm24 == Leaf("IMM", "width", Span(15, 10), {})
invcond0 == Leaf("INVCOND", "other", Span(15, 12), {})

-----------------------------------------------------------------------------
(* templates.inc *)

Plain(iform, mnemonic, nodes) == TemplateRow(iform, mnemonic, {}, {}, "AL", {}, nodes)
Where(row, mask, bits) == [row EXCEPT !.mask = mask, !.bits = bits]
Conditional(row) == [row EXCEPT !.cond = "COND"]

TemplateRows ==
  0 :> Plain("INVALID", "INVALID", <<>>)
  @@ 601 :> Plain("UDFi", "UDF", <<Imm(Span(15, 0), {})>>)
  @@ 9 :> Plain("ADDri", "ADD", <<reg8, reg9, immsh0>>)
  @@ 6 :> Where(Plain("ADDr", "ADD", <<reg8, reg9, regsh1>>), H(\h6000), H(\h6000))
  @@ 7 :> Plain("ADDr", "ADD", <<reg8, reg9, regsh2>>)
  @@ 560 :> Plain("SUBr", "SUB", <<reg3, reg4, regsh4>>)
  @@ 19 :> Plain("ADDSr", "ADDS", <<reg3, reg4, regsh4>>)
  @@ 420 :> Plain("ORRri", "ORR", <<reg8, reg4, imm4>>)
  @@ 22 :> Plain("ANDri", "AND", <<Reg("GPR32", Span(4, 0), {"sp", "write"}), reg1,
         imm4>>)
  @@ 409 :> Plain("MOVZri", "MOVZ", <<reg0, immsh1>>)
  @@ 408 :> Plain("MOVNri", "MOVN", <<reg3, immsh1>>)
  @@ 407 :> Plain("MOVNri", "MOVN", <<reg0, immsh1>>)
  @@ 600 :> Plain("UBFMri", "UBFM", <<reg3, reg4, imm5, imm6>>)
  @@ 50 :> Plain("BFMri", "BFM", <<reg3, reg4, imm5, imm6>>)
  @@ 464 :> Plain("SBFMri", "SBFM", <<reg3, reg4, imm5, imm6>>)
  @@ 241 :> Plain("LDRrm", "LDR", <<reg3, mem73>>)
  @@ 243 :> Plain("LDRrm", "LDR", <<reg3, mem75>>)
  @@ 245 :> Plain("LDRrm", "LDR", <<reg3, mem77>>)
  @@ 250 :> Where(Plain("LDRrm", "LDR", <<reg3, mem80>>), H(\h2000), {})
  @@ 251 :> Where(Plain("LDRrm", "LDR", <<reg3, mem81>>), H(\h2000), H(\h2000))
  @@ 236 :> Plain("LDPrm", "LDP", <<reg3, Reg("GPR64", Span(14, 10), {"write"}), mem64>>)
  @@ 88 :> Plain("CASPrm", "CASP", <<Reg("GPR64", Span(20, 16), {"even", "read",
         "write"}), Reg("GPR64", Span(20, 16), {"pair", "read", "write"}),
         Reg("GPR64", Span(4, 0), {"even", "read"}), Reg("GPR64", Span(4, 0), {"pair",
         "read"}), mem20>>)
  @@ 276 :> Where(Plain("LDRSBrm", "LDRSB", <<reg3, mem101>>), H(\h2000), {})
  @@ 277 :> Where(Plain("LDRSBrm", "LDRSB", <<reg3, mem102>>), H(\h2000), H(\h2000))
  @@ 47 :> Conditional(Plain("B", "B", <<label1>>))
  @@ 48 :> Plain("B", "B", <<label2>>)
  @@ 592 :> Where(Plain("TBZri", "TBZ", <<Reg("GPR32", Span(4, 0), {"read"}), imm20,
         label3>>), W(\h8000, \h0), {})
  @@ 593 :> Where(Plain("TBZri", "TBZ", <<reg14, imm20, label3>>), W(\h8000, \h0),
         W(\h8000, \h0))
  @@ 61 :> Plain("BRr", "BR", <<reg4>>)
  @@ 20 :> Plain("ADRr", "ADR", <<reg3, addr0>>)
  @@ 21 :> Plain("ADRPr", "ADRP", <<reg3, label0>>)
  @@ 121 :> Plain("CSINCr", "CSINC", <<reg0, reg1, reg2, Leaf("COND", "other",
         Span(15, 12), {})>>)
  @@ 589 :> Plain("SYSLri", "SYSL", <<reg3, Imm(Span(18, 16), {}), Leaf("CSPACE", "other",
         Span(15, 12), {}), Leaf("CSPACE", "other", Span(11, 8), {}), Imm(Span(7, 5), {})>>)
  @@ 411 :> Plain("MRSr", "MRS", <<reg3, sysreg0>>)
  @@ 413 :> Plain("MSRr", "MSR", <<sysreg0, reg14>>)
  @@ 412 :> Plain("MSRi", "MSR", <<pstatefield0, Imm(Span(11, 8), {})>>)
  @@ 131 :> Plain("DMB", "DMB", <<Leaf("BARRIER", "other", Span(11, 8), {})>>)
  @@ 438 :> Plain("PRFMm", "PRFM", <<Leaf("PRF_OP", "other", Span(4, 0), {}), mem77>>)
  @@ 66 :> Plain("BRKi", "BRK", <<imm7>>)
  @@ 67 :> Plain("BTI", "BTI", <<bti_op0>>)
  @@ 1452 :> Plain("FMOVsi", "FMOV", <<Reg("SIMD32", Span(4, 0), {"write"}),
         Leaf("FPIMM", "vfpimm", Span(20, 13), {})>>)
  @@ 1448 :> Plain("FMOVvr", "FMOV", <<ereg11, reg4>>)
  @@ 2014 :> Where(Plain("MOVIvi", "MOVI", <<vreg8, immsh4>>), W(\h4000, \h0), {})
  @@ 2015 :> Where(Plain("MOVIvi", "MOVI", <<vreg8, immsh4>>), W(\h4000, \h0),
         W(\h4000, \h0))
  @@ 1437 :> Plain("FMOVvi", "FMOV", <<vreg8, imm48>>)
  @@ 2894 :> Where(Plain("TBLvl", "TBL", <<vreg8, vlist64, vreg14>>), W(\h4000, \h0), {})
  @@ 2895 :> Where(Plain("TBLvl", "TBL", <<vreg8, vlist64, vreg14>>), W(\h4000, \h0),
         W(\h4000, \h0))
  @@ 970 :> Where(Plain("EXTvi", "EXT", <<vreg8, vreg1, vreg14, Imm(Span(13, 11), {})>>),
         W(\h4000, \h4000), {})
  @@ 971 :> Where(Plain("EXTvi", "EXT", <<vreg8, vreg1, vreg14, Imm(Span(14, 11), {})>>),
         W(\h4000, \h0), W(\h4000, \h0))
  @@ 1737 :> Plain("LD1lm", "LD1", <<elist0, mem313>>)
  @@ 2198 :> Where(Plain("SHLdi", "SHL", <<reg56, reg57, Times(Leaf("IMM", "shift_left",
         Span(22, 16), {}), 64)>>), W(\h40, \h0), W(\h40, \h0))
  @@ 2589 :> Where(Plain("SSHRdi", "SSHR", <<reg56, reg57,
         Times(Leaf("IMM", "shift_right", Span(22, 16), {}), 128)>>), W(\h40, \h0),
         W(\h40, \h0))
  @@ 1264 :> Plain("FCVTZSrhi", "FCVTZS", <<reg3, Reg("SIMD16", Span(9, 5), {"read"}),
         Times(Leaf("IMM", "fbits_right", Span(15, 10), {}), 64)>>)
  @@ 3360 :> Plain("ADDVLri", "ADDVL", <<reg8, Reg("GPR64", Span(20, 16), {"sp", "read"}),
         Imm(Span(10, 5), {"signpos"})>>)
  @@ 3363 :> Plain("ADRzm", "ADR", <<vreg93, mem512>>)
  @@ 4045 :> Plain("LD1Blkm", "LD1B", <<vlist71, preg3, mem520>>)
  @@ 4051 :> Plain("LD1Blkm", "LD1B", <<vlist71, preg3, mem526>>)
  @@ 4437 :> Where(Plain("PTRUEk", "PTRUE", <<vreg105, pattern1>>), W(\hc0, \h0), {})
  @@ 4438 :> Where(Plain("PTRUEk", "PTRUE", <<vreg105, pattern1>>), W(\hc0, \h0),
         W(\h40, \h0))
  @@ 4439 :> Where(Plain("PTRUEk", "PTRUE", <<vreg105, pattern1>>), W(\hc0, \h0),
         W(\h80, \h0))
  @@ 4440 :> Where(Plain("PTRUEk", "PTRUE", <<vreg105, pattern1>>), W(\hc0, \h0),
         W(\hc0, \h0))
  @@ 3985 :> Plain("INCBr", "INCB", <<Reg("GPR64", Span(4, 0), {"read", "write"}),
         patternsh0>>)
  @@ 4267 :> Plain("LDRkm", "LDR", <<reg186, mem671>>)
  @@ 3766 :> Where(Plain("FCPYzki", "FCPY", <<vreg93, preg5, imm86>>), W(\hc0, \h0),
         W(\h40, \h0))
  @@ 3767 :> Where(Plain("FCPYzki", "FCPY", <<vreg93, preg5, imm86>>), W(\hc0, \h0),
         W(\h80, \h0))
  @@ 3768 :> Where(Plain("FCPYzki", "FCPY", <<vreg93, preg5, imm86>>), W(\hc0, \h0),
         W(\hc0, \h0))
  @@ 3661 :> Where(Plain("DUPMzi", "DUPM", <<vreg93, imm62>>), W(\h2, \h400), {})
  @@ 3662 :> Where(Plain("DUPMzi", "DUPM", <<vreg93, imm62>>), W(\h2, \h600), H(\h400))
  @@ 3663 :> Where(Plain("DUPMzi", "DUPM", <<vreg93, imm62>>), W(\h2, \h700), H(\h600))
  @@ 3664 :> Where(Plain("DUPMzi", "DUPM", <<vreg93, imm62>>), W(\h2, \h780), H(\h700))
  @@ 3665 :> Where(Plain("DUPMzi", "DUPM", <<vreg93, imm62>>), W(\h2, \h7c0), H(\h780))
  @@ 3666 :> Where(Plain("DUPMzi", "DUPM", <<vreg93, imm62>>), W(\h2, \h0), W(\h2, \h0))
  @@ 667 :> Plain("MOVr", "MOV", <<reg8, reg9>>)
  @@ 681 :> Plain("NEGr", "NEG", <<reg3, regsh4>>)
  @@ 636 :> Plain("CMNr", "CMN", <<reg4, regsh4>>)
  @@ 673 :> Plain("MOVri", "MOV", <<reg8, imm4>>)
  @@ 670 :> Plain("MOVri", "MOV", <<reg0, Leaf("IMM", "WideImmAlias", Span(22, 5), {})>>)
  @@ 669 :> Plain("MOVri", "MOV", <<reg3, imm26>>)
  @@ 668 :> Plain("MOVri", "MOV", <<reg0, imm26>>)
  @@ 659 :> Plain("LSLri", "LSL", <<reg3, reg4, imm5>>)
  @@ 663 :> Plain("LSRri", "LSR", <<reg3, reg4, imm5>>)
  @@ 774 :> Plain("UBFIZri", "UBFIZ", <<reg3, reg4, imm23, imm24>>)
  @@ 776 :> Plain("UBFXri", "UBFX", <<reg3, reg4, imm23, imm24>>)
  @@ 620 :> Plain("BFCri", "BFC", <<reg3, imm23, imm24>>)
  @@ 622 :> Plain("BFIri", "BFI", <<reg3, reg4, imm23, imm24>>)
  @@ 624 :> Plain("BFXILri", "BFXIL", <<reg3, reg4, imm23, imm24>>)
  @@ 617 :> Plain("ASRri", "ASR", <<reg3, reg4, imm5>>)
  @@ 694 :> Plain("SBFIZri", "SBFIZ", <<reg3, reg4, imm23, imm24>>)
  @@ 696 :> Plain("SBFXri", "SBFX", <<reg3, reg4, imm23, imm24>>)
  @@ 764 :> Plain("SXTBr", "SXTB", <<reg3, reg1>>)
  @@ 766 :> Plain("SXTHr", "SXTH", <<reg3, reg1>>)
  @@ 767 :> Plain("SXTWr", "SXTW", <<reg3, reg1>>)
  @@ 626 :> Plain("CINCr", "CINC", <<reg0, Reg("GPR32", Span(20, 16) \o Span(9, 5),
         {"read"}), invcond0>>)
  @@ 648 :> Plain("CSETr", "CSET", <<reg0, invcond0>>)
  @@ 5552 :> Where(Plain("FMOVzki", "FMOV", <<vreg93, preg5, imm86>>), W(\hc0, \h0),
         W(\h40, \h0))
  @@ 5553 :> Where(Plain("FMOVzki", "FMOV", <<vreg93, preg5, imm86>>), W(\hc0, \h0),
         W(\h80, \h0))
  @@ 5554 :> Where(Plain("FMOVzki", "FMOV", <<vreg93, preg5, imm86>>), W(\hc0, \h0),
         W(\hc0, \h0))
  @@ 5593 :> Where(Plain("MOVzi", "MOV", <<vreg93, imm62>>), W(\h2, \h400), {})
  @@ 5594 :> Where(Plain("MOVzi", "MOV", <<vreg93, imm62>>), W(\h2, \h600), H(\h400))
  @@ 5595 :> Where(Plain("MOVzi", "MOV", <<vreg93, imm62>>), W(\h2, \h700), H(\h600))
  @@ 5596 :> Where(Plain("MOVzi", "MOV", <<vreg93, imm62>>), W(\h2, \h780), H(\h700))
  @@ 5597 :> Where(Plain("MOVzi", "MOV", <<vreg93, imm62>>), W(\h2, \h7c0), H(\h780))
  @@ 5598 :> Where(Plain("MOVzi", "MOV", <<vreg93, imm62>>), W(\h2, \h0), W(\h2, \h0))

-----------------------------------------------------------------------------
(* encodings.inc; the keys are what the lookup tests *)

Full(mask, bits, templates) == EncodingRow("A64", mask, bits, mask, templates, <<>>)
AliasRow(mask, bits, templates, cond) ==
  [Full(mask, bits, templates) EXCEPT !.isa = "alias", !.aliascond = cond]
Key(row, key) == [row EXCEPT !.key = key]
Sized(row, datasize) == [row EXCEPT !.datasize = datasize]
Aliased(row, aliases) == [row EXCEPT !.aliases = aliases]
Branch(row) == [row EXCEPT !.attrs = {"branch"}]

EncodingRows ==
  0 :> Full({}, {}, <<0>>)
  @@ 581 :> Key(Full(W(\hffff, \h0), {}, <<601>>), W(\h1c00, \h0))
  @@ 8 :> Sized(Aliased(Full(W(\hff80, \h0), W(\h9100, \h0), <<9>>), <<645>>), 64)
  @@ 6 :> Sized(Key(Full(W(\hffe0, \h0), W(\h8b20, \h0), <<6, 7>>), W(\hff20, \h0)), 64)
  @@ 543 :> Sized(Aliased(Full(W(\hff20, \h0), W(\hcb00, \h0), <<560>>), <<659>>), 64)
  @@ 17 :> Sized(Aliased(Full(W(\hff20, \h0), W(\hab00, \h0), <<19>>), <<615>>), 64)
  @@ 409 :> Sized(Aliased(Full(W(\hff80, \h0), W(\hb200, \h0), <<420>>), <<651>>), 64)
  @@ 20 :> Sized(Key(Full(W(\hffc0, \h0), W(\h1200, \h0), <<22>>), W(\hff80, \h0)), 32)
  @@ 398 :> Sized(Aliased(Key(Full(W(\hffc0, \h0), W(\h5280, \h0), <<409>>),
         W(\hff80, \h0)), <<648>>), 32)
  @@ 397 :> Sized(Aliased(Full(W(\hff80, \h0), W(\h9280, \h0), <<408>>), <<647>>), 64)
  @@ 396 :> Sized(Aliased(Key(Full(W(\hffc0, \h0), W(\h1280, \h0), <<407>>),
         W(\hff80, \h0)), <<646>>), 32)
  @@ 580 :> Sized(Aliased(Key(Full(W(\hffc0, \h0), W(\hd340, \h0), <<600>>),
         W(\hff80, \h0)), <<637, 641, 752, 754>>), 64)
  @@ 48 :> Sized(Aliased(Key(Full(W(\hffc0, \h0), W(\hb340, \h0), <<50>>), W(\hff80, \h0)),
         <<600, 602, 604>>), 64)
  @@ 452 :> Sized(Aliased(Key(Full(W(\hffc0, \h0), W(\h9340, \h0), <<464>>),
         W(\hff80, \h0)), <<597, 672, 674, 742, 744, 745>>), 64)
  @@ 239 :> Full(W(\hffe0, \hc00), W(\hf840, \h400), <<241>>)
  @@ 241 :> Full(W(\hffe0, \hc00), W(\hf840, \hc00), <<243>>)
  @@ 243 :> Full(W(\hffc0, \h0), W(\hf940, \h0), <<245>>)
  @@ 247 :> Full(W(\hffe0, \hc00), W(\hf860, \h800), <<250, 251>>)
  @@ 234 :> Full(W(\hffc0, \h0), W(\ha940, \h0), <<236>>)
  @@ 86 :> Key(Full(W(\hffe0, \hfc00), W(\h4820, \h7c00), <<88>>), W(\hffe0, \h8000))
  @@ 269 :> Sized(Full(W(\hffe0, \hc00), W(\h38a0, \h800), <<276, 277>>), 64)
  @@ 45 :> Branch(Key(Full(W(\hff00, \h10), W(\h5400, \h0), <<47>>), W(\hff00, \h0)))
  @@ 46 :> Branch(Full(W(\hfc00, \h0), W(\h1400, \h0), <<48>>))
  @@ 573 :> Branch(Full(W(\h7f00, \h0), W(\h3600, \h0), <<592, 593>>))
  @@ 59 :> Branch(Key(Full(W(\hffff, \hfc1f), W(\hd61f, \h0), <<61>>), W(\hffe0, \h1)))
  @@ 18 :> Full(W(\h9f00, \h0), W(\h1000, \h0), <<20>>)
  @@ 19 :> Full(W(\h9f00, \h0), W(\h9000, \h0), <<21>>)
  @@ 119 :> Sized(Aliased(Key(Full(W(\hffe0, \hc00), W(\h1a80, \h400), <<121>>),
         W(\hff40, \hc00)), <<606, 626>>), 32)
  @@ 571 :> Key(Full(W(\hfff8, \h0), W(\hd528, \h0), <<589>>), W(\hff38, \h0))
  @@ 400 :> Key(Full(W(\hfff0, \h0), W(\hd530, \h0), <<411>>), W(\hff30, \h0))
  @@ 402 :> Key(Full(W(\hfff0, \h0), W(\hd510, \h0), <<413>>), W(\hff30, \h0))
  @@ 401 :> Key(Full(W(\hfff8, \hf01f), W(\hd500, \h401f), <<412>>), W(\hff38, \h7000))
  @@ 129 :> Key(Full(W(\hffff, \hf0ff), W(\hd503, \h30bf), <<131>>), W(\hff38, \h70e0))
  @@ 427 :> Full(W(\hffc0, \h0), W(\hf980, \h0), <<438>>)
  @@ 64 :> Key(Full(W(\hffe0, \h1f), W(\hd420, \h0), <<66>>), W(\hff60, \h3))
  @@ 65 :> Full(W(\hffff, \hff3f), W(\hd503, \h241f), <<67>>)
  @@ 1116 :> Key(Full(W(\hffe0, \h1fe0), W(\h1e20, \h1000), <<1452>>), W(\hffe0, \h1c00))
  @@ 1112 :> Key(Full(W(\hffff, \hfc00), W(\h9eaf, \h0), <<1448>>), W(\hffff, \h0))
  @@ 1357 :> Key(Full(W(\hbff8, \h9c00), W(\hf00, \h400), <<2014, 2015>>),
         W(\hbf78, \h9400))
  @@ 1101 :> Key(Full(W(\hfff8, \hfc00), W(\h6f00, \hf400), <<1437>>), W(\hbf00, \hfc00))
  @@ 1645 :> Key(Full(W(\hbfe0, \hfc00), W(\he00, \h2000), <<2894, 2895>>),
         W(\hbf20, \hfc00))
  @@ 816 :> Key(Full(W(\hbfe0, \h8400), W(\h2e00, \h0), <<970, 971>>), W(\hbf20, \h8400))
  @@ 1241 :> Key(Full(W(\hbfff, \he000), W(\hd40, \h0), <<1737>>), W(\hbfe0, \he000))
  @@ 1427 :> Key(Full(W(\hff80, \hfc00), W(\h5f00, \h5400), <<2198>>), W(\hff00, \hf400))
  @@ 1526 :> Key(Full(W(\hff80, \hfc00), W(\h5f00, \h400), <<2589>>), W(\hff00, \hf400))
  @@ 997 :> Full(W(\hffff, \h0), W(\h9ed8, \h0), <<1264>>)
  @@ 1765 :> Key(Full(W(\hffe0, \hf800), W(\h420, \h5000), <<3360>>), W(\hfde0, \hf800))
  @@ 1767 :> Key(Full(W(\hffe0, \hf000), W(\h420, \ha000), <<3363>>), W(\hfde0, \hf000))
  @@ 2049 :> Key(Full(W(\hffe0, \he000), W(\ha400, \h4000), <<4045>>), W(\hfde0, \he000))
  @@ 2055 :> Key(Full(W(\hffe0, \he000), W(\hc440, \hc000), <<4051>>), W(\hfde0, \he000))
  @@ 2355 :> Key(Full(W(\hff3f, \hfc10), W(\h2518, \he000), <<4437, 4438, 4439, 4440>>),
         W(\hfd39, \hf400))
  @@ 2024 :> Key(Full(W(\hfff0, \hfc00), W(\h430, \he000), <<3985>>), W(\hfdf0, \hfc00))
  @@ 2271 :> Key(Full(W(\hffc0, \he010), W(\h8580, \h0), <<4267>>), W(\hfd40, \he000))
  @@ 1920 :> Aliased(Key(Full(W(\hff30, \he000), W(\h510, \hc000), <<3766, 3767, 3768>>),
         W(\hfd30, \hc000)), <<2814>>)
  @@ 1883 :> Aliased(Key(Full(W(\hfffc, \h0), W(\h5c0, \h0), <<3661, 3662, 3663, 3664,
         3665, 3666>>), W(\hfdf0, \h0)), <<2825>>)
  @@ 645 :> Sized(AliasRow(W(\hffff, \hfc00), W(\h9100, \h0), <<667>>,
         "Rd == 31 || Rn == 31"), 64)
  @@ 659 :> Sized(AliasRow(W(\hff20, \h3e0), W(\hcb00, \h3e0), <<681>>,
         "Unconditionally"), 64)
  @@ 615 :> Sized(AliasRow(W(\hff20, \h1f), W(\hab00, \h1f), <<636>>, "Unconditionally"),
         64)
  @@ 651 :> Sized(AliasRow(W(\hff80, \h3e0), W(\hb200, \h3e0), <<673>>,
         "!MoveWidePreferred"), 64)
  @@ 648 :> Sized(AliasRow(W(\hffc0, \h0), W(\h5280, \h0), <<670>>,
         "!(IsZero(imm16) && hw != 0)"), 32)
  @@ 647 :> Sized(AliasRow(W(\hff80, \h0), W(\h9280, \h0), <<669>>,
         "!(IsZero(imm16) && hw != 0)"), 64)
  @@ 646 :> Sized(AliasRow(W(\hffc0, \h0), W(\h1280, \h0), <<668>>,
         "!(IsZero(imm16) && hw != 0) && !IsOnes(imm16)"), 32)
  @@ 637 :> Sized(AliasRow(W(\hffc0, \h0), W(\hd340, \h0), <<659>>, "imms + 1 == immr"),
         64)
  @@ 641 :> Sized(AliasRow(W(\hffc0, \hfc00), W(\hd340, \hfc00), <<663>>,
         "Unconditionally"), 64)
  @@ 752 :> Sized(AliasRow(W(\hffc0, \h0), W(\hd340, \h0), <<774>>, "imms < immr"), 64)
  @@ 754 :> Sized(AliasRow(W(\hffc0, \h0), W(\hd340, \h0), <<776>>, "BFXPreferred"), 64)
  @@ 600 :> Sized(AliasRow(W(\hffc0, \h3e0), W(\hb340, \h3e0), <<620>>, "imms < immr"),
         64)
  @@ 602 :> Sized(AliasRow(W(\hffc0, \h0), W(\hb340, \h0), <<622>>, "imms < immr"), 64)
  @@ 604 :> Sized(AliasRow(W(\hffc0, \h0), W(\hb340, \h0), <<624>>, "imms >= immr"), 64)
  @@ 597 :> Sized(AliasRow(W(\hffc0, \hfc00), W(\h9340, \hfc00), <<617>>,
         "Unconditionally"), 64)
  @@ 672 :> Sized(AliasRow(W(\hffc0, \h0), W(\h9340, \h0), <<694>>, "imms < immr"), 64)
  @@ 674 :> Sized(AliasRow(W(\hffc0, \h0), W(\h9340, \h0), <<696>>, "BFXPreferred"), 64)
  @@ 742 :> Sized(AliasRow(W(\hffff, \hfc00), W(\h9340, \h1c00), <<764>>,
         "Unconditionally"), 64)
  @@ 744 :> Sized(AliasRow(W(\hffff, \hfc00), W(\h9340, \h3c00), <<766>>,
         "Unconditionally"), 64)
  @@ 745 :> Sized(AliasRow(W(\hffff, \hfc00), W(\h9340, \h7c00), <<767>>,
         "Unconditionally"), 64)
  @@ 606 :> Sized(AliasRow(W(\hffe0, \hc00), W(\h1a80, \h400), <<626>>, "Rn == Rm"), 32)
  @@ 626 :> Sized(AliasRow(W(\hffff, \hfe0), W(\h1a9f, \h7e0), <<648>>,
         "Unconditionally"), 32)
  @@ 2814 :> AliasRow(W(\hff30, \he000), W(\h510, \hc000), <<5552, 5553, 5554>>,
         "Unconditionally")
  @@ 2825 :> AliasRow(W(\hfffc, \h0), W(\h5c0, \h0), <<5593, 5594, 5595, 5596, 5597,
         5598>>, "SVEMoveMaskPreferred")
=============================================================================
