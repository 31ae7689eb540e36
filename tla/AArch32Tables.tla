---------------------------- MODULE AArch32Tables ----------------------------
(***************************************************************************)
(* Rows of the generated tables (source/aarch32/include/: encodings.inc,   *)
(* templates.inc, argument.inc, tables.inc, lookup-*.inc) for the words    *)
(* the model checker decodes, under their names and indices.  Nodes that   *)
(* differ in their datatype only are one.                                  *)
(***************************************************************************)
EXTENDS AArch32Decoder

\* Words in hexadecimal, by their half-words.
H(low) == Bits(low, 16)
W(high, low) == H(low) \union {b + 16 : b \in H(high)}

Gpr(enc, attrs) == Leaf("REG", "GPR32", enc, attrs)
Base(enc, attrs) == Leaf("BASE", "GPR32", enc, attrs)
Acc(node, access) == [node EXCEPT !.value = access]

-----------------------------------------------------------------------------
(* tables.inc *)

tbl_shift1 == [e \in 0..3 |-> Tv(std_shift[e + 1], 0)]
tbl_align == 0 :> Tv(0, 0) @@ 1 :> Tv(64, 0)
tbl_align1 == 0 :> Tv(0, 0) @@ 1 :> Tv(64, 0) @@ 2 :> Tv(128, 0)
tbl_barrier == 1 :> Tv(13, 0) @@ 2 :> Tv(12, 0) @@ 3 :> Tv(11, 0) @@ 5 :> Tv(10, 0) @@
  6 :> Tv(9, 0) @@ 7 :> Tv(8, 0) @@ 9 :> Tv(7, 0) @@ 10 :> Tv(6, 0) @@ 11 :> Tv(5, 0) @@
  13 :> Tv(4, 0) @@ 14 :> Tv(2, 0) @@ 15 :> Tv(1, 0)
\* Rows without a register are marked unpredictable, which the decoder never reads.
banked ==
  <<113, 114, 115, 116, 117, 118, 119, 0, 120, 121, 122, 123, 124, 125, 126, 0, 127,
    128, 129, 130, 131, 132, 133, 134, 0, 0, 0, 0, 135, 136, 137, 138, 0, 0, 0, 0, 0, 0,
    0, 0, 0, 0, 0, 0, 0, 0, 139, 0, 140, 0, 141, 0, 142, 0, 143, 0, 0, 0, 0, 0, 144, 0,
    145, 0>>
tbl_bnkdreg == [e \in 0..63 |-> Tv(banked[e + 1], 0)]

-----------------------------------------------------------------------------
(* argument.inc *)

reg51 == Gpr(Span(15, 12), {"dpc", "iwb", "write"})
imm0 == Leaf("IMM", "aimm", Span(11, 0), {})
reg37 == Gpr(Span(3, 0), {"read"})
amount0 == Leaf("AMOUNT", "amount", Span(11, 7), {})
shift0 == Tabled(Leaf("SHIFT", "shift", Span(6, 5), {}), tbl_shift1)
shifter1 == Compound("SHIFTER", [amount |-> amount0, shift |-> shift0], {})
regsh8 == Compound("REGSH", [reg |-> reg37, shifter |-> shifter1], {})
reg33 == Gpr(Span(15, 12), {"upc", "write"})
reg9 == Gpr(Span(3, 0), {"upc", "read"})
rs0 == Leaf("RS", "GPR32", Span(11, 8), {"upc", "read"})
shifter3 == Compound("SHIFTER", [rs |-> rs0, shift |-> shift0], {})
regsh4 == Compound("REGSH", [reg |-> reg9, shifter |-> shifter3], {})
reg31 == Gpr(Span(15, 12), {"iwb", "write"})
add0 == Leaf("ADD", "ADD", <<23>>, {})
base1 == Base(Span(19, 16), {"nopc", "read"})
immoff3 == Leaf("IMMOFF", "imm", Span(11, 0), {})
mem12 == Compound("MEM", [add |-> add0, base |-> base1, regoff |-> immoff3], {"read"})
mem122 == Compound("MEM", [add |-> add0, base |-> Base(Span(19, 16), {"dpc", "read"}),
  regoff |-> immoff3], {"write", "post_indexed"})
mem13 == Compound("MEM", [add |-> add0, base |-> base1, regoff |-> immoff3], {"read",
  "post_indexed"})
shifter6 == Compound("SHIFTER", [amount |-> amount0, shift |-> Leaf("SHIFT", "shift",
  Span(6, 5), {})], {})
regoffsh0 == Compound("REGOFFSH", [reg |-> reg9, shifter |-> shifter6], {})
mem21 == Compound("MEM", [add |-> add0, base |-> Base(Span(19, 16), {"read"}),
  regoff |-> regoffsh0], {"read"})
immoff12 == Leaf("IMMOFF", "imm", Span(11, 8) \o Span(3, 0), {})
mem44 == Compound("MEM", [add |-> add0, base |-> base1, regoff |-> immoff12], {"read",
  "pre_indexed"})
wback0 == Leaf("WBACK", "wback", <<21>>, {})
wreg0 == Compound("WREG", [reg |-> Gpr(Span(19, 16), {"upc", "read"}), wback |-> wback0],
  {})
glist0 == Leaf("GLIST", "registers", Span(15, 0), {})
label0 == Times(Leaf("LABEL", "label", Span(23, 0), {"signpos"}), 4)
imm7 == Leaf("IMM", "lsb", Span(11, 7), {})
imm8 == Leaf("IMM", "width", Span(20, 16), {})
vreg105 == Leaf("VREG", "SIMD64", <<22>> \o Span(15, 12), {"write"})
imm38 == Leaf("IMM", "advimm", <<5>> \o Span(11, 8) \o <<24>> \o Span(18, 16) \o Span(3, 0),
  {})
reg77 == Leaf("REG", "SIMD32", Span(15, 12) \o <<22>>, {"write"})
fpimm2 == Leaf("FPIMM", "vfpimm", Span(19, 16) \o Span(3, 0), {})
sz1 == Fixed("SZ", 32, {})
wreg6 == Compound("WREG", [reg |-> Gpr(Span(19, 16), {"read"}), wback |-> wback0], {})
base13 == Leaf("BASE", "SIMD32", Span(15, 12) \o <<22>>, {})
count0 == Leaf("COUNT", "count", Span(7, 0), {})
fslist0 == Compound("FSLIST", [base |-> base13, count |-> count0], {})
sz3 == Fixed("SZ", 64, {})
base12 == Leaf("BASE", "SIMD64", <<22>> \o Span(15, 12), {})
fdlist1 == Compound("FDLIST", [base |-> base12, count |-> count0], {})
sz0 == Fixed("SZ", 8, {})
inc1 == Fixed("INC", 1, {})
vbase0 == Leaf("VBASE", "SIMD64", <<22>> \o Span(15, 12), {"write"})
vlist6 == Compound("VLIST", [count |-> Fixed("COUNT", 1, {}), inc |-> inc1,
  base |-> vbase0], {})
align6 == Tabled(Leaf("ALIGN", "align", Span(5, 4), {}), tbl_align)
base0 == Base(Span(19, 16), {"upc", "read"})
mem202 == Compound("MEM", [align |-> align6, base |-> base0], {"read"})
sz2 == Fixed("SZ", 16, {})
vlist10 == Compound("VLIST", [count |-> Fixed("COUNT", 2, {}), inc |-> inc1,
  base |-> vbase0], {})
align0 == Tabled(Leaf("ALIGN", "align", Span(5, 4), {}), tbl_align1)
mem214 == Compound("MEM", [align |-> align0, base |-> base0], {"read"})
reg134 == Leaf("REG", "SIMD64", <<7>> \o Span(19, 16), {"read"})
ereg19 == Compound("EREG", [idx |-> Leaf("IDX", "none", <<21>> \o Span(6, 5), {}),
  reg |-> reg134], {})
ereg20 == Compound("EREG", [idx |-> Leaf("IDX", "none", <<21, 6>>, {}), reg |-> reg134],
  {})
ereg23 == Compound("EREG", [idx |-> Leaf("IDX", "none", <<21>>, {}), reg |-> reg134], {})
vreg102 == Leaf("VREG", "SIMD64", <<7>> \o Span(19, 16), {"read"})
vreg103 == Leaf("VREG", "SIMD64", <<5>> \o Span(3, 0), {"read"})
barrier0 == Tabled(Leaf("BARRIER", "option", Span(3, 0), {}), tbl_barrier)
bnkdreg0 == Tabled(Leaf("BNKDREG", "banked_reg", <<22, 8>> \o Span(19, 16), {}),
  tbl_bnkdreg)
mem2 == Acc(Compound("MEM", [base |-> base0], {"read"}), "ATOMIC_ACQUIRE")
reg6 == Gpr(Span(2, 0), {"read", "write"})
reg8 == Gpr(Span(5, 3), {"read"})
wreg1 == Compound("WREG", [reg |-> Gpr(Span(10, 8), {"read"}),
  wback |-> Leaf("WBACK", "wback16", Span(7, 0), {})], {})
glist1 == Leaf("GLIST", "registers", Span(7, 0), {})
reg38 == Gpr(Span(6, 3), {"read"})
label1 == Times(Leaf("LABEL", "label", Span(7, 0), {"signpos"}), 2)
label2 == Times(Leaf("LABEL", "label", Span(10, 0), {"signpos"}), 2)
shifter10 == Compound("SHIFTER", [rs |-> Leaf("RS", "GPR32", Span(5, 3), {"read"}),
  shift |-> Fixed("SHIFT", "LSL", {})], {})
regsh11 == Compound("REGSH", [reg |-> reg6, shifter |-> shifter10], {})
label4 == Times(Leaf("LABEL", "labelj", <<26, 13, 11>> \o Span(25, 16) \o Span(10, 0),
  {"signpos"}), 2)
imm1 == Leaf("IMM", "timm", <<26>> \o Span(14, 12) \o Span(7, 0), {})
mem128 == Compound("MEM", [add |-> Leaf("ADD", "ADD", <<9>>, {}), base |-> base1,
  regoff |-> Leaf("IMMOFF", "imm", Span(7, 0), {})], {"write", "post_indexed"})
reg5 == Gpr(Span(3, 0), {"dpc", "read"})
imm35 == Leaf("IMM", "imm", Span(11, 7), {})
reg49 == Gpr(Span(11, 8), {"upc", "read"})
slist0 == Leaf("SLIST", "single_register_list", Span(15, 12), {})
imm23 == Fixed("IMM", 0, {})

-----------------------------------------------------------------------------
(* templates.inc *)

Plain(iform, mnemonic, cond, nodes) ==
  TemplateRow(iform, mnemonic, {}, {}, cond, {}, nodes)
If(row, attrs) == [row EXCEPT !.attrs = attrs]
Where(row, mask, bits) == [row EXCEPT !.mask = mask, !.bits = bits]

TemplateRows ==
  0 :> Plain("INVALID", "INVALID", "COND", <<>>)
  @@ 378 :> Plain("MOVri", "MOV", "NO_NV", <<reg51, imm0>>)
  @@ 389 :> Plain("MOVr", "MOV", "NO_NV", <<reg51, regsh8>>)
  @@ 400 :> Plain("MOVr", "MOV", "NO_NV", <<reg33, regsh4>>)
  @@ 260 :> Plain("LDRrm", "LDR", "NO_NV", <<reg31, mem12>>)
  @@ 261 :> Plain("LDRrm", "LDR", "NO_NV", <<reg31, mem13>>)
  @@ 272 :> Plain("LDRrm", "LDR", "NO_NV", <<reg31, mem21>>)
  @@ 760 :> Plain("STRrm", "STR", "NO_NV", <<Gpr(Span(15, 12), {"dpc", "read"}), mem122>>)
  @@ 297 :> Plain("LDRDrm", "LDRD", "NO_NV", <<Gpr(Span(15, 12), {"write", "even"}),
         Gpr(Span(15, 12), {"upc", "write", "pair"}), mem44>>)
  @@ 227 :> Plain("LDMrl", "LDM", "NO_NV", <<wreg0, glist0>>)
  @@ 228 :> If(Plain("LDMFDrl", "LDMFD", "NO_NV", <<wreg0, glist0>>), {"asmonly"})
  @@ 229 :> If(Plain("LDMIArl", "LDMIA", "NO_NV", <<wreg0, glist0>>), {"asmonly"})
  @@ 79 :> Plain("B", "B", "NO_NV", <<label0>>)
  @@ 106 :> Plain("BL", "BL", "NO_NV", <<label0>>)
  @@ 84 :> Plain("BFCri", "BFC", "NO_NV", <<reg33, imm7, imm8>>)
  @@ 588 :> Plain("SBFXri", "SBFX", "NO_NV", <<reg33, reg9, imm7, imm8>>)
  @@ 2651 :> Plain("VMOVdi", "VMOV", "UNCOND", <<vreg105, imm38>>)
  @@ 2656 :> Plain("VMOVdi", "VMOV", "UNCOND", <<vreg105, imm38>>)
  @@ 2658 :> Where(Plain("VMOVdi", "VMOV", "UNCOND", <<vreg105, imm38>>), H(\he00),
         H(\hc00))
  @@ 2659 :> Where(Plain("VMOVdi", "VMOV", "UNCOND", <<vreg105, imm38>>), H(\hf00),
         H(\he00))
  @@ 2660 :> Where(Plain("VMOVdi", "VMOV", "UNCOND", <<vreg105, imm38>>), H(\hf00),
         H(\hf00))
  @@ 2664 :> Plain("VMOVdi", "VMOV", "UNCOND", <<vreg105, imm38>>)
  @@ 2654 :> Plain("VMOVsi", "VMOV", "NO_NV", <<reg77, fpimm2>>)
  @@ 2345 :> Plain("VLDMrl", "VLDM", "NO_NV", <<sz1, wreg6, fslist0>>)
  @@ 2346 :> If(Plain("VLDMIArl", "VLDMIA", "NO_NV", <<sz1, wreg6, fslist0>>),
         {"asmonly"})
  @@ 2342 :> Plain("VLDMrl", "VLDM", "NO_NV", <<sz3, wreg6, fdlist1>>)
  @@ 2343 :> If(Plain("VLDMIArl", "VLDMIA", "NO_NV", <<sz3, wreg6, fdlist1>>),
         {"asmonly"})
  @@ 2059 :> Where(Plain("VLD1lm", "VLD1", "UNCOND", <<sz0, vlist6, mem202>>), H(\hc0),
         {})
  @@ 2060 :> Where(Plain("VLD1lm", "VLD1", "UNCOND", <<sz2, vlist6, mem202>>), H(\hc0),
         H(\h40))
  @@ 2061 :> Where(Plain("VLD1lm", "VLD1", "UNCOND", <<sz1, vlist6, mem202>>), H(\hc0),
         H(\h80))
  @@ 2062 :> Where(Plain("VLD1lm", "VLD1", "UNCOND", <<sz3, vlist6, mem202>>), H(\hc0),
         H(\hc0))
  @@ 2071 :> Where(Plain("VLD1lm", "VLD1", "UNCOND", <<sz0, vlist10, mem214>>), H(\hc0),
         {})
  @@ 2072 :> Where(Plain("VLD1lm", "VLD1", "UNCOND", <<sz2, vlist10, mem214>>), H(\hc0),
         H(\h40))
  @@ 2073 :> Where(Plain("VLD1lm", "VLD1", "UNCOND", <<sz1, vlist10, mem214>>), H(\hc0),
         H(\h80))
  @@ 2074 :> Where(Plain("VLD1lm", "VLD1", "UNCOND", <<sz3, vlist10, mem214>>), H(\hc0),
         H(\hc0))
  @@ 2695 :> Where(Plain("VMOVrd", "VMOV", "NO_NV", <<reg33, ereg19>>), W(\hc0, \h0),
         W(\h40, \h0))
  @@ 2696 :> Where(Plain("VMOVrd", "VMOV", "NO_NV", <<reg33, ereg20>>), W(\hc0, \h20),
         H(\h20))
  @@ 2697 :> Where(Plain("VMOVrd", "VMOV", "NO_NV", <<reg33, ereg19>>), W(\hc0, \h0),
         W(\hc0, \h0))
  @@ 2698 :> Where(Plain("VMOVrd", "VMOV", "NO_NV", <<reg33, ereg20>>), W(\hc0, \h20),
         W(\h80, \h20))
  @@ 2699 :> Where(Plain("VMOVrd", "VMOV", "NO_NV", <<sz1, reg33, ereg23>>),
         W(\hc0, \h60), {})
  @@ 2875 :> Plain("VORRd", "VORR", "UNCOND", <<vreg105, vreg102, vreg103>>)
  @@ 143 :> Plain("CPSIE", "CPSIE", "UNCOND", <<Leaf("IFLAGS", "iflags", Span(8, 6),
         {})>>)
  @@ 171 :> Plain("DMB", "DMB", "UNCOND", <<barrier0>>)
  @@ 419 :> Plain("MRSr", "MRS", "NO_NV", <<reg33, bnkdreg0>>)
  @@ 58 :> Plain("ADRr", "ADR", "NO_NV", <<reg31, Leaf("ADDR", "plabela", Span(11, 0),
         {})>>)
  @@ 206 :> Plain("LDAEXrm", "LDAEX", "NO_NV", <<reg33, mem2>>)
  @@ 112 :> Plain("BXr", "BX", "NO_NV", <<reg37>>)
  @@ 201 :> Plain("IT", "IT", "UNP_COND", <<Leaf("XYZ", "xyz", Span(3, 0), {}),
         Leaf("COND", "cond", Span(7, 4), {})>>)
  @@ 9 :> If(Plain("ADCr", "ADC", "MUST_COND", <<reg6, reg6, reg8>>), {"init"})
  @@ 10 :> If(Plain("ADCSr", "ADCS", "MUST_AL", <<reg6, reg6, reg8>>), {"outit"})
  @@ 230 :> Plain("LDMrl", "LDM", "COND", <<wreg1, glist1>>)
  @@ 231 :> If(Plain("LDMFDrl", "LDMFD", "COND", <<wreg1, glist1>>), {"asmonly"})
  @@ 232 :> If(Plain("LDMIArl", "LDMIA", "COND", <<wreg1, glist1>>), {"asmonly"})
  @@ 113 :> Plain("BXr", "BX", "COND", <<reg38>>)
  @@ 80 :> Plain("B", "B", "UNP_COND", <<label1>>)
  @@ 81 :> Plain("B", "B", "COND", <<label2>>)
  @@ 392 :> Plain("MOVr", "MOV", "COND", <<Gpr(<<7>> \o Span(2, 0), {"write"}), reg38>>)
  @@ 403 :> If(Plain("MOVr", "MOV", "MUST_COND", <<reg6, regsh11>>), {"init"})
  @@ 404 :> If(Plain("MOVSr", "MOVS", "MUST_AL", <<reg6, regsh11>>), {"outit"})
  @@ 108 :> Plain("BL", "BL", "COND", <<label4>>)
  @@ 172 :> Plain("DMB", "DMB", "COND", <<barrier0>>)
  @@ 458 :> Plain("ORRri", "ORR", "COND", <<Gpr(Span(11, 8), {"upc", "write"}),
         Gpr(Span(19, 16), {"nopc", "read"}), imm1>>)
  @@ 766 :> Plain("STRrm", "STR", "COND", <<Gpr(Span(15, 12), {"upc", "read"}), mem128>>)
  @@ 233 :> Plain("LDMrl", "LDM", "COND", <<wreg0, glist0>>)
  @@ 234 :> If(Plain("LDMFDrl", "LDMFD", "COND", <<wreg0, glist0>>), {"asmonly"})
  @@ 235 :> If(Plain("LDMIArl", "LDMIA", "COND", <<wreg0, glist0>>), {"asmonly"})
  @@ 986 :> Plain("ASRri", "ASR", "NO_NV", <<reg51, reg5, imm35>>)
  @@ 998 :> Plain("LSLri", "LSL", "NO_NV", <<reg51, reg5, imm35>>)
  @@ 1010 :> Plain("LSRri", "LSR", "NO_NV", <<reg51, reg5, imm35>>)
  @@ 1030 :> Plain("RORri", "ROR", "NO_NV", <<reg51, reg5, imm35>>)
  @@ 989 :> Plain("ASRr", "ASR", "NO_NV", <<reg33, reg9, reg49>>)
  @@ 1001 :> Plain("LSLr", "LSL", "NO_NV", <<reg33, reg9, reg49>>)
  @@ 1013 :> Plain("LSRr", "LSR", "NO_NV", <<reg33, reg9, reg49>>)
  @@ 1032 :> Plain("RORr", "ROR", "NO_NV", <<reg33, reg9, reg49>>)
  @@ 1024 :> Plain("POPl", "POP", "NO_NV", <<slist0>>)
  @@ 1022 :> Plain("POPl", "POP", "NO_NV", <<glist0>>)
  @@ 4327 :> Plain("VPOPl", "VPOP", "NO_NV", <<sz1, fslist0>>)
  @@ 4326 :> Plain("VPOPl", "VPOP", "NO_NV", <<sz3, fdlist1>>)
  @@ 4314 :> Plain("VMOVd", "VMOV", "UNCOND", <<vreg105, vreg102>>)
  @@ 4370 :> Plain("VRSHRdi", "VRSHR", "UNCOND", <<vreg105, vreg102, imm23>>)
  @@ 4380 :> Plain("VSHRdi", "VSHR", "UNCOND", <<vreg105, vreg102, imm23>>)
  @@ 982 :> Plain("ADDri", "ADD", "NO_NV", <<reg31, Fixed("REG", 16, {}), imm0>>)
  @@ 1002 :> Plain("LSLr", "LSL", "COND", <<reg6, reg6, reg8>>)
  @@ 1008 :> Plain("LSLSr", "LSLS", "UNP_COND", <<reg6, reg6, reg8>>)
  @@ 1023 :> Plain("POPl", "POP", "COND", <<glist0>>)

-----------------------------------------------------------------------------
(* encodings.inc; the keys are what the lookup tests *)

Full(isa, mask, bits, templates) == EncodingRow(isa, mask, bits, mask, templates, <<>>)
AliasRow(mask, bits, templates, cond) ==
  [Full("none", mask, bits, templates) EXCEPT !.aliascond = cond]
Key(row, key) == [row EXCEPT !.key = key]
Aliased(row, aliases) == [row EXCEPT !.aliases = aliases]
Branch(row) == [row EXCEPT !.attrs = {"branch"}]

EncodingRows ==
  0 :> Full("none", {}, {}, <<0>>)
  @@ 344 :> Key(Full("A32", W(\hfff, \h0), W(\h3a0, \h0), <<378>>), W(\hff0, \h0))
  @@ 694 :> Full("A32", W(\hf70, \h0), W(\h400, \h0), <<760>>)
  @@ 352 :> Aliased(Key(Full("A32", W(\hfff, \h10), W(\h1a0, \h0), <<389>>),
         W(\hff0, \h10)), <<914, 926, 938, 958>>)
  @@ 362 :> Aliased(Key(Full("A32", W(\hfff, \h90), W(\h1a0, \h10), <<400>>),
         W(\hff0, \h90)), <<917, 929, 941, 960>>)
  @@ 226 :> Full("A32", W(\hf70, \h0), W(\h510, \h0), <<260>>)
  @@ 227 :> Aliased(Full("A32", W(\hf70, \h0), W(\h410, \h0), <<261>>), <<952>>)
  @@ 238 :> Full("A32", W(\hf70, \h10), W(\h710, \h0), <<272>>)
  @@ 263 :> Key(Full("A32", W(\hf70, \hf0), W(\h160, \hd0), <<297>>), W(\he70, \hf0))
  @@ 217 :> Aliased(Full("A32", W(\hfd0, \h0), W(\h890, \h0), <<227, 228, 229>>), <<950>>)
  @@ 72 :> Branch(Full("A32", W(\hf00, \h0), W(\ha00, \h0), <<79>>))
  @@ 98 :> Branch(Full("A32", W(\hf00, \h0), W(\hb00, \h0), <<106>>))
  @@ 77 :> Key(Full("A32", W(\hfe0, \h7f), W(\h7c0, \h1f), <<84>>), W(\hee0, \h7f))
  @@ 539 :> Full("A32", W(\hfe0, \h70), W(\h7a0, \h50), <<588>>)
  @@ 1655 :> Full("A32", W(\hfeb8, \h9f0), W(\hf280, \h10), <<2651>>)
  @@ 1660 :> Full("A32", W(\hfeb8, \hdf0), W(\hf280, \h810), <<2656>>)
  @@ 1662 :> Full("A32", W(\hfeb8, \hcf0), W(\hf280, \hc10), <<2658, 2659, 2660>>)
  @@ 1664 :> Key(Full("A32", W(\hfeb8, \hff0), W(\hf280, \he30), <<2664>>),
         W(\hfeb8, \hef0))
  @@ 1658 :> Key(Full("A32", W(\hfb0, \hff0), W(\heb0, \ha00), <<2654>>), W(\hfb0, \h350))
  @@ 1548 :> Aliased(Key(Full("A32", W(\hf90, \hf00), W(\hc90, \ha00), <<2345, 2346>>),
         W(\hf90, \h700)), <<2329>>)
  @@ 1546 :> Aliased(Key(Full("A32", W(\hf90, \hf01), W(\hc90, \hb00), <<2342, 2343>>),
         W(\hf90, \h701)), <<2328>>)
  @@ 1425 :> Full("A32", W(\hffb0, \hf0f), W(\hf420, \h70f), <<2059, 2060, 2061, 2062>>)
  @@ 1428 :> Full("A32", W(\hffb0, \hf0f), W(\hf420, \ha0f), <<2071, 2072, 2073, 2074>>)
  @@ 1687 :> Key(Full("A32", W(\hf10, \hf1f), W(\he10, \hb10), <<2695, 2696, 2697, 2698,
         2699>>), W(\hf10, \h710))
  @@ 1781 :> Aliased(Full("A32", W(\hffb0, \hf50), W(\hf220, \h110), <<2875>>), <<2316,
         2344, 2350>>)
  @@ 135 :> Key(Full("A32", W(\hffff, \hfe20), W(\hf108, \h0), <<143>>), W(\hff3f, \h0))
  @@ 163 :> Key(Full("A32", W(\hffff, \hfff0), W(\hf57f, \hf050), <<171>>),
         W(\hfe7f, \h70))
  @@ 377 :> Key(Full("A32", W(\hfb0, \heff), W(\h100, \h200), <<419>>), W(\hfb0, \h2f0))
  @@ 52 :> Aliased(Full("A32", W(\hfff, \h0), W(\h28f, \h0), <<58>>), <<911>>)
  @@ 197 :> Key(Full("A32", W(\hff0, \hfff), W(\h190, \he9f), <<206>>), W(\hff0, \h3f0))
  @@ 104 :> Branch(Key(Full("A32", W(\hfff, \hfff0), W(\h12f, \hff10), <<112>>),
         W(\hff0, \hf0)))
  @@ 192 :> Full("T16", H(\hff00), H(\hbf00), <<201>>)
  @@ 9 :> Full("T16", H(\hffc0), H(\h4140), <<9, 10>>)
  @@ 218 :> Full("T16", H(\hf800), H(\hc800), <<230, 231, 232>>)
  @@ 105 :> Branch(Key(Full("T16", H(\hff87), H(\h4700), <<113>>), H(\hff80)))
  @@ 73 :> Branch(Full("T16", H(\hf000), H(\hd000), <<80>>))
  @@ 74 :> Branch(Key(Full("T16", H(\hf800), H(\he000), <<81>>), H(\he000)))
  @@ 355 :> Full("T16", H(\hff00), H(\h4600), <<392>>)
  @@ 364 :> Aliased(Full("T16", H(\hffc0), H(\h4080), <<403, 404>>), <<930, 936>>)
  @@ 100 :> Branch(Key(Full("T32", W(\hf800, \hd000), W(\hf000, \hd000), <<108>>),
         W(\h800, \hd000)))
  @@ 164 :> Key(Full("T32", W(\hffff, \hfff0), W(\hf3bf, \h8f50), <<172>>),
         W(\hbf1, \hfb70))
  @@ 414 :> Key(Full("T32", W(\hfbf0, \h8000), W(\hf040, \h0), <<458>>), W(\hbf0, \h8000))
  @@ 700 :> Key(Full("T32", W(\hfff0, \hd00), W(\hf840, \h900), <<766>>), W(\h1ff0, \hd00))
  @@ 219 :> Aliased(Key(Full("T32", W(\hffd0, \h0), W(\he890, \h0), <<233, 234, 235>>),
         W(\h1fd0, \h0)), <<951>>)
  @@ 914 :> AliasRow(W(\hfff, \h70), W(\h1a0, \h40), <<986>>, "Unconditionally")
  @@ 926 :> AliasRow(W(\hfff, \h70), W(\h1a0, \h0), <<998>>, "Unconditionally")
  @@ 938 :> AliasRow(W(\hfff, \h70), W(\h1a0, \h20), <<1010>>, "Unconditionally")
  @@ 958 :> AliasRow(W(\hfff, \h70), W(\h1a0, \h60), <<1030>>, "Unconditionally")
  @@ 917 :> AliasRow(W(\hfff, \hf0), W(\h1a0, \h50), <<989>>, "Unconditionally")
  @@ 929 :> AliasRow(W(\hfff, \hf0), W(\h1a0, \h10), <<1001>>, "Unconditionally")
  @@ 941 :> AliasRow(W(\hfff, \hf0), W(\h1a0, \h30), <<1013>>, "Unconditionally")
  @@ 960 :> AliasRow(W(\hfff, \hf0), W(\h1a0, \h70), <<1032>>, "Unconditionally")
  @@ 952 :> AliasRow(W(\hfff, \hfff), W(\h49d, \h4), <<1024>>, "Unconditionally")
  @@ 950 :> AliasRow(W(\hfff, \h0), W(\h8bd, \h0), <<1022>>, "BitCount(list) > 1")
  @@ 2329 :> AliasRow(W(\hfbf, \hf00), W(\hcbd, \ha00), <<4327>>, "Unconditionally")
  @@ 2328 :> AliasRow(W(\hfbf, \hf01), W(\hcbd, \hb00), <<4326>>, "Unconditionally")
  @@ 2316 :> AliasRow(W(\hffb0, \hf50), W(\hf220, \h110), <<4314>>, "N:Vn = M:Vm")
  @@ 2344 :> AliasRow(W(\hffb0, \hf50), W(\hf220, \h110), <<4370>>, "Never")
  @@ 2350 :> AliasRow(W(\hffb0, \hf50), W(\hf220, \h110), <<4380>>, "Never")
  @@ 911 :> AliasRow(W(\hfff, \h0), W(\h28f, \h0), <<982>>, "Never")
  @@ 930 :> AliasRow(H(\hffc0), H(\h4080), <<1002>>, "InITBlock")
  @@ 936 :> AliasRow(H(\hffc0), H(\h4080), <<1008>>, "!InITBlock")
  @@ 951 :> AliasRow(W(\hffff, \h0), W(\he8bd, \h0), <<1023>>, "BitCount(list) > 1")
=============================================================================
