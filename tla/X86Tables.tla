----------------------------- MODULE X86Tables -----------------------------
(***************************************************************************)
(* Rows of the generated tables (source/x86/include/: lookup-x86.inc,      *)
(* encodings.inc, templates.inc, arguments.inc, argument.inc) for the      *)
(* opcodes the model checker decodes, under their indices in the tables.   *)
(***************************************************************************)
EXTENDS X86Decoder

(* Argument nodes. *)

BaseNode(type) ==
  [type |-> type, bytes |-> [o \in 0..2 |-> 0], is4 |-> FALSE, encoded |-> FALSE,
   read |-> FALSE, write |-> FALSE, reserved |-> {}]

R(n)  == [n EXCEPT !.read = TRUE]
W(n)  == [n EXCEPT !.write = TRUE]
RW(n) == R(W(n))

Reg  == BaseNode("REG")
VReg == BaseNode("VREG")
PReg == BaseNode("PREG")
VIs4 == [R(VReg) EXCEPT !.is4 = TRUE]
Rm   == [BaseNode("MEM") EXCEPT !.encoded = TRUE]
Agen == [R(BaseNode("AGEN")) EXCEPT !.encoded = TRUE]
Stack == BaseNode("MEM")

Sized(type, b16, b32, b64) ==
  [BaseNode(type) EXCEPT !.bytes = [o \in 0..2 |-> <<b16, b32, b64>>[o + 1]]]
Ib(type) == Sized(type, 1, 1, 1)
Iz(type) == Sized(type, 2, 4, 4)
Iv(type) == Sized(type, 2, 4, 8)

Swz(reserved) == [BaseNode("SWZ") EXCEPT !.reserved = reserved]

-----------------------------------------------------------------------------
(* Rows. *)

Always == [s \in Selectors |-> BOOLEAN]
If(s, v) == [Always EXCEPT ![s] = {v}]

Row(map, opcode, enc, encoding, template, modrm, nodes) ==
  [map |-> map, opcode |-> opcode, enc |-> enc, when |-> Always,
   encoding |-> encoding, template |-> template, has_modrm |-> modrm,
   size64 |-> "none", lock |-> FALSE, f2 |-> "NONE", f3 |-> "NONE",
   branch |-> FALSE, unpredictable |-> FALSE, nodes |-> nodes]

Legacy(opcode, encoding, template, modrm, nodes) ==
  Row("NONE", opcode, "NONE", encoding, template, modrm, nodes)

On(row, s, v) == [row EXCEPT !.when = If(s, v)]
And(row, s, v) == [row EXCEPT !.when[s] = {v}]
OnReg(row) == On(row, "modreg", TRUE)
OnMem(row) == On(row, "modreg", FALSE)
D64(row) == [row EXCEPT !.size64 = "d64"]
F64(row) == [row EXCEPT !.size64 = "f64"]
Rep(row) == [row EXCEPT !.f2 = "REPNZ", !.f3 = "REP"]
Hle(row) == [row EXCEPT !.lock = TRUE, !.f2 = "XACQUIRE", !.f3 = "XRELEASE"]

AAA == Legacy(55, 0, 0, FALSE, <<RW(Reg), RW(Reg)>>)

OneByteRows == {
  AAA,
  On(Legacy(144, 300, 533, FALSE, <<>>), "fb", FALSE),                 \* NOP
  D64(Legacy(80, 373, 671, FALSE, <<R(Reg), RW(Reg), W(Stack)>>)),     \* PUSH
  D64(Legacy(104, 382, 680, FALSE, <<Iz("IMM"), RW(Reg), W(Stack)>>)), \* PUSH Iz
  Legacy(96, 390, 688, FALSE,                                          \* PUSHAD
         [i \in 1..10 |-> IF i = 10 THEN W(Stack) ELSE R(Reg)]),
  Legacy(97, 368, 663, FALSE,                                          \* POPAD
         [i \in 1..9 |-> IF i = 9 THEN R(Stack) ELSE W(Reg)]),
  OnReg(Legacy(139, 273, 476, TRUE, <<W(Reg), R(Reg)>>)),              \* MOV r, r/m
  OnMem(Legacy(139, 273, 477, TRUE, <<W(Reg), R(Rm)>>)),
  Legacy(184, 264, 466, FALSE, <<W(Reg), Iv("IMM")>>),                 \* MOV r, Iv
  Legacy(5, 24, 43, FALSE, <<RW(Reg), Iz("IMM")>>),                    \* ADD eAX, Iz
  OnMem(Hle(Legacy(1, 19, 34, TRUE, <<RW(Rm), R(Reg)>>))),             \* ADD m, r
  OnReg(Legacy(1, 19, 33, TRUE, <<RW(Reg), R(Reg)>>)),
  OnReg(Legacy(129, 21, 37, TRUE, <<RW(Reg), Iz("IMM")>>)),            \* ADD r/m, Iz
  OnMem(Hle(Legacy(129, 21, 38, TRUE, <<RW(Rm), Iz("IMM")>>))),
  Legacy(161, 277, 482, FALSE, <<W(Reg), R(Iv("MOFFS"))>>),            \* MOV eAX, moffs
  Legacy(154, 68, 150, FALSE,                                          \* CALL ptr
         <<R(BaseNode("PTR")), W(Reg), RW(Reg), W(Stack)>>),
  D64(Legacy(200, 136, 256, FALSE,                                     \* ENTER
             <<Sized("IMM", 2, 2, 2), Ib("IMM"), RW(Reg), RW(Reg), W(Stack)>>)),
  On([Legacy(232, 71, 156, FALSE, <<Iz("REL"), RW(Reg), RW(Reg), W(Stack)>>)
        EXCEPT !.f2 = "BND"], "long_mode", FALSE),                     \* CALL rel
  On([F64(Legacy(232, 71, 154, FALSE,
                 <<Sized("REL", 4, 4, 4), RW(Reg), RW(Reg), W(Stack)>>))
        EXCEPT !.f2 = "BND"], "long_mode", TRUE),
  [Legacy(116, 224, 404, FALSE, <<Ib("REL"), RW(Reg)>>)                \* JZ rel8
     EXCEPT !.f2 = "BND", !.branch = TRUE, !.when = If("long_mode", FALSE)],
  [F64(Legacy(116, 224, 403, FALSE, <<Ib("REL"), RW(Reg)>>))
     EXCEPT !.f2 = "BND", !.branch = TRUE, !.when = If("long_mode", TRUE)],
  And(On(Legacy(164, 282, 489, FALSE, <<W(Stack), R(Stack)>>), "f2", FALSE), "f3", FALSE),
  Rep(On(Legacy(164, 282, 490, FALSE, <<W(Stack), R(Stack), RW(Reg)>>), "f3", TRUE)),
  Rep(And(On(Legacy(164, 282, 491, FALSE, <<W(Stack), R(Stack), RW(Reg)>>), "f2", TRUE),
          "f3", FALSE)),                                               \* MOVSB
  OnReg(Legacy(193, 494, 868, TRUE, <<RW(Reg), R(Ib("SHIFT"))>>)),     \* SHL r/m, Ib
  OnMem(Legacy(193, 494, 869, TRUE, <<RW(Rm), R(Ib("SHIFT"))>>)),
  Legacy(141, 229, 411, TRUE, <<W(Reg), Agen>>),                       \* LEA
  Legacy(196, 246, 443, TRUE, <<W(Reg), R(Rm), W(Reg)>>),              \* LES
  Legacy(197, 245, 442, TRUE, <<W(Reg), R(Rm), W(Reg)>>),              \* LDS
  OnReg(D64(Legacy(143, 353, 647, TRUE, <<W(Reg), RW(Reg), R(Stack)>>))),
  OnMem(D64(Legacy(143, 353, 648, TRUE, <<W(Rm), RW(Reg), R(Stack)>>))), \* POP
  Legacy(98, 48, 111, TRUE, <<R(Reg), R(Rm)>>)}                        \* BOUND
-----------------------------------------------------------------------------
(* Rows of the other maps. *)

Plain(row) == And(And(On(row, "p66", FALSE), "f2", FALSE), "f3", FALSE)
With66(row) == On(row, "p66", TRUE)

EscapedRows == {
  And(Plain(Row("0F", 88, "NONE", 894, 1486, TRUE, <<RW(VReg), R(VReg)>>)),
      "modreg", TRUE),                                                 \* ADDPS
  And(Plain(Row("0F", 88, "NONE", 894, 1487, TRUE, <<RW(VReg), R(Rm)>>)),
      "modreg", FALSE),
  And(Plain(Row("0F", 194, "NONE", 908, 1514, TRUE, <<RW(VReg), R(VReg), Ib("CC")>>)),
      "modreg", TRUE),                                                 \* CMPPS
  And(Plain(Row("0F", 194, "NONE", 908, 1515, TRUE, <<RW(VReg), R(Rm), Ib("CC")>>)),
      "modreg", FALSE),
  Row("0F", 119, "NONE", 801, 1342, FALSE, <<>>),                      \* EMMS
  OnReg(Row("0F0F", 158, "NONE", 781, 1308, TRUE, <<RW(Reg), R(Reg)>>)), \* PFADD
  OnMem(Row("0F0F", 158, "NONE", 781, 1309, TRUE, <<RW(Reg), R(Rm)>>)),
  OnReg(Row("0F38", 0, "NONE", 1126, 1936, TRUE, <<RW(Reg), R(Reg)>>)),  \* PSHUFB
  OnMem(Row("0F38", 0, "NONE", 1126, 1937, TRUE, <<RW(Reg), R(Rm)>>)),
  OnReg(Row("0F3A", 15, "NONE", 1042, 1764, TRUE, <<RW(Reg), R(Reg), Ib("IMM")>>)),
  OnMem(Row("0F3A", 15, "NONE", 1042, 1765, TRUE, <<RW(Reg), R(Rm), Ib("IMM")>>))}
                                                                       \* PALIGNR

VectorRows == {
  OnReg(Row("0F", 88, "VEX", 1214, 2087, TRUE, <<W(VReg), R(VReg), R(VReg)>>)),
  OnMem(Row("0F", 88, "VEX", 1214, 2089, TRUE, <<W(VReg), R(VReg), R(Rm)>>)),
  OnMem(Row("0F38", 146, "VEX", 2566, 5209, TRUE, <<RW(VReg), R(Rm), RW(VReg)>>)),
  OnReg(Row("0F3A", 75, "VEX", 1263, 2206, TRUE, <<W(VReg), R(VReg), R(VReg), VIs4>>)),
  OnMem(Row("0F3A", 75, "VEX", 1263, 2208, TRUE, <<W(VReg), R(VReg), R(Rm), VIs4>>)),
  OnReg(Row("0F3A", 73, "VEX", 3180, 6613, TRUE,                       \* VPERMIL2PD
            <<W(VReg), R(VReg), R(VReg), VIs4, R(Ib("IMM"))>>)),
  OnReg(Row("XOPA", 16, "XOP", 3105, 6415, TRUE,                       \* BEXTR
            <<W(Reg), R(Reg), Sized("IMM", 4, 4, 4)>>)),
  OnMem(Row("XOPA", 16, "XOP", 3105, 6416, TRUE,
            <<W(Reg), R(Rm), Sized("IMM", 4, 4, 4)>>)),
  OnReg(Row("XOP8", 162, "XOP", 3187, 6635, TRUE,                      \* VPCMOV
            <<W(VReg), R(VReg), R(VReg), VIs4>>)),
  OnReg(Row("XOP9", 129, "XOP", 3182, 6619, TRUE, <<W(VReg), R(VReg)>>)), \* VFRCZPD
  And(OnReg(Row("0F", 88, "EVEX", 1216, 2094, TRUE,                    \* VADDPS
                <<W(VReg), R(PReg), R(VReg), R(VReg)>>)), "fb", FALSE),
  And(OnReg(Row("0F", 88, "EVEX", 1216, 2093, TRUE,
                <<W(VReg), R(PReg), R(VReg), R(VReg), BaseNode("RC")>>)), "fb", TRUE),
  OnMem(Row("0F", 88, "EVEX", 1216, 2095, TRUE,
            <<W(VReg), R(PReg), R(VReg), R(Rm), BaseNode("BCST")>>)),
  And(OnReg(Row("0F", 194, "EVEX", 1271, 2230, TRUE,                   \* VCMPPS
                <<W(Reg), R(PReg), R(VReg), R(VReg), Ib("CC")>>)), "fb", FALSE),
  And(OnReg(Row("0F", 194, "EVEX", 1271, 2229, TRUE,
                <<W(Reg), R(PReg), R(VReg), R(VReg), BaseNode("SAE"), Ib("CC")>>)),
      "fb", TRUE),
  OnMem(Row("0F", 194, "EVEX", 1271, 2231, TRUE,
            <<W(Reg), R(PReg), R(VReg), R(Rm), BaseNode("BCST"), Ib("CC")>>)),
  OnReg(Row("0F", 88, "MVEX", 3302, 6837, TRUE,                        \* VADDPS
            <<RW(VReg), R(PReg), R(VReg), R(VReg), Swz({})>>)),
  OnMem(Row("0F", 88, "MVEX", 3302, 6839, TRUE,
            <<RW(VReg), R(PReg), R(VReg), R(Rm), Swz({}), BaseNode("EVH")>>)),
  OnMem(Row("0F38", 144, "MVEX", 3431, 7123, TRUE,                     \* VPGATHERDD
            <<RW(VReg), RW(PReg), R(Rm), BaseNode("SBCST"), Swz({1, 2, 3}),
              BaseNode("EVH")>>))}

Rows == OneByteRows \union EscapedRows \union VectorRows
=============================================================================
