------------------------------- MODULE MCX86 -------------------------------
(***************************************************************************)
(* Instances of the x86 decoder for TLC: the rows of X86Tables and, per    *)
(* run, a family of byte images; the memory behind an image is Filler.     *)
(***************************************************************************)
EXTENDS X86Invariants, X86Tables

\* Sequences of up to n bytes of P, each followed by each of the tails T.
Prefixed(P, n, T) ==
  {p \o t : p \in UNION {[1..k -> P] : k \in 0..n}, t \in T}

-----------------------------------------------------------------------------
(* Prefixes in every order before opcodes that give them a meaning: NOP,   *)
(* ADD (XACQUIRE, XRELEASE, LOCK), MOVSB (REP), JZ (BND), PUSH (64 bits by *)
(* default), a VEX instruction and the byte 6 no row describes.            *)

PrefixTails ==
  {<<144>>, <<1, 8>>, <<164>>, <<116, 0>>, <<80>>, <<197, 240, 88, 194>>, <<6>>}

PrefixImages ==
  Prefixed({OPSIZE, ADSIZE, LOCK, REPNE, REP, 46, 100, 72, 64}, 3, PrefixTails)

-----------------------------------------------------------------------------
(* Operands: ModRM with and without SIB and displacement, immediates, far  *)
(* pointers and absolute offsets, cut off after every byte.  Filler 158 is *)
(* also the opcode of PFADD, which follows its ModRM.                      *)

ModRMs == {ModRMByte(mod, 1, rm) : mod \in 0..3, rm \in {0, 4, 5}}
Sibs   == {0, 37, 97}

OperandImages ==
  Prefixed({ADSIZE, 72}, 1,
           {o \o <<m, s>> : o \in {<<139>>, <<141>>, <<129>>, <<193>>, <<15, 15>>,
                                   <<15, 56, 0>>, <<15, 58, 15>>, <<15, 194>>, <<197>>},
                            m \in ModRMs, s \in Sibs})
  \union Prefixed({OPSIZE, ADSIZE, 72}, 1,
                  {<<b>> : b \in {5, 97, 104, 154, 161, 184, 200, 232}})

-----------------------------------------------------------------------------
(* Vector prefixes, accepted and refused, behind at most one other prefix. *)

VectorBytes ==
  {<<197, p>> \o t : p \in {240, 112, 241}, t \in {<<88, 194>>, <<88, 2>>}}
  \union {<<196, p, q>> \o t : p \in {225, 226, 227, 228, 97}, q \in {104, 232},
                               t \in {<<88, 194>>, <<146, 4>>, <<75, 194>>, <<73, 194>>}}
  \union {<<143, p, q>> \o t : p \in {232, 233, 234, 235, 0}, q \in {120, 248},
                               t \in {<<16, 194>>, <<162, 194>>, <<129, 194>>}}
  \union {<<98, p, q, r>> \o t : p \in {241, 242, 240, 0}, q \in {116, 112, 240},
                                 r \in {72, 88, 25, 120},
                                 t \in {<<88, 194>>, <<88, 2>>, <<194, 194>>, <<194, 2>>,
                                        <<144, 4>>}}

VectorImages == Prefixed({OPSIZE, 46, 72}, 1, VectorBytes)

-----------------------------------------------------------------------------
(* The limits: 15 records, a buffer length in a uint8_t, no bytes at all.  *)

LimitLengths == {-1, 0, 1, 15, 254, 255, 256, 257}

LimitImages ==
  {[i \in 1..n |-> OPSIZE] \o t : n \in {0, 12, 13, 14, 253, 254},
                                 t \in {<<144>>, <<139, 0>>, <<15, 15>>, <<80>>}}
=============================================================================
