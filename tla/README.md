# AMED in TLA+

A verification development for AMED, the multi-architecture disassembler in this repository.
AMED is sequential C: a caller hands `amed_decode_insn` a buffer, a machine mode and an
`amed_insn` of its own, and the decoder for the architecture fills the `amed_insn` in.  There
are no threads and no persistence.  What is hard about it is the long chain of steps over one
shared cursor, flags that later steps must not forget, buffers that end anywhere, 8-bit
counters, and an output record that is not cleared and so carries an earlier call's answers.

Paths in this file are relative to the root of the repository.

## 1. Inventory

| Part | Source | State it keeps | Operations | Modules |
|---|---|---|---|---|
| x86 decoder | `source/x86/decoder.c`, `db.h` | cursor (`pc`, `nb`), prefix state (`vfpc`, `mapidx`, `segment`, `last_f_prefix`), hash code and fields (`diagram`), addressing, the walk over argument nodes | prefix handlers, vector prefix handlers, map, opcode, lookup, ModRM/SIB/displacement, one handler per argument node | X86Fields, X86Decoder, X86Properties, X86Invariants, X86Proofs, X86SafetyProofs, X86MeaningProofs, X86Claims |
| x86 tables | `source/x86/include/*.inc` (generated) | none | `x86_lookup` | X86Tables |
| dispatcher, caller loop | `source/decoder.c`, `examples/` | `amed_context` and `amed_insn`, across calls | `amed_decode_insn`, advance by `length` | X86Stream, X86MeaningProofs, AArch32Decoder, AArch64Decoder, InsnCursor |
| AArch32 decoder | `source/aarch32/decoder.c`, `db.h` | opcode, the template tried, `aarch32_internal`; the IT block in the context, across calls | fetch and lookup, templates, one handler per node, conditional execution, IT, aliases | AArch32Operands, AArch32Decoder, AArch32Properties, AArch32History, AArch32Invariants, AArch32OperandProofs, AArch32Proofs, AArch32Claims |
| AArch64 decoder | `source/aarch64/decoder.c`, `db.h` | opcode, the template tried, `aarch64_internal`; nothing across calls | fetch and lookup, templates, one handler per node, alias conditions, aliases | AArch64Operands, AArch64Decoder, AArch64Properties, AArch64Invariants, AArch64OperandProofs, AArch64Proofs |
| ARM immediates, bit helpers | `source/armimm.c`, `utils/binary.h` | none | expansion functions | ArmImmediates, ArmBits, ArmBitsProofs |
| ARM tables | `source/aarch32/include/*.inc`, `source/aarch64/include/*.inc` (generated) | none | lookup, templates, nodes, tables of values | ArmNodes, AArch32Tables, AArch64Tables |
| datatype helpers | `source/utils/datatype.h` | none | sizes of datatypes | not modelled |
| printers, strings | `source/*/printer.c`, `sed.c`, `strings.c` | the caller's text buffer | formatting | not modelled |
| generator | `generator/*.pm` | none at run time | writes the tables | not modelled |
| manual, tests, examples | `html/`, `test/db/`, `examples/` | | | read as statements about the decoders |

How they interact.  The caller owns buffer, context and `amed_insn`.  `amed_decode_insn`
calls one decoder through a table; the decoder reads the buffer and the generated tables and
writes the `amed_insn`; a printer reads the `amed_insn` later.  All communication is by these
two structures.  Two pieces of state survive a call: the `amed_insn`, of which a decoder
clears only `attributes`, and on AArch32 the IT block in the context.

What makes each part correct.

- x86 decoder: the bytes consumed are exactly the bytes of the instruction and each is
  recorded once; nothing is read behind the buffer; prefixes mean the same in every order that
  the architecture calls the same; a forbidden prefix is never forgotten; an answer of success
  comes with complete arguments; every call ends and moves forward.
- dispatcher and loop: the positions visited are increasing and stay in the buffer; nothing
  of one instruction shows up in the next.
- AArch32: an instruction is described by one template, and a template that fails leaves nothing
  behind; its condition is the one its word, or its IT block, gives it; a write of PC is seen as
  a branch; no byte behind the buffer is read.
- AArch64 and immediates: the description is the first template that fits; an alias is another
  description of the same instruction; an immediate is the value the architecture defines.

The hazards of the code, each at its line, are in `PROJECT.json`.

## 2. Modules

| Module | What it holds |
|---|---|
| `X86Fields` | Pure operators on bytes: ModRM, SIB, displacement sizes, maps, prefix bytes. |
| `X86Decoder` | One call of `amed_x86_decode_insn`: variables, `Init`, an action per handler, `Spec`, the type invariant. Also the alternative helpers that test the properties (each marked `Mutant`). |
| `X86Properties` | What a call promises: safety, action property, liveness. |
| `X86Invariants` | The inductive invariant. |
| `X86Tables` | Rows of the generated tables. |
| `X86Stream` | The examples' loop: the decoder called again and again with one context and one `amed_insn`. |
| `InsnCursor` | The abstract specification of such a loop; `X86Stream`, `AArch32Decoder` and `AArch64Decoder` are shown to implement it. |
| `ArmBits` | Words as sets of bit positions, and the helpers of `utils/binary.h` on them. |
| `ArmImmediates` | `decode_vfp_imm` with its table, `decode_advsimd_imm`. |
| `ArmNodes` | The rows of the ARM tables (encodings, templates, nodes) as records, with what a row has unless it says otherwise. |
| `ArmManual` | The manual's pseudocode, written without the code: `A32ExpandImm`, `T32ExpandImm`, `AdvSIMDExpandImm`, `VFPExpandImm`, `DecodeImmShift`, `DecodeBitMasks`, the value of MOVZ and MOVN. |
| `AArch32Operands`, `AArch64Operands` | The handlers of argument nodes: what each writes, and when it refuses. |
| `AArch32Decoder`, `AArch64Decoder` | A call and the loop around it: variables, `Init`, the actions, `Spec`. |
| `AArch32Properties`, `AArch64Properties` | What a call, an alias, an IT and the loop promise. |
| `AArch32History` | The AArch32 decoder watched by two history variables: which block the next instruction stands in, by the instructions the caller has passed and not by the decoder's own `itblock`. |
| `AArch32Tables`, `AArch64Tables` | The rows of the generated tables the words of the instances reach. |
| `MCAArch32`, `MCAArch64` | Instances for TLC: words by instruction set. |
| `AArch32Claims` | Statements of comments, headers and the manual that the code does not meet. |
| `MCX86`, `MCX86Stream` | Instances for TLC: families of byte images. |
| `X86Claims` | Statements of docs, headers, comments and tests that the code does not meet. |
| `X86Proofs` | `TypeCorrect`, one lemma per handler. |
| `X86SafetyProofs` | Where the cursor is, what is answered, what is recorded: six theorems. |
| `X86MeaningProofs` | What prefixes, nodes and records mean, and that the loop is a cursor: seven theorems. |
| `ArmBitsProofs` | Lemmas about words: slices, fields, sums of bits, counts.  Five theorems: the expansion functions are the manual's. |
| `AArch32Invariants`, `AArch64Invariants` | The inductive invariants: what each place of the decoder may rely on. |
| `AArch32OperandProofs`, `AArch64OperandProofs` | What `decode_node` makes of the record it is given, one lemma per handler. |
| `AArch32Proofs`, `AArch64Proofs` | The theorems, one lemma per part of the invariant and one step per action. |

### X86Decoder and the code

`memory` and `context` are the caller's buffer and `amed_context`; `insn`, `flags`,
`arguments`, `bytecodes`, `bytecode_count` are the parts of `amed_insn` the properties speak of;
the rest is `x86_internal` under its own names.  `loc` is the place the decoder has reached:

    call -> scan -> opcode -> lookup -> modrm -> sib -> sibdisp -> disp -> template -> nodes -> return -> done
                       |                  ^                         |          nodes <-> ptr
                       +--(map 0f 0f)-----+   opcode2 <-------------+

| Place | Actions | Code |
|---|---|---|
| call | `RejectEmpty`, `Begin` | `amed_x86_decode_insn`, head of `decode_entry` |
| scan | `Rex`, `SegmentPrefix`, `OperandSizePrefix`, `AddressSizePrefix`, `LockPrefix`, `RepeatPrefix`, `EscapeMap`, `Vex2`, `Vex3`, `Xop`, `Evex`, `Mvex`, `OpcodeByte` | the `reenter` switch and the handlers it calls |
| opcode, opcode2 | `ModRMFirst`, `OpcodeFirst`, `OpcodeLast`, `NoOpcode` | below `no_more_data` |
| lookup | `LookUp` | `x86_lookup`, forced sizes, undefined flags |
| modrm ... disp | `ModRM`, `Sib`, `SibMissing`, `SibDisp`, `ModRMDisp` | `decode_modrm`, `decode_sib`, `decode_disp` |
| template, nodes, ptr | `Template`, one action per kind of node, `NodesDone` | `decode_template`, `decode_nodes`, `decode_node` |
| return | `Return` | end of `amed_x86_decode_insn` |

Early returns are actions or disjuncts of their own (`NoOpcode`, `SibMissing`,
`ImmediateMissing`, `MoffsMissing`, the second halves of `PtrSegment` and `PtrOffset`).
Answers the code ignores are ignored: `ModRMReturns` and `GiveUp` go on where `decode_entry` does.
`pc`, `nb` and `vfpc` are counted modulo `Wrap`, 2^8 in every run.

What the caller left in `amed_insn` is in the model: `Init` sets every flag, old bases and an
old `bytecode_count`, and `STALE` stands for a field this call has not written.

`X86Stream` adds the loop of `examples/example1.c` (lines 85-92).  `NextInsn` is its body: it moves the
context, hands the instruction to the printer (`printed` remembers what a reader of the `amed_insn` sees)
and calls again.  Everything the next call does not write it finds as the last one left it.

Abstracted: register numbers, datatypes, element sizes, disp8 scaling, broadcast ratios, the
values of immediates, category, extension and exception lists, printing attributes; the features
bits and the vector length of the hash code.  Where control depends on one of these the model
chooses: `is_ugly` of a shift count is free, and `x86_lookup` may answer any row whose modelled
selectors match.  Three arrangements the tables never contain are not modelled: a broadcast
qualifier without memory operand (assumed away by `Qualified`), an immediate encoded in IS4,
and a node list longer than `Slots`.  The comparison-like immediates `RNDC`, `ORDER`, `FEXCPC`,
`FPCT`, `SIGNC` and `CTL` go through `decode_arg_imm` and are `IMM` here.

### The ARM decoders and the code

Both decoders have the same plan, and so have their modules:

    call -> encoding -> template <-> node -> alias -> done
                ^                              |
                +------------------------------+   (an alias, decoded over the instruction)

| Place | Actions | Code |
|---|---|---|
| call | `RejectEmpty`, `Reject` (AArch32), `Fetch` | `amed_aarch32_decode_insn`, `amed_aarch64_decode_insn`: length, reading, lookup |
| encoding | `Undefined`, `FirstTemplate` | `decode_encoding`: the row's flags, the row of no instruction |
| template | `SkipTemplate`, `EnterTemplate`, `NoTemplate` | the loop over templates, head of `decode_template` |
| node | `DecodeNode`, `RefuseNode`; `ArmCondition`, `ThumbCondition`, `ItInstruction` (AArch32), `AcceptTemplate` (AArch64) | `decode_node`; the end of `decode_template`, with `decode_conditional_execution` and `decode_it` |
| alias | `NoAlias`, `TakeAlias` | `decode_alias`, `is_alias_condition_ok` |
| done | `NextInsn`, `Ended` | the loop of `examples/example1.c` |

`decode_node` is an operator in the module of the operands.  It takes and returns a record `w` of what a handler may
write: the argument, the flags, the token, the fields of the internal structure and `ok`, which the
handlers answer.  A handler that refuses half-way leaves in `w` what it had written, and `RefuseNode` keeps the
flags of it: the next template is tried on top of them, as in the code.  `arguments` holds the slots of the template
that is tried.  `decode_node` clears the attributes of a slot and the handler writes the members that go with the
type; what an earlier template left in the other members of the slot's union is not kept in the model, but for `token`.

`itblock` is the block of the context.  It is the one thing that a call leaves for the next; `is_in` is set by an
IT instruction and the code never clears it, and never moves `index`.  `token` is the low byte of
`arguments[0].token`: `decode_it` reads it, and no node of an IT instruction writes it, so that it holds what the
caller had there (`OldTokens`).  `dst_reg` of AArch32 is not initialised (`Garbage`).

Since `is_in` is not the truth about the block, `AArch32History` keeps two variables that only watch: `met`, an IT has been passed,
and `left`, how many instructions of its block have not.  They move with `NextInsn`, by what the call has returned and the mask of the word
(`BlockSize`), and restrict nothing: `HistorySpec` is `Spec` with an assignment to them in every step.

The rows of the tables are those of the generated files, under their indices and names.  The lookup tests the bits that the
generated lookup tests, its key, and not the whole mask.

Abstracted: operand sizes, datatypes and element counts; what is copied from a row and read by nobody else (class, page,
categories other than BRANCH, extensions); printing attributes.  A floating-point immediate counts in 128ths, which
every value of the VFP table is.  Members of the unions that a handler does not write are 0, except the token.  Templates for
the assembler only are skipped, as the decoder does.  Of AArch64 the alias conditions of SYS are missing, with the
rows that use them.

While they were written the operand models were compared with the compiled decoders: the model and the code gave the same
answer on every word of the instances.

## 3. Runs

The x86 runs take module `MCX86` or `MCX86Stream`, `Wrap` 256, `MaxBytecodes` 15 and the rows of `X86Tables`.  The
memory behind an image is the constant byte `Filler`.  The ARM runs take `MCAArch32` and `MCAArch64`: memory may hold any of
their words at any address, so that every word comes first, and every word comes behind every other.

| Run | Inputs | Question |
|---|---|---|
| `x86_prefixes` | up to 3 of 9 prefixes in every order before 7 opcodes, 3 modes | meaning of prefixes |
| `x86_operands` | 9 opcodes with every shape of ModRM and SIB and 8 opcodes with immediates, buffers ending after every byte | consumption and truncation |
| `x86_vectors` | VEX, XOP, EVEX, MVEX with good and bad payloads behind at most one prefix | vector prefixes, argument nodes |
| `x86_limits` | lengths -1, 0, 1, 15, 254..257 and up to 254 prefixes | 8-bit counters, full record list, termination |
| `x86_stream` | 14 instructions, each before, and again behind, each of the 14; lengths 1, 3, 6, 38; 2 modes | the loop over a buffer |
| `aarch32` | 107 words of A32, 36 of T16 and T32; lengths 0, 1, 3, 4, 10; with and without aliases; two old tokens, two old `dst_reg`; a mode that is none | one instruction, IT blocks, aliases, the loop |
| `aarch64` | 173 words; lengths 0, 2, 3, 4, 8; with and without aliases | one instruction, aliases, immediates, the loop |

Why the bounds are enough.  The prefix handlers keep six pieces of state and each writes at most three of
them, so that three prefixes in every order show every pair of handlers in both orders and with a
third between them; a fourth only repeats.  Truncation depends on the distance between `pc` and
`nb` alone, and every distance from 0 to the longest operand occurs.  The limits run crosses 15 records and
255 bytes from both sides.  In the stream run every instruction precedes every other, the record list is full
before the longest buffer ends, and three of the four lengths cut instructions.  `MaxAstray` ends the model, not the loop:
it follows a loop that has run past its buffer for 8 more bytes (4 in the ARM runs).

An ARM instruction depends on its word, the mode, the IT block, the options and the remains of the `amed_insn`; nothing else comes from
before.  A buffer of 10 bytes holds an IT and the four instructions of the longest block, and an IT, its one instruction and three behind
the end; so every Thumb word of 16 bits is decoded before any IT, at every place of a block, and behind it.  The lengths end the buffer inside a word.  The words are chosen so that
every handler of nodes, every rule of a condition, every alias condition and every way a template can fail occurs; each family says
above its definition which edges it holds (zero amounts, the last register of a bank, PC and SP, reserved values, lists that
end the bank).

What they show.

- *Prefixes.* `ForbiddenPrefixUndefined`, `LastRepeatPrefixWins`, `SegmentOverride` and
  `OperandSizeRule` relate the final flags and fields to the records of the prefix bytes met.  `OperandSizeRule` states the manual's
  sizes, and promises nothing of the two uses of 66 in which the code leaves another one: with a template that prefers 64 bits in long mode,
  and in 16-bit mode (both below).
- *Consumption.* `BytecodesTile`: the records laid end to end are the bytes consumed.
  `OvershootIsModRM`: `pc` passes the buffer by one byte at most and then nothing more is read.
- *Answers.* `RefusedOnlyWhenTruncated` and `StaleOnlyWhenTruncated` say when a call refuses
  and when a success is incomplete; `ArgumentsMatchTemplate` says what a complete one contains.
- *Vectors.* `LegacyFormsStay`: outside long mode LES, BOUND and POP with a memory operand, and LDS with mod 0 or 1, are not taken for vector
  prefixes.  With mod 2 `c5` is taken as VEX, as the comment at lines 433-435 has it: only bit 7 of the payload is asked.
- *Limits.* `Progress` and `Terminates`: every call returns, and with a length a caller can advance by.
- *Streams.* `SameBytesSameInsn`: an instruction reads the same wherever it stands, whatever was decoded before it into
  the same `amed_insn`; the base of an absolute address is excepted (below), and so are shift counts and the far pointer with REX.W,
  which `Insns` leaves out.  `StreamIsCursor`: the loop implements `InsnCursor`, that is, it moves forward, leaves the
  buffer by one byte at most while it is in it, and ends.  Once it has left the buffer, nothing is promised: the length is
  negative, `nb` says 255, and the loop goes on behind it.
- *AArch32.* `AcceptedDescribesInsn` and `AArch32TypeOK`: iform, encoding, arguments and count come from one template, whatever
  failed before it, and from the alias or the base but not from both.  `AliasOnlyAdds`: an alias takes back no flag.
  `ConditionIsEncoded`, `PcWriteBranches`, `DestructiveIsOverlap`, `ListsStayInBank`: relations between operands and flags.
  `PcWriteBranches` is about register operands (lists: below), `ConditionIsEncoded` about words that are an instruction.
  `ImmediatesExpand`, `VectorImmediatesExpand`, `ShiftsAreManual`, `BranchOffsetIsField`: the values are those of `ArmManual` and of the
  fields of the word, slot by slot, for the nodes of the template that was accepted.
  `ItBlockMatchesMask`: the block an IT leaves has the size and the letters of the manual's mask.  `FlagSettingFollowsIT`:
  a word that means ADCS outside a block and ADC inside is ADCS until an IT is passed and ADC in the block of the last one; what it is behind
  the end of the block is left to `claim_it_block`.  `LengthFits`: nothing
  behind the buffer is read.
- *AArch64.* `AcceptedIsFirstFit`: the answer is the first template that fits, and an alias whose templates all fail is seen
  as one.  `ConditionsAreEncoded`, `OffsetIsField`, `RegistersFollow`: conditions, offsets, lists and the pairs of CASP in both banks.  `LogicalImmediateIsManual`,
  `MovLoadsWideImmediate`, `BitfieldEncodesBack`: what an alias or an immediate shows encodes back into the word it came from.
- *Loops.* `StreamIsCursor` of both: on AArch32 the loop never leaves its buffer, on AArch64 by up to 3 bytes.
- *Steps.* `AdvanceIsRecorded`: no step consumes without recording unless the list is full.

Each property has a mutant of a handler (of the loop in one case) that it catches under the same configuration.

### Claims

Five runs take a statement of the repository that the code does not meet and show the counterexample, each on one image or
word.  The quotes are under `findings` in `PROJECT.json`.

- `claim_displacement`: with SIB base 5 and mod 1 or 2 the displacement is consumed twice.
- `claim_pushad`: PUSHAD has ten arguments, and there is room for eight.
- `claim_it_condition`: the first condition of an IT block is what the caller's `amed_insn` held before.
- `claim_labelj`: I1 and I2 are lost from the offset of a Thumb BL.
- `claim_it_block`: `FormIsInsideBlock` adds to `FlagSettingFollowsIT` that a block ends.  It does not: ADC behind the one instruction of an
  IT EQ is still shown in its form for the inside, where it is ADCS.

Further disagreements were met while modelling.  The model behaves like the code in each of them,
and no run is spent on them:

- `37` (AAA, valid outside 64-bit mode by `html/target/x86/AAA.html`) is flagged undefined:
  it is encoding 0, which `decode_entry` (line 1965) takes for "nothing found".
- `66 50` and `66 68` in long mode are a 32-bit PUSH (`p66 ? 1 : 2`, line 1981), and the latter takes a 4-byte
  immediate; `html/target/x86/PUSH.html` has a 16-bit form and no 32-bit one.  So with every template that prefers 64 bits.
- In 16-bit mode `66` leaves the operand size at 16 bits (`dfopsize >> 1`, line 1855), where it should select 32.
- An absolute address (`moffs`) keeps the `mem.base` its slot held before (lines 1484-1496).
- XACQUIRE without LOCK is acquiring (line 1638) although `html/target/x86/XACQUIRE_RELEASE.html`
  asks for LOCK, except for XCHG.
- XOP prefixes are recorded as `VEX3` (line 513) although `include/amed.h` has a bytecode type for them.
- LEA may load (line 1211): its address node is marked read.
- `8b` in a buffer of one byte is returned with length 2: the ModRM byte is consumed unseen (line 769).
- An immediate, or any operand, cut off by the end of the buffer leaves a call that succeeds with the
  `argument_count` of an earlier one (line 2000).
- A buffer of 256 bytes is refused as if it were empty, since `nb` is a `uint8_t` (line 183).
- The is4 byte of VPERMIL2PD is read twice (line 1268), against the comment above it (lines 1263-1264).
- With a buffer of 255 bytes, 254 prefixes and an opcode with ModRM `pc` wraps to 0
  and the call succeeds with length 0; `Progress` is stated below that length.

Of AArch32:

- LDM and POP with PC in their list are not `may_branch`: `decode_arg_glist` asks whether its node is written, and theirs are not
  marked so.
- VLD1 of a list that begins at D31 goes on with Q0: the limit is that of the Q registers (line 918).
- The alias of MOV with `asr #32` shows an amount of 0.
- A 16-bit B with a condition loses it: under Thumb only the IT block is asked (line 1173).
- The condition of an `else` in an IT block is `first ^ 1` (line 1080), but conditions are numbered from EQ at 1, so that the opposite of EQ
  is none.
- `index` is never moved, and `is_in` never cleared (`claim_it_block`): every later Thumb instruction is judged by the first condition of the
  last block, within it and behind it.
- `has_reg` is never set, so that `is_constructive` never is (line 1239).

Of AArch64:

- The operand of the alias LSL is a plain immediate over immr (line 843): d37df020, LSL X0, X1, #3, is shown with 61.
  `html/target/aarch64/lsl_ubfm.html:28` says `UBFM <Xd>, <Xn>, #(-<shift> MOD 64), #(63-<shift>)`.
- CSET is shown as CINC, which is listed first: the condition of CINC compares Rn and Rm and does not
  read that 31 is excluded.  `html/target/aarch64/cset_csinc.html:22` says "and is always the preferred disassembly."  (1a9f17e0)
- SXTB, SXTH and SXTW are shown as SBFX: `BFXPreferred` tests `uns` where the manual has its negation (line 94 and below;
  `html/target/aarch64/sxtw_sbfm.html:22`).
- `MoveWidePreferred` compares a remainder of C, which is not positive for a negative dividend (line 62 and below), and
  `SVEMoveMaskPreferred` computes with 32 bits where the manual has 64 (line 133 and below).
- `decode_logimm` answers an element of all ones, which its comment (lines 242-247) and the manual reserve.
- The MOV alias of a 32-bit MOVN shows a value whose upper 32 bits are ones.
- Shifts above 4 of an extended register are not undefined.
- Four bytes are read whatever the length is, unless it is 0 (line 1426).
- When all templates fail the call succeeds, with `iform` and `argument_count` of an earlier one (line 1403).

### Fairness

The decoder is a C function without blocking: once called it runs until it returns.  `Spec` has weak
fairness of `DecodeInsn`, the disjunction of the decoder's actions, and of nothing else; `Terminates`
rests on it.  `StreamSpec` has weak fairness of decoder and loop body together, one sequential program, and so have the ARM
specifications: theirs is written out as `[]<>HasEnded \/ []<><<Loop>>_vars`, with `~HasEnded` for `ENABLED <<Loop>>_vars`.  That the two
are the same is what the search for deadlocks shows.  The prefix loop needs no fairness of its own: each turn consumes a byte, and a full
record list does not stop it.

## 4. Proofs

Every theorem holds for every value of the constants that meets the assumptions named with it.  TLC evaluates the
assumptions on every run.

### x86

`TypeCorrect` (module `X86Proofs`) and the theorems of `X86SafetyProofs` and `X86MeaningProofs` hold for any images,
filler, lengths (also negative), machine modes, old contents, record limit, any `Wrap` above 1 and any tables
that satisfy `EntriesAssumption` (rows are typed, node lists fit `Slots`, a broadcast follows a memory operand).

| Theorem | States |
|---|---|
| `TypeCorrect` | `[](TypeOK /\ WalkInv)` |
| `OvershootBounded` | `[]OvershootIsModRM` |
| `RefusalsTruncated` | `[]RefusedOnlyWhenTruncated` |
| `StaleTruncated` | `[]StaleOnlyWhenTruncated` |
| `ForbiddenPrefixCaught` | `[]ForbiddenPrefixUndefined` |
| `RecordsFollowCursor` | `AdvanceIsRecorded` |
| `LengthMakesProgress` | `[]Progress` |
| `SegmentCorrect` | `[]SegmentOverride` |
| `LastRepeatCorrect` | `[]LastRepeatPrefixWins` |
| `ArgumentsCorrect` | `[]ArgumentsMatchTemplate` |
| `SizeCorrect` | `[]OperandSizeRule` |
| `LegacyCorrect` | `[]LegacyFormsStay` |
| `BytecodesCorrect` | `[]BytecodesTile`, where `8 * MaxBytecodes <= Wrap` |
| `LoopIsCursor` | `Cursor!Init /\ [][Cursor!Next]_(Cursor!cursor)`, the safety of `StreamIsCursor`, where no length is above `Wrap - 2` |

The two conditions are those of the code: 15 records of at most 8 bytes are 120 bytes, less than the 256 a `uint8_t` counts,
so that `pc` cannot come back to 0 while the records are still complete; and a buffer of 255 bytes lets `pc` wrap, so that the loop stands
still (section 3), which no shorter one does.

The argument.  None of the properties is inductive, since each speaks of the end of a call.  `Inductive`
in `X86Invariants` says what holds on the way:

- `WalkInv`: at most one slot is written per node passed.  It is part of `TypeCorrect` since without it
  `slot` could leave its range.
- `CursorInv`: `pc <= nb` before ModRM; where the buffer ends behind the opcode the guessed ModRM is 0, and so
  `decode_modrm` asks for no SIB and no displacement; a 3DNow! ModRM has been peeked.  These facts, and nothing in
  `decode_modrm` itself, keep the overshoot to one byte.
- `VectorInv`: `vfpc <= pc` while prefixes are scanned, so `vfpc` cannot wrap before `pc` runs out of
  buffer; a recorded forbidden prefix has made it positive; behind the lookup it has become `undefined`.
- `AnswerInv`: what a refusal, or a success with stale encoding, says of the distance to the end of the buffer.
- `LengthInv`: `nb` is the length modulo `Wrap`, and behind the opcode `pc` is positive.
- `PrefixInv`: while the list has room, `last_f_prefix` and `segment` are those of the last record of their kind
  (`LastMet`), and two overrides have left `ugly`.  `FunctionalityInv` carries the meaning from the head of the template to the end, and
  the two flags of lock elision with it.
- `SizeInv`: before the lookup `w` and `p66` say which prefixes were met, and `osz` is the size 66 gives unless there is a REX.W; the
  lookup then makes it the size of `OperandSize`.  That is what the code does in every case, the two of which `OperandSizeRule` promises nothing among
  them; `SizeIsManual` takes from it the cases in which code and manual agree.  Where the lookup stands differs for 3DNow!, whose ModRM comes first (`AheadOfLookUp`).
- `LegacyInv`: while prefixes are scanned every record is a prefix of one byte, so that the byte under `pc` is the first one behind all
  prefixes; if it begins a legacy form, no vector handler takes it and it becomes the opcode.
- `ArgumentsInv`: the slot is the number of showing nodes passed (`SlotOf`, a cardinality, not a count kept by a fold), and
  each of these nodes shows in the slot it is due; a later node writes a later slot or, behind a qualifier, the same empty one.
- `GuessInv`: a ModRM guessed inside the buffer is the byte `decode_modrm` will consume.  With it `TileInv`: each record lies where the bytes
  recorded before it end, in stream order.
- `LoopInv` is for the loop.  Between two calls the cursor still lies where the first one left it, so `WalkInv` and `CursorInv` do not hold
  there; `LoopInv` says what is left of them, which is enough for an empty buffer to be refused, and any other call begins anew.

Each part is preserved by every action, with one step per action or per group of actions that treat it
alike; the temporal steps combine these facts.  All parts were checked with TLC on the four runs of `MCX86`
before they were proved, and `LoopInv` on the run of `MCX86Stream`.

Records and nodes are sequences, and induction over them is not available; the invariants speak of the last record met, found by well-founded
order on the numbers (`Greatest`), and of cardinalities of sets of positions (`SlotOf`, `PlaceOf`), which one step changes by a known amount.

### AArch32

| Theorem (`AArch32Proofs`) | States |
|---|---|
| `Invariant` | `[]IInv` |
| `TypeCorrect` | `[]AArch32TypeOK` |
| `StaysInBuffer` | `[]LengthFits` |
| `AcceptedIsOneTemplate` | `[](TemplateAccepted => AcceptedDescribesInsn)` |
| `ConditionCorrect` | `[]ConditionIsEncoded` |
| `PcWritesAreFlagged` | `[](TemplateAccepted => PcWriteBranches)` |
| `ItCorrect` | `[]ItBlockMatchesMask` |
| `FlagSettingCorrect` | `HistorySpec => []FlagSettingFollowsIT`; all others are of `Spec` |
| `ListsCorrect` | `[]ListsStayInBank` |
| `ImmediatesCorrect` | `[]ImmediatesExpand` |
| `VectorImmediatesCorrect` | `[]VectorImmediatesExpand` |
| `ShiftsCorrect` | `[]ShiftsAreManual` |
| `BranchOffsetsCorrect` | `[]BranchOffsetIsField` |
| `AliasesAdd` | `AliasOnlyAdds` |
| `LoopIsCursor` | `Cursor!Init /\ [][Cursor!Next]_(Cursor!cursor)`, the safety of `StreamIsCursor` |

They hold for any words, lengths, remains of the `amed_insn`, and any tables that meet eleven assumptions of
`AArch32Decoder`, each of which the generated files keep to (all of their rows were checked, and not only those in `AArch32Tables`):

- `BufferAssumption`: lengths are not negative, words are words.
- `AArch32Assumption`: the indices of a row are indices of the tables; row 0 is the row of no instruction, and no alias is its own base.
- `TemplatesAssumption`: at most 8 nodes, and the parts of a node that hold a register number hold a number.
- `ConditionAssumption`: every template of A32 looks at the condition field, or the bits of the field are fixed;
  base and alias treat the condition alike, or one of the two does not look at it.  `decode_conditional_execution` runs only for the base
  (lines 1177 and below), so that an alias could otherwise show a condition it may not have.
- `ItAssumption`: IT is a 16-bit instruction, no alias is involved, and the lookup sends words without a mask to the hints.
- `FlagAssumption`: where a row has a form for an IT block, each of its templates says where it stands and is named for it, and so do the
  conditions of its aliases.
- `ImmediateAssumption`, `VectorAssumption`: which bits a node of an expanded immediate reads.  They are the same in all templates,
  but for the highest bit of a vector immediate, which is 24 in A32 and 28 in Thumb.
- `OffsetAssumption`: the nodes of B, BL and ADR, with field, sign and scale.
- `ShiftAssumption`: in A32 the amount of a shift is in the bits 11..7, and its type in 6..5, through the four rows of a table or
  none, or the row fixes both bits and the node the type that goes with them.
- `ListAssumption`: a list of general registers has at most sixteen bits, and VLDM and VPOP begin with a register of the bank they name.

The last six say where the bits of an operand are and not what becomes of them; that is for the code, and for the theorem.

`TemplateAccepted` says that the last template that was tried was taken.  The case it leaves out is an alias none of whose templates
decodes: the code then reports success over what the base and those templates wrote.  Whether such an alias exists
depends on the rows, and in the runs it is excluded by the tables.

The argument.  `IInv` in `AArch32Invariants` has nine parts.  `Shapes` and `Places` are what each place may assume of the state; without them the slots
of a failed template could not be told from those of the next.  `Read` says that the word was in the buffer.  `RowIsFound` ties the row that
is decoded to the word: it is the lookup's, or one of its aliases.  `Showing` follows a template node by node
(`TemplateShows`): what is shown so far belongs to this template, and a PC written through one of the slots has raised its flag.
`Conditions` carries the condition from the base to the end of its alias, in two forms: what `ConditionIsEncoded` says, and which of the base's templates
gave the condition (`BaseCondition`), without which the alias' own check could not be shown to agree.  `ItWords` keeps a word of IT apart from every alias.
`Meaning` says of each slot filled so far that it holds what its node's bits stand for in this word (`Means`): the expansion of the field, the type
and the amount a zero stands for, a list that stays in its bank.  It does not ask what the slot held before, so that it outlives the failure of a template.  `Forms` begins
where the first template is tried: the form shown is the one `is_in` asks for, and an alias that is decoded has a condition that holds.

That says nothing yet about blocks, as `is_in` is the decoder's own.  `HistoryInv` relates it to what the caller has passed: it is set once an IT was
passed, or has just been returned, and never before; and where instructions of a block are left there was an IT.  `IInv` holds of the decoder that is
watched as well (`HistoryWatches`, `WatchedInvariant`), and both together give `FlagSettingFollowsIT`.  That nothing clears `is_in` is used for the
inside of a block, and is why behind its end the form for the outside cannot be proved.

What a slot means is then compared with the manual.  `ReadEncodedin` collects ranges of bits from the highest on; `ReadConcat` splits such a collection, `RunIsField` says that
a single range is the manual's `Field`, and `SplitWord` and `ShiftedUnion` put the parts together as the pseudocode does (`i:imm3:imm8`).  The theorems on
the expansion functions (below) do the rest.

The handlers enter through one lemma each (`AArch32OperandProofs`): a handler keeps the record in shape, takes back no flag and raises only flags of operands (`Builds`),
answers an argument of the type that goes with the node, and flags a PC that is written.

### AArch64

| Theorem (`AArch64Proofs`) | States |
|---|---|
| `Invariant` | `[]IInv` |
| `TypeCorrect` | `[]AArch64TypeOK` |
| `FirstFitCorrect` | `[]AcceptedIsFirstFit` |
| `ConditionsCorrect` | `[]ConditionsAreEncoded` |
| `RegistersCorrect` | `[]RegistersFollow` |
| `OffsetCorrect` | `[]OffsetIsField` |
| `LogicalImmediateCorrect` | `[]LogicalImmediateIsManual` |
| `WideImmediateCorrect` | `[]MovLoadsWideImmediate` |
| `BitfieldsCorrect` | `[]BitfieldEncodesBack` |
| `LoopIsCursor` | `Cursor!Init /\ [][Cursor!Next]_(Cursor!cursor)`, the safety of `StreamIsCursor` |

The assumptions, also checked against all rows of the generated files:

- `BufferAssumption`, `AArch64Assumption`, `TemplatesAssumption`: as on AArch32; lists take their first register from a field of five bits.
- `PairAssumption`: the first four nodes of CASP and its orderings are the even and the odd half of two pairs, in the same
  field and the same bank.  The claim that the two are neighbours rests on this and on `BankEnds`.
- `ConditionAssumption`: only the row of B.cond asks for the condition, and the bits 31..24 of every other row differ from its
  bits.  `decode_condition` (called for the template's sake) and the property (which looks at the word) agree because of it.
  The row of no instruction may neither ask.  CINC and CSET end in their inverted condition.
- `OffsetAssumption`: the templates of B, B.cond, TBZ, ADR and ADRP end in the node of their offset, with its field, its sign and its scale.
- `LogicalAssumption`: a node marked as a logical immediate has thirteen bits, and in a row of 32 bits the first of them, N, is a fixed 0.
- `WideAssumption`: MOV of a wide immediate ends in a node that holds hw:imm16, inverted in the rows of MOVN and not in those of MOVZ.
- `BitfieldAssumption`: in the rows of 64 bits, an alias of a bit-field move ends in the nodes of its lsb and its width, in this order,
  which read immr and imms, and is named and conditioned as an insertion (`imms < immr`) or an extraction (`imms >= immr` or
  `BFXPreferred`); LSR and ASR end in immr, and their imms is fixed to ones.

The argument.  `AcceptedIsFirstFit` compares the answer with each earlier template *decoded alone*, which is not what the decoder did: it decoded them over
the remains of others.  `NodeFits` in `AArch64Invariants` bridges the two: it says when a node is refused in terms of the word alone (a field that its
table does not hold), and one lemma shows that `decode_node` refuses a node exactly then, on whatever record it is given.
So `Fitting` can say of every template passed that it was refused, without a word on what was in the record.  `Showing` follows the accepted template as on AArch32, and
its `Shows` gives the register a node encodes, with the next one for a pair and SP for 31, and the flag for half a pair; `RegistersFollow` is read off it for two neighbouring
nodes.  `Conditions` relates the flag to the word.  `Expanding` says of each slot filled so far whose node is an offset, a logical or a wide
immediate that it holds the expansion of that node's field in the word, in the datasize of the row, and of nothing that was in the slot before; the
expansion is then compared with the manual by lemmas on sets of bits (`ExtensionIsManual`, `WideIsManual`, `LogicalImmediateIsMasks`).
`Bitfields` says what the slots of a bit field hold.  The width is computed from `internal->lsb`, and not from the slot beside it, so that the invariant has to carry
the lsb from the step that decoded it to the next one (`LsbIsKept`), whatever a failed template or the base left in that field.  `Preferred` says that an alias is decoded only
where its condition holds.  The two together give `BitfieldEncodesBack`: without the condition the rotation and the width would not fit the register.  All parts were checked with TLC on the `aarch64` run before they were proved.

Sums of bits (`Num`) are folds over sets.  Induction is not available as a rule, so that the lemmas on them in `ArmBitsProofs` are proved by a
least counterexample: the smallest number, or the smallest word, of which the statement fails (`LeastNat`, `LeastWord`) leads to a smaller one.

### Immediates

| Theorem (`ArmBitsProofs`) | States, of every encoding |
|---|---|
| `A32ImmediateIsManual` | `decode_a32_imm(imm12) = A32ExpandImm(imm12)` |
| `T32ImmediateIsManual` | `decode_t32_imm(imm12) = T32ExpandImm(imm12)` |
| `VfpImmediateIsManual` | `decode_vfp_imm` accepts every byte and is `VFPExpandImm` |
| `AdvsimdImmediateIsManual` | `decode_advsimd_imm` is one lane of `AdvSIMDExpandImm` |
| `LogicalImmediateIsMasks` | `decode_logimm` is `DecodeBitMasks`, in 64 bits, 32, or as many as N gives, wherever that is defined, and refuses nothing that it defines |

These are about operators, and assume nothing of tables or states.  The runs compare the operand that a row shows with the manual
(`ImmediatesExpand`, `VectorImmediatesExpand`, `LogicalImmediateIsManual`) on the words they try; the theorems cover every value of the field.  That the
row hands the function the right field is proved with each decoder (`ImmediatesCorrect`, `VectorImmediatesCorrect`, `LogicalImmediateCorrect`).  Two limits are part of the statements.  The pseudocode of AArch32 has no case for
op 1 of cmode 15 (a double of AArch64), so that `AdvsimdImmediateIsManual` leaves it out.  `decode_logimm` accepts elements of all ones, which the manual reserves
(its comment says so and nothing tests it, section 3), so that `LogicalImmediateIsMasks` is no equivalence.

The argument.  The code puts bytes beside each other and shifts, the manual replicates elements and rotates.  `LowestBytes` and `BytesOfWord` say which bits a
list of bytes sets, `RotationsAgree` and `ElementRotations` that taking bit b from b + n is sending b to b - n, and `ByteValue` what a byte weighs, bit by bit.

### Only model-checked

- x86: `Terminates` (liveness); `SameBytesSameInsn`, which compares two calls of one behaviour: an invariant would have to hold the
  first call's whole course beside the second's.
- All three loops: the liveness in `StreamIsCursor`.
- AArch32: `DestructiveIsOverlap`.  `destructive` is not cleared when a template fails, nor is `dst_reg`, so that for all tables the
  flag may come from a node that no longer shows; an assumption that excludes this would have to speak of words and not of rows.
- AArch64: nothing but that liveness.  `BitfieldEncodesBack`, checked and proved, speaks of 64 bits: the rows of 32 bits do not fix the highest bit
  of immr, and what they answer for a rotation above 31 is not the manual's to say.

## 5. Plan

In this order; the most important behaviour first.

1. *Done*: the core, sections 2 to 4.
2. *Done*: `X86Stream` and `InsnCursor`.
3. *Done*: the AArch32 and AArch64 decoders with their operands, immediates and loops, sections 2 and 3.
4. *Done*: proofs of x86, section 4.
5. *Done*: proofs of ARM and of the expansion functions, section 4.
6. `X86Registers`: `decode_node_register_value` and `get_evex_disp8_n` as functions, checked against the
   ranges of the register files and the manual's disp8*N table.
7. Datatypes, and with them sizes and element counts of all three decoders; the aliases of SYS.

### Not modelled

Not planned: printers, string builders and string tables (text without state), the Perl generator (it runs on a
database the repository does not hold), the manual and the examples other than as statements about the decoders.

## 6. Running

    tlc -workers 2 -config x86_prefixes.cfg MCX86
    tlc -workers 2 -config x86_stream.cfg MCX86Stream
    tlc -workers 2 -config aarch32.cfg MCAArch32
    tlc -workers 2 -config aarch64.cfg MCAArch64
    tlc -workers 2 -config claim_pushad.cfg X86Claims
    tlc -workers 2 -config claim_labelj.cfg AArch32Claims
    tlc -workers 2 -config claim_it_block.cfg AArch32Claims
    tlapm X86SafetyProofs.tla
    tlapm X86MeaningProofs.tla
    tlapm ArmBitsProofs.tla
    tlapm AArch32Proofs.tla
    tlapm AArch64Proofs.tla
