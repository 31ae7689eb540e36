--------------------------- MODULE AArch32Claims ---------------------------
(***************************************************************************)
(* What headers and comments say of the AArch32 decoder where the code     *)
(* does something else.  Each claim is refuted by a run of its own, on the *)
(* words below it.                                                         *)
(***************************************************************************)
EXTENDS AArch32History, AArch32Tables

\* amed.h, amed_it_block.conditions: `conditional execution for all instruction in
\* it-block'; the first one runs under the condition the IT instruction encodes.
\* decode_it takes it from the token of the argument that holds the mask, which is
\* what the caller's amed_insn had there.
ItConditionIsEncoded ==
  Returned /\ insn.iform = "IT" => itblock.conditions[1] = UInt(Field(opcode, 7, 4)) + 1

ItEq == THUMB :> {H(\hbf08)}

\* amed.h, amed_it_block.is_in: `instruction inside it-block'; its count is the `number of
\* instructions inside the it-block', and ADC has a form `(Inside IT block)' and one `(Outside
\* IT block)' in html/target/aarch32/adc_r.html.  decode_it sets is_in, and nothing clears it.
FormIsInsideBlock == FormOpen => (insn.iform \in PlainForms <=> left > 0)

\* IT EQ, with a block of one instruction, and ADC.
ItAdc == THUMB :> {H(\hbf08), H(\h4148)}

\* The comment in decode_arg_label: `I1 = NOT(J1 EOR S); I2 = NOT(J2 EOR S)', the bits below
\* the sign of BL's offset.  Both are shifted out of the word on the way back.
BranchOffsetIsManual ==
  Returned /\ insn.iform = "BL" =>
    LET S  == 26 \in opcode
        I1 == IF (13 \in opcode) = S THEN {23} ELSE {}
        I2 == IF (11 \in opcode) = S THEN {22} ELSE {}
        low == Shifted(Field(opcode, 25, 16), 12) \union Shifted(Field(opcode, 10, 0), 1)
    IN  arguments[1].imm =
          SignExtend((IF S THEN {24} ELSE {}) \union I1 \union I2 \union low, 25, 64)

\* BL with an offset of zero, and of -4.
Bl == THUMB :> {W(\hf800, \hf000), W(\hfffe, \hf7ff)}
=============================================================================
