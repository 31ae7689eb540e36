--------------------------- MODULE AArch32History ---------------------------
(***************************************************************************)
(* The AArch32 decoder and its loop, watched from outside: two history     *)
(* variables remember which instructions the caller has passed, so that    *)
(* the IT block the next one stands in is the program's and not what the   *)
(* decoder's own itblock says it is.  They allow every behaviour of Spec.  *)
(***************************************************************************)
EXTENDS AArch32Properties

VARIABLES
  met,    \* an IT has been passed
  left    \* how many instructions of its block have not

history == <<met, left>>

HistoryInit == Init /\ met = FALSE /\ left = 0

\* An IT begins a block, also within another one; any other instruction takes its place in
\* the block.
Pass ==
  IF ~InA32 /\ insn.iform = "IT"
  THEN met' = TRUE /\ left' = BlockSize(Field(opcode, 3, 0))
  ELSE met' = met /\ left' = IF left > 0 THEN left - 1 ELSE 0

HistoryNext ==
  \/ NextInsn /\ Pass
  \/ (DecodeInsn \/ Ended) /\ UNCHANGED history

HistorySpec == HistoryInit /\ [][HistoryNext]_<<vars, history>> /\ Fairness

-----------------------------------------------------------------------------
(* The forms that set the flags.                                           *)

\* A word of ADC, MOV, LSL and their like means two instructions.
FormOpen == Returned /\ ~InA32 /\ DependsOnIT(Encodings[BaseEncoding])

\* Such a word is shown as the one that sets the flags before any IT, and as its twin that does
\* not throughout the block of the last one, first template or alias.  Behind the end of the
\* block it should set them again; the code never clears is_in (line 1120), and AArch32Claims
\* shows that it does not.
FlagSettingFollowsIT ==
  FormOpen =>
    /\ insn.iform \in SettingForms \union PlainForms
    /\ ~met => insn.iform \in SettingForms
    /\ left > 0 => insn.iform \in PlainForms
=============================================================================
