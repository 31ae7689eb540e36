---------------------------- MODULE InsnCursor ----------------------------
(***************************************************************************)
(* What a loop over amed_decode_insn promises: a cursor that moves through *)
(* a buffer and stops.  It goes forward by whole instructions and never    *)
(* back, it may leave the buffer by some bytes of its last instruction     *)
(* (the ModRM the x86 decoder does not peek, the rest of a word AArch64    *)
(* reads), and nothing is promised of what it does from there.             *)
(***************************************************************************)
EXTENDS Integers

CONSTANTS
  Sizes,     \* sizes of the buffer
  Slack,     \* bytes the last instruction may lie behind the buffer
  Longest    \* what a length can say

VARIABLES position, rest, running

cursor == <<position, rest, running>>

Init == position = 0 /\ rest \in Sizes /\ running = TRUE

Move(n) == position' = position + n /\ rest' = rest - n /\ UNCHANGED running

\* One more instruction, of n bytes of the buffer.
Step == running /\ rest > 0 /\ \E n \in 1..rest : Move(n)

\* The last instruction ends behind the buffer.
Overrun == running /\ rest > 0 /\ \E n \in rest + 1..rest + Slack : Move(n)

\* Behind the buffer the size left is negative, and the cursor wanders.
Astray == running /\ rest < 0 /\ \E n \in 0..Longest : Move(n)

\* The loop ends: nothing is left, or no instruction begins with what is.
Stop == running /\ running' = FALSE /\ UNCHANGED <<position, rest>>

Next == Step \/ Overrun \/ Astray \/ Stop

\* In the buffer the loop goes on until it ends.
Within == rest >= 0 /\ Next

Spec == Init /\ [][Next]_cursor /\ WF_cursor(Within)
=============================================================================
