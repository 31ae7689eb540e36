------------------------------ MODULE ArmBits ------------------------------
(***************************************************************************)
(* Words of the ARM decoders and the helpers of source/utils/binary.h.  A  *)
(* word is the set of the positions of its one bits, so 64 bits need no    *)
(* arithmetic: & is \cap, | is \union, and a mask test compares sets.      *)
(***************************************************************************)
EXTENDS Integers, Sequences, FiniteSets, Folds

Low(n) == 0..n - 1

Word32 == SUBSET Low(32)
Word64 == SUBSET Low(64)

\* Shifts of a word of `width' bits.
Lsl(value, n, width) == {b \in Low(width) : b - n \in value}
Lsr(value, n) == {b - n : b \in {x \in value : x >= n}}

\* The bits hi..lo of a word, as a word and as a single bit of one.
Slice(value, hi, lo) == {b \in 0..hi - lo : b + lo \in value}

\* The unsigned value of a word.
Num(value) == MapThenFoldSet(LAMBDA x, y : x + y, 0, LAMBDA b : 2 ^ b,
                             LAMBDA S : CHOOSE b \in S : TRUE, value)

\* The word of an unsigned value that fits n bits.
Bits(number, n) == {b \in Low(n) : (number \div 2 ^ b) % 2 = 1}

\* replicate, replicate64: count copies of one bit.
replicate(bit, count) == IF bit = 1 THEN Low(count) ELSE {}

\* ror.  A rotation by 0 shifts by 32, which is undefined; whether the build takes the
\* shift modulo 32 or yields 0, the result is the value.
ror(value, rotation) == {b \in Low(32) : (b + rotation) % 32 \in value}

\* ror64, of an element of datasize bits.
ror64(value, rotation, datasize) ==
  IF rotation = 0 THEN value
  ELSE (Lsr(value, rotation) \union Lsl(value, datasize - rotation, 64))
         \cap replicate(1, datasize)

\* sign_extend64 from bit i.
sign_extend64(value, i) == IF i \in value THEN value \union i..63 ELSE value

\* Two's complement of 64 bits: the bits above the lowest one are inverted.
Negative(value) ==
  IF value = {} THEN {}
  ELSE LET low == CHOOSE b \in value : \A x \in value : b <= x
       IN  {b \in low..63 : b = low \/ b \notin value}

\* A product with a scale of the tables, which is a power of two.
Scaled(value, scale) == Lsl(value, CHOOSE k \in 0..12 : 2 ^ k = scale, 64)

\* get_hi_bit_pos (0 for the zero word, too) and get_bit_count.
get_hi_bit_pos(value) ==
  IF value = {} THEN 0 ELSE CHOOSE b \in value : \A x \in value : x <= b

get_bit_count(value) == Cardinality(value)

\* A sequence, of whatever it holds.
IsSequence(s) == s \in Seq({s[i] : i \in DOMAIN s})

\* The loop over the one bits of a list of registers: their positions, from the lowest up.
OneBits(value) ==
  [n \in 1..Cardinality(value) |->
     CHOOSE b \in value : Cardinality({x \in value : x < b}) = n - 1]

\* read_encodedin_value: `fields' are the bit positions of the encoding, the most
\* significant first, as the masks of get_masked_value gather them.
ReadEncodedin(opcode, fields) ==
  {i \in Low(Len(fields)) : fields[Len(fields) - i] \in opcode}
=============================================================================
