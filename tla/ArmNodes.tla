------------------------------ MODULE ArmNodes ------------------------------
(***************************************************************************)
(* What the two ARM decoders read of their generated tables (aarch32/db.h, *)
(* aarch64/db.h): argument nodes, templates and encodings, and the helpers *)
(* every operand decoder is built from.                                    *)
(***************************************************************************)
EXTENDS ArmImmediates, TLC

VARIABLE opcode   \* the instruction word, as the set of its one bits

\* A node without compound parts.  `enc' is empty unless the node has an encodedin;
\* `table' maps what the encodedin reads to rows of a table, or is empty.  `scale' is
\* also arg0.
Leaf(type, symbol, enc, attrs) ==
  [type |-> type, symbol |-> symbol, enc |-> enc, attrs |-> attrs, table |-> <<>>,
   value |-> 0, scale |-> 0, sub |-> <<>>]

Fixed(type, value, attrs) == [Leaf(type, "none", <<>>, attrs) EXCEPT !.value = value]
Tabled(node, table) == [node EXCEPT !.table = table]
Times(node, scale) == [node EXCEPT !.scale = scale]

\* A node with parts: `sub' maps their roles to nodes.
Compound(type, sub, attrs) ==
  [Leaf(type, "none", <<>>, attrs) EXCEPT !.sub = sub, !.value = "NONE"]

Has(node, role) == role \in DOMAIN node.sub

\* The bits hi..lo of an encodedin, the most significant first.
Span(hi, lo) == [i \in 1..hi - lo + 1 |-> hi + 1 - i]

\* A node whose value, or whatever its encodedin stands for, is a number.
IsNumber(node) ==
  /\ node.enc \in Seq(Nat) /\ node.value \in Int
  /\ \A raw \in DOMAIN node.table : node.table[raw].value \in Int

\* A row of a table: its value, the amount that comes with a shift, and whether it has
\* a name.
Tv(value, amount) == [value |-> value, amount |-> amount, representable |-> TRUE]
Unnamed(value) == [Tv(value, 0) EXCEPT !.representable = FALSE]

\* A template: accepted where the word has `bits' under `mask'.
TemplateRow(iform, mnemonic, mask, bits, cond, attrs, nodes) ==
  [iform |-> iform, mnemonic |-> mnemonic, mask |-> mask, bits |-> bits, cond |-> cond,
   attrs |-> attrs, arguments |-> nodes]

\* An encoding, with the templates it has (their indices) and its aliases.  The lookup
\* reaches it by the bits `key' of its mask.
EncodingRow(isa, mask, bits, key, templates, aliases) ==
  [isa |-> isa, mask |-> mask, bits |-> bits, key |-> key, templates |-> templates,
   aliases |-> aliases, aliascond |-> "none", attrs |-> {}, datasize |-> 0]

Under(word, row) == word \cap row.mask = row.bits

-----------------------------------------------------------------------------

\* What the encodedin of a node reads from the word.
Raw(node) == ReadEncodedin(opcode, node.enc)

\* What an encodedin stands for.
Encoded(node, encoding) ==
  IF node.table = <<>> THEN [definition |-> "ENCODEDIN", value |-> encoding]
  ELSE IF encoding \notin DOMAIN node.table THEN [definition |-> "NONE", value |-> 0]
  ELSE [definition |-> "TABLE", value |-> node.table[encoding].value]

\* decode_any: the definition it finds, and the value.
decode_any(node) ==
  IF node.enc = <<>> THEN [definition |-> "VALUE", value |-> node.value]
  ELSE Encoded(node, Num(Raw(node)))

\* A 32-bit result of signed arithmetic.
Word32Of(number) ==
  IF number >= 0 THEN Bits(number, 31) ELSE Negative(Bits(-number, 31)) \cap Low(32)

-----------------------------------------------------------------------------
(* Operands are decoded on a record of the argument, the flags of the      *)
(* instruction and the fields of the decoder's internal state.  What a     *)
(* handler wrote before it failed stays written.                           *)

BlankArgument ==
  [type |-> "NONE", attrs |-> {}, reg |-> 0, index |-> 0, imm |-> {}, list |-> <<>>,
   base |-> 0, regoff |-> 0, immoff |-> {}, shift |-> "NONE", amount |-> 0, rs |-> 0,
   token |-> 0]

Failed(w) == [w EXCEPT !.ok = FALSE]
Then(w, Handler(_)) == IF w.ok THEN Handler(w) ELSE w
Raise(w, flags) == [w EXCEPT !.flags = @ \union flags]
Only(condition, flags) == IF condition THEN flags ELSE {}

\* An element's index, unless it is not in its table.
WithIndex(w, idx) ==
  IF idx.definition = "NONE" THEN Failed(w)
  ELSE [w EXCEPT !.arg.index = idx.value, !.arg.attrs = @ \union {"has_index"}]

\* The attributes of an argument among `names' are those of the node.
Attrs(arg, names, node) == (arg.attrs \ names) \union (node.attrs \cap names)
=============================================================================
