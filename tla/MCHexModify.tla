----------------------------- MODULE MCHexModify -----------------------------
\* A small instance of HexModify: 13 bytes of data, a cache of 5, fast operands
\* of 4, a buffer of random bytes of 10, a thread for more than 6 bytes.
EXTENDS HexModify

At(offset, size) == [ullOffset |-> offset, ullSize |-> size]

Ones == {<<At(offset, size)>> : offset \in {0, 2}, size \in 1..11} \cup {<<At(0, 13)>>}
Several == {<<At(0, 2), At(5, 2)>>, <<At(7, 6), At(1, 4)>>, <<At(0, 3), At(4, 3), At(8, 3)>>,
            <<At(1, 4), At(6, 2), At(8, 4)>>}

Fills(mode) == CASE mode \in {"RAND_MT19937", "RAND_FAST"} -> {1}
                 [] mode = "OPERATION" -> {1, 2}
                 [] OTHER -> 1..5 \cup {7, 10}

AllCalls ==
  UNION {[mode : {m}, virtual : BOOLEAN, spans : Ones \cup Several, fill : Fills(m)] : m \in Modes}

\* Calls whose operand the cache holds a whole number of times or part of.
HeldCalls == {c \in AllCalls : CacheHoldsOperand(c) \/ SmallMod(c) = 0}

=============================================================================
