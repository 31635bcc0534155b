-------------------------- MODULE MCHexUndoHistory --------------------------
\* A small instance of HexUndoHistory: three bytes; one span, a longer one
\* that is larger than the cache, and two disjoint ones.
EXTENDS HexUndoHistory

At(offset, size) == [ullOffset |-> offset, ullSize |-> size]

MCSpans == {<<At(0, 1)>>, <<At(1, 2)>>, <<At(2, 1), At(0, 1)>>}

=============================================================================
