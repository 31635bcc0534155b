------------------------------ MODULE MCHexBkm ------------------------------
\* A small instance of HexBkm: up to three bookmarks that overlap, one of them of
\* two spans, the first of them behind the end of the data.
EXTENDS HexBkm

AllExtents == {<<<<1, 1>>>>, <<<<2, 1>>, <<0, 2>>>>}

=============================================================================
