---------------------------- MODULE MCHexFindAll ----------------------------
\* A small instance of HexFindAll: searches of two bytes in a range of six.  Of
\* virtual data the cache holds four, and a chunk begins two bytes after the
\* one before it: two steps or one, or none if the step is three (fBigStep).
\* From 1, the steps of two do not meet the last chunk.
EXTENDS HexFindAll

Searches(steps) ==
  [replace : {FALSE}, small : BOOLEAN, virtual : BOOLEAN, from : {0, 1}, step : steps,
   sizeRepl : {1}, limit : {2, 9}]

Replacements(steps) ==
  [replace : {TRUE}, small : BOOLEAN, virtual : {FALSE}, from : {0}, step : steps,
   sizeRepl : {1, 3}, limit : {9}]

AllRequests == Searches(1..3) \cup Replacements(1..3)

WorkerReplacements == {r \in Replacements({1}) : ~r.small}

=============================================================================
