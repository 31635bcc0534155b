------------------------------- MODULE HexScan -------------------------------
(***************************************************************************)
(* The search functions of the search dialog (CHexDlgSearch.cpp): forward  *)
(* and backward over memory chunks, and, for data of one, two or four      *)
(* bytes and a step of one, forward by vectors.  A search s is a record of *)
(* SEARCHFUNCDATA's fields, with the data it is made in and what the       *)
(* function's template arguments say of the comparison: the bytes of a     *)
(* character, whether '?' matches any, whether data is lowered first.      *)
(* Offsets are flat and data is a function from offsets to bytes.          *)
(***************************************************************************)
EXTENDS Integers, Sequences, FiniteSetsExt

CONSTANTS
  Lane,      \* 16: the bytes of a 128-bit lane of a vector
  Lanes,     \* 1 in VEC128, 2 in VEC256
  CacheSize, \* GetCacheSize(): of virtual data, this much is had at once
  Wildcard,  \* m_uWildcard
  Capitals,  \* 'A' to 'Z'
  ToLower    \* 'a' - 'A'

ASSUME ScanAssumption ==
  /\ Lane \in Nat \ {0} /\ Lanes \in {1, 2} /\ CacheSize \in Nat \ {0}
  /\ Wildcard \in Nat /\ Capitals \subseteq Nat /\ ToLower \in Nat

NotFound == -1  \* a FINDRESULT that is not found

Least(a, b) == IF a <= b THEN a ELSE b
FirstOf(S) == IF S = {} THEN NotFound ELSE Min(S)
LastOf(S) == IF S = {} THEN NotFound ELSE Max(S)

Size(s) == Len(s.find)
GetSentinel(s) == s.rngEnd + 1
GetLastSearchOffset(s) == GetSentinel(s) - Size(s)

\* A character of one byte or two, least significant first.
Char(f, at, width) == [i \in 1..width |-> f[at + i - 1]]
IsChar(char, C) == char[1] \in C /\ \A i \in 2..Len(char) : char[i] = 0
Lowered(char) == IF IsChar(char, Capitals) THEN [char EXCEPT ![1] = @ + ToLower] ELSE char

\* Mutant: data is compared as it is.
CharAsItIs(s, char) == char
InData(s, char) == IF s.lower THEN Lowered(char) ELSE char

\* MemCmp, and "== !fInverted" of its callers.
MemCmp(s, o) ==
  \A i \in {j \in 0..Size(s) - 1 : j % s.width = 0} :
    LET what == Char(s.find, i + 1, s.width)
    IN  \/ s.wild /\ IsChar(what, {Wildcard})
        \/ InData(s, Char(s.data, o + i, s.width)) = what
Hit(s, o) == MemCmp(s, o) # s.inverted

-----------------------------------------------------------------------------
(* CalcMemChunks                                                           *)

GetSearchRngSize(s) ==
  IF s.forward THEN GetSentinel(s) - s.start ELSE (s.start - s.rngStart) + Size(s)

RoundedUp(total, part) ==
  IF total > part THEN (total \div part) + (IF total % part > 0 THEN 1 ELSE 0) ELSE 1

\* Chunks of at most this size: the offsets in each, and whether a step is longer.
Chunks(s, size) ==
  LET max == size - Size(s)
      big == s.virtual /\ s.step > max
  IN  [chunks |-> IF ~s.virtual THEN 1
                  ELSE RoundedUp(GetSearchRngSize(s), IF big THEN s.step ELSE max),
       size |-> size, max |-> max, big |-> big]

CalcMemChunks(s) ==
  IF s.start + Size(s) > GetSentinel(s)
  THEN [chunks |-> 0, size |-> 0, max |-> 0, big |-> FALSE]
  ELSE Chunks(s, IF s.virtual THEN Least(CacheSize, GetSearchRngSize(s))
                              ELSE GetSearchRngSize(s))

-----------------------------------------------------------------------------
(* Vectors: MemCmpVecEQByte1, -2, -4 and their NEQ forms                   *)

VecSize == Lane * Lanes

\* _mm_srli_si128, _mm256_srli_si256: each lane is shifted k bytes to the right
\* by itself, and filled up with zeros.
Shifted(block, k) ==
  [i \in 0..VecSize - 1 |-> IF (i % Lane) + k < Lane THEN block[i + k] ELSE 0]

\* _mm_cmpeq_epi8 (16, 32) and movemask: the bytes of the elements that are equal.
MaskEQ(vec, what) ==
  {i \in 0..VecSize - 1 :
     \A j \in 1..Len(what) : vec[i - (i % Len(what)) + j - 1] = what[j]}

\* Mutant: the bits behind the shifted data count.
EveryBit(k, width) == k..VecSize - 1

\* The bits that are left of the mask of the data shifted by k.
KeptBits(k, width) == IF k = 0 THEN 0..VecSize - 1 ELSE k..VecSize - 1 - width + k

\* The position the vector comparison returns; VecSize or more if there is none.
FirstBit(bits, what) ==
  LET all == UNION {bits[k] : k \in 0..Len(what) - 1} IN IF all = {} THEN VecSize ELSE Min(all)

Mask(block, what, k) == {i + k : i \in MaskEQ(Shifted(block, k), what)}

MemCmpVecEQ(block, what) ==
  FirstBit([k \in 0..Len(what) - 1 |-> KeptBits(k, Len(what)) \cap Mask(block, what, k)], what)

MemCmpVecNEQ(block, what) ==
  FirstBit([k \in 0..Len(what) - 1 |-> KeptBits(k, Len(what)) \ Mask(block, what, k)], what)

-----------------------------------------------------------------------------
(* Searching forward                                                       *)

\* One cycle of a vector function: a vector, or what is left of the chunk.
BlockHit(s, at, offset, max) ==
  IF offset + VecSize <= max
  THEN LET block == [i \in 0..VecSize - 1 |-> s.data[at + offset + i]]
           res   == IF s.inverted THEN MemCmpVecNEQ(block, s.find) ELSE MemCmpVecEQ(block, s.find)
       IN  IF res < VecSize THEN at + offset + res ELSE NotFound
  ELSE FirstOf({o \in at + offset..at + max : Hit(s, o)})

\* The vectors overlap so that data that crosses them is found.
Blocks(s, max) == {b \in 0..max : b % (VecSize - Size(s) + 1) = 0}

\* The chunk after one; the last is smaller.
ChunkAfter(s, prev, big) ==
  LET at   == prev.at + (IF big THEN s.step ELSE prev.max)
      size == Least(prev.size, GetSentinel(s) - at)
  IN  [at |-> at, size |-> size, max |-> size - Size(s)]

\* The chunks a forward search goes through.
InChunksFwd(s, c) ==
  LET chunk[i \in 1..c.chunks] ==
        IF i = 1 THEN [at |-> s.start, size |-> c.size, max |-> c.max]
                 ELSE ChunkAfter(s, chunk[i - 1], c.big)
  IN  {ch \in {chunk[i] : i \in 1..c.chunks} : ch.at <= GetLastSearchOffset(s)}

ChunksFwd(s) == InChunksFwd(s, CalcMemChunks(s))

\* The eight comparisons of the unrolled loop's cycle are a step apart.
StepsUp(s, ch) == {o \in ch.at..ch.at + ch.max : (o - ch.at) % s.step = 0}

SearchFuncFwd(s) ==
  FirstOf({o \in UNION {StepsUp(s, ch) : ch \in ChunksFwd(s)} : Hit(s, o)})

SearchFuncVecFwd(s) ==
  FirstOf({BlockHit(s, ch.at, b, ch.max) :
             <<ch, b>> \in {<<c, d>> \in ChunksFwd(s) \X Blocks(s, s.rngEnd) : d <= c.max}}
          \ {NotFound})

-----------------------------------------------------------------------------
(* Searching backward                                                      *)

\* The chunk that ends where the one before it began, or the first of the range.
ChunkBack(s, upto, max) ==
  IF upto - max < s.rngStart THEN [at |-> s.rngStart, max |-> upto - s.rngStart]
                             ELSE [at |-> upto - max, max |-> max]

ChunkBefore(s, prev, big) ==
  IF ~big THEN ChunkBack(s, prev.at, prev.max)
  ELSE IF prev.at - s.step < s.rngStart THEN prev
  ELSE [prev EXCEPT !.at = prev.at - prev.max]

InChunksBack(s, c) ==
  LET chunk[i \in 1..c.chunks] ==
        IF i = 1 THEN ChunkBack(s, s.start, c.max) ELSE ChunkBefore(s, chunk[i - 1], c.big)
  IN  {chunk[i] : i \in 1..c.chunks}

ChunksBack(s) == InChunksBack(s, CalcMemChunks(s))

StepsDown(s, ch) == {o \in ch.at..ch.at + ch.max : (ch.at + ch.max - o) % s.step = 0}

SearchFuncBack(s) ==
  LastOf({o \in UNION {StepsDown(s, ch) : ch \in ChunksBack(s)} : Hit(s, o)})

\* GetSearchFunc, and the function it returns.
SearchFunc(s) ==
  IF ~s.forward THEN SearchFuncBack(s)
  ELSE IF s.vector THEN SearchFuncVecFwd(s) ELSE SearchFuncFwd(s)

=============================================================================
