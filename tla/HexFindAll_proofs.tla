-------------------------- MODULE HexFindAll_proofs --------------------------
(***************************************************************************)
(* Find All finds every match, and Replace All never replaces what it has  *)
(* put there: proofs for every range, cache, step and replacement, on      *)
(* either thread and with a user who edits the data meanwhile.             *)
(***************************************************************************)
EXTENDS HexFindAll, HexArith, SequenceTheorems

-----------------------------------------------------------------------------
(* What the search function goes over                                      *)

\* What a request is, one by one.
LEMMA RequestFacts ==
  ASSUME NEW r \in Requests
  PROVE  /\ r.replace \in BOOLEAN /\ r.small \in BOOLEAN /\ r.virtual \in BOOLEAN
         /\ r.from \in Nat /\ r.step \in Nat
         /\ r.sizeRepl \in Nat \ {0} /\ r.limit \in Nat \ {0}
         /\ r.from \in Places
<1>1. r \in [replace : BOOLEAN, small : BOOLEAN, virtual : BOOLEAN, from : Nat,
             step : Nat, sizeRepl : Nat \ {0}, limit : Nat \ {0}]
  BY FindAllAssumption
<1>2. r.from \in Places
  BY <1>1, FindAllAssumption DEF Places
<1> QED BY <1>1, <1>2

\* How far into the first chunk comparisons are made.
Covers == ChunkMaxOffset(start)

\* The first chunk covers what the cache holds or what is left of the range,
\* a later one as much, or what is left there.
LEMMA ChunkFacts ==
  ASSUME TypeOK
  PROVE  /\ LastSearchOffset \in Nat /\ Sentinel = LastSearchOffset + SizeFind
         /\ SizeFind \in Nat \ {0}
         /\ start \in Nat /\ start <= LastSearchOffset
         /\ Covers = IF req.virtual THEN Least(CacheSize - SizeFind, LastSearchOffset - start)
                                    ELSE LastSearchOffset - start
         /\ Covers \in Nat
         /\ \A at \in start..LastSearchOffset :
              ChunkMaxOffset(at) = Least(Covers, LastSearchOffset - at)
<1>1. /\ Sentinel \in Nat /\ SizeFind \in Nat \ {0} /\ SizeFind <= Sentinel
      /\ CacheSize \in Nat /\ CacheSize > SizeFind
  BY FindAllAssumption
<1>2. /\ LastSearchOffset \in Nat /\ Sentinel = LastSearchOffset + SizeFind
      /\ start \in Nat /\ start <= LastSearchOffset
  BY <1>1 DEF LastSearchOffset, TypeOK, Places
<1>3. Covers = IF req.virtual THEN Least(CacheSize - SizeFind, LastSearchOffset - start)
                              ELSE LastSearchOffset - start
  BY <1>1, <1>2 DEF Covers, ChunkMaxOffset, ChunkSize, Least
<1>4. Covers \in Nat
  BY <1>1, <1>2, <1>3 DEF Least
<1>5. ASSUME NEW at \in start..LastSearchOffset
      PROVE  ChunkMaxOffset(at) = Least(Covers, LastSearchOffset - at)
  BY <1>1, <1>2, <1>3, <1>5 DEF ChunkMaxOffset, ChunkSize, Least
<1> QED BY <1>1, <1>2, <1>3, <1>4, <1>5

\* Where the i-th chunk begins, the steps of the loop summed up.
ChunkAt(i) == IF BigStep THEN start + i * req.step
                         ELSE Least(start + i * Covers, LastSearchOffset)

\* Each chunk begins where the loop goes to from the one before it.
LEMMA ChunkAtSteps ==
  ASSUME TypeOK
  PROVE  /\ ChunkAt(0) = start
         /\ \A i \in Nat : /\ ChunkAt(i) \in Nat /\ start <= ChunkAt(i)
                           /\ ~BigStep => ChunkAt(i) <= LastSearchOffset
                           /\ ChunkAt(i + 1) = ChunkAt(i) + ChunkStep(ChunkAt(i))
<1>1. /\ req.step \in Nat /\ start \in Nat /\ Covers \in Nat /\ LastSearchOffset \in Nat
      /\ start <= LastSearchOffset
  BY ChunkFacts, RequestFacts DEF TypeOK
<1>2. ChunkAt(0) = start
  <2>1. 0 * req.step = 0 /\ 0 * Covers = 0
    BY <1>1
  <2> QED BY <1>1, <2>1 DEF ChunkAt, Least
<1>3. ASSUME NEW i \in Nat
      PROVE  /\ ChunkAt(i) \in Nat /\ start <= ChunkAt(i)
             /\ ~BigStep => ChunkAt(i) <= LastSearchOffset
             /\ ChunkAt(i + 1) = ChunkAt(i) + ChunkStep(ChunkAt(i))
  <2>1. CASE BigStep
    <3>1. i * req.step \in Nat /\ (i + 1) * req.step = i * req.step + req.step
      BY <1>1
    <3> QED BY <1>1, <2>1, <3>1 DEF ChunkAt, ChunkStep
  <2>2. CASE ~BigStep
    <3>1. i * Covers \in Nat /\ (i + 1) * Covers = i * Covers + Covers
      BY <1>1
    <3>2. ChunkAt(i) \in start..LastSearchOffset
      BY <1>1, <2>2, <3>1 DEF ChunkAt, Least
    <3>3. ChunkStep(ChunkAt(i)) = Least(Covers, LastSearchOffset - ChunkAt(i))
      BY <2>2, <3>2, ChunkFacts DEF ChunkStep
    <3>4. /\ ChunkAt(i) = Least(start + i * Covers, LastSearchOffset)
          /\ ChunkAt(i + 1) = Least(start + (i * Covers + Covers), LastSearchOffset)
      BY <2>2, <3>1 DEF ChunkAt
    <3>5. ChunkAt(i + 1) = ChunkAt(i) + Least(Covers, LastSearchOffset - ChunkAt(i))
      BY <1>1, <3>1, <3>4 DEF Least
    <3> QED BY <1>1, <3>2, <3>3, <3>5
  <2> QED BY <2>1, <2>2
<1> QED BY <1>2, <1>3

\* The loop's chunks.
LEMMA ChunksAre ==
  ASSUME TypeOK, Chunks \in Nat \ {0}
  PROVE  ChunkStarts = {ChunkAt(i) : i \in 0..Chunks - 1}
<1> DEFINE S == 0..Chunks - 1
           Body(f) == [i \in S |-> IF i = 0 THEN start ELSE f[i - 1] + ChunkStep(f[i - 1])]
           at == CHOOSE f : f = Body(f)
           g == [i \in S |-> ChunkAt(i)]
<1>1. ChunkStarts = {at[i] : i \in S}
  BY DEF ChunkStarts
<1>2. S \subseteq Nat /\ \A i \in S : i # 0 => i - 1 \in S /\ i - 1 \in Nat
  OBVIOUS
<1>3. g = Body(g)
  <2>1. ASSUME NEW i \in S, i # 0 PROVE g[i] = g[i - 1] + ChunkStep(g[i - 1])
    <3>1. i - 1 \in S /\ i - 1 \in Nat /\ (i - 1) + 1 = i
      BY <1>2, <2>1
    <3>2. ChunkAt((i - 1) + 1) = ChunkAt(i - 1) + ChunkStep(ChunkAt(i - 1))
      BY <3>1, ChunkAtSteps
    <3>3. g[i] = ChunkAt(i) /\ g[i - 1] = ChunkAt(i - 1)
      BY <3>1
    <3> HIDE DEF g
    <3> QED BY <3>1, <3>2, <3>3
  <2>2. 0 \in S => g[0] = start
    BY ChunkAtSteps
  <2>3. g = [i \in S |-> g[i]]
    OBVIOUS
  <2> HIDE DEF g, S
  <2> QED BY <2>1, <2>2, <2>3
<1>4. at = Body(at)
  <2> HIDE DEF g
  <2>1. \E f : f = Body(f)
    BY <1>3
  <2> HIDE DEF Body
  <2> QED BY <2>1
<1> HIDE DEF at
<1>5. /\ \A i \in S : at[i] = IF i = 0 THEN start ELSE at[i - 1] + ChunkStep(at[i - 1])
      /\ \A i \in S : g[i] = IF i = 0 THEN start ELSE g[i - 1] + ChunkStep(g[i - 1])
  <2> HIDE DEF g, S
  <2> QED BY <1>3, <1>4
<1> HIDE DEF g
\* There is no first chunk at which the two differ.
<1>6. \A i \in S : at[i] = g[i]
  <2> DEFINE W == {i \in S : at[i] # g[i]}
  <2> SUFFICES ASSUME W # {} PROVE FALSE
    OBVIOUS
  <2>1. PICK n \in W : \A m \in W : n <= m
    <3> HIDE DEF S
    <3>1. W \in SUBSET Nat
      BY <1>2
    <3> HIDE DEF W
    <3> QED BY <3>1, LeastOf
  <2>2. n \in S /\ n \in Nat /\ at[n] # g[n]
    BY <1>2, <2>1
  <2>3. n # 0
    BY <1>5, <2>2
  <2>4. n - 1 \in S /\ ~(n <= n - 1)
    BY <1>2, <2>2, <2>3
  <2>5. at[n - 1] = g[n - 1]
    BY <2>1, <2>4
  <2> QED BY <1>5, <2>2, <2>3, <2>5
<1>7. \A i \in S : g[i] = ChunkAt(i)
  BY DEF g
<1> QED BY <1>1, <1>6, <1>7

\* With a step there is a first chunk, and a chunk for every offset of the range.
LEMMA ChunkCount ==
  ASSUME TypeOK, req.step > 0
  PROVE  /\ Chunks \in Nat \ {0}
         /\ req.virtual =>
              /\ ChunkStep(start) \in Nat \ {0}
              /\ \A i \in Nat : i * ChunkStep(start) <= LastSearchOffset - start => i < Chunks
<1>1. /\ req.step \in Nat \ {0} /\ start \in Nat /\ Covers \in Nat /\ LastSearchOffset \in Nat
      /\ start <= LastSearchOffset /\ Sentinel = LastSearchOffset + SizeFind
      /\ SizeFind \in Nat \ {0} /\ req.virtual \in BOOLEAN
  BY ChunkFacts, RequestFacts DEF TypeOK
<1>2. CASE ~req.virtual
  BY <1>2 DEF Chunks
<1>3. CASE req.virtual
  <2> DEFINE total == Sentinel - start
             step == ChunkStep(start)
  <2>1. step \in Nat \ {0}
    BY <1>1, <1>3 DEF ChunkStep, BigStep, Covers
  <2>2. total \in Nat \ {0} /\ LastSearchOffset - start < total
    BY <1>1
  <2>3. Chunks = (total \div step) + (IF total % step > 0 THEN 1 ELSE 0)
    BY <1>3 DEF Chunks
  <2> HIDE DEF step, total
  <2>4. \A i \in Nat : i < Chunks <=> i * step < total
    BY <2>1, <2>2, <2>3, BelowDivUp
  <2>5. Chunks \in Nat
    <3>1. total \div step \in Nat
      BY <2>1, <2>2, ModFacts
    <3> QED BY <2>3, <3>1
  <2>6. 0 < Chunks
    <3>1. 0 * step = 0
      BY <2>1
    <3> QED BY <2>2, <2>4, <3>1
  <2>7. ASSUME NEW i \in Nat, i * step <= LastSearchOffset - start PROVE i < Chunks
    <3>1. i * step \in Nat
      BY <2>1
    <3> QED BY <1>1, <2>2, <2>4, <2>7, <3>1
  <2> QED BY <2>1, <2>5, <2>6, <2>7 DEF step
<1> QED BY <1>1, <1>2, <1>3

\* No search looks back, whatever its step.
LEMMA ComparedAfterStart ==
  ASSUME TypeOK, NEW o \in Compared
  PROVE  o \in Places /\ start <= o
<1>1. o \in Places /\ req.step \in Nat /\ start \in Nat
  BY ChunkFacts, RequestFacts DEF Compared, TypeOK
<1>2. o \in Nat
  BY <1>1, FindAllAssumption DEF Places
<1>3. CASE req.step = 0
  BY <1>1, <1>2, <1>3 DEF Compared
<1>4. CASE req.step > 0
  <2>1. PICK at \in ChunkStarts : o \in at..at + ChunkMaxOffset(at)
    BY DEF Compared
  <2>2. PICK i \in 0..Chunks - 1 : at = ChunkAt(i)
    BY <1>4, <2>1, ChunkCount, ChunksAre
  <2>3. i \in Nat
    BY <1>4, <2>2, ChunkCount
  <2>4. at \in Nat /\ start <= at
    BY <2>2, <2>3, ChunkAtSteps
  <2> QED BY <1>1, <1>2, <2>1, <2>4
<1> QED BY <1>1, <1>3, <1>4

\* If steps and chunks meet, the search goes over exactly the places that are
\* whole steps from where it starts, whatever the chunks.
LEMMA ComparedIs ==
  ASSUME TypeOK, MeetsChunks(req), StepsBehind(start, req.from, req.step)
  PROVE  \A o : o \in Compared <=> /\ o \in Places /\ start <= o
                                   /\ StepsBehind(o, start, req.step)
<1> DEFINE n == req.step
           last == LastSearchOffset
<1>1. /\ n \in Nat \ {0} /\ req.from \in Nat /\ req.virtual \in BOOLEAN
      /\ start \in Nat /\ Covers \in Nat /\ last \in Nat /\ start <= last
      /\ CacheSize - SizeFind \in Nat \ {0}
      /\ req.from \in Places
  BY ChunkFacts, RequestFacts, FindAllAssumption DEF TypeOK, MeetsChunks
<1>2. /\ Covers = IF req.virtual THEN Least(CacheSize - SizeFind, last - start) ELSE last - start
      /\ \A at \in start..last : ChunkMaxOffset(at) = Least(Covers, last - at)
  BY ChunkFacts
<1>3. BigStep <=> req.virtual /\ n > Covers
  BY DEF BigStep, Covers
<1>4. Places = 0..last
  BY DEF Places, LastSearchOffset
<1>5. /\ Chunks \in Nat \ {0}
      /\ ChunkStarts = {ChunkAt(i) : i \in 0..Chunks - 1}
  BY <1>1, ChunkCount, ChunksAre
<1>6. \A i \in Nat : ChunkAt(i) \in Nat /\ start <= ChunkAt(i)
  BY ChunkAtSteps
<1>7. \A o : o \in Compared <=>
        /\ o \in Places
        /\ \E i \in 0..Chunks - 1 : /\ o \in ChunkAt(i)..ChunkAt(i) + ChunkMaxOffset(ChunkAt(i))
                                    /\ (o - ChunkAt(i)) % n = 0
  BY <1>1, <1>5 DEF Compared
\* The chunks are whole steps apart: those a step is longer than, by the step;
\* the others, because the step divides what they cover and the range.
<1>8. req.virtual /\ ~BigStep =>
        /\ StepsBehind(last, start, n)
        /\ \E m \in Nat : Covers = m * n
  <2> SUFFICES ASSUME req.virtual, ~BigStep
               PROVE  StepsBehind(last, start, n) /\ \E m \in Nat : Covers = m * n
    OBVIOUS
  <2>1. n <= Covers /\ Covers <= CacheSize - SizeFind
    BY <1>1, <1>2, <1>3 DEF Least
  <2>2. (CacheSize - SizeFind) % n = 0 /\ (last - req.from) % n = 0
    BY <1>1, <2>1 DEF MeetsChunks
  <2>3. StepsBehind(last, start, n)
    <3>1. StepsBehind(last, req.from, n)
      BY <1>1, <1>4, <2>2, BehindIffMod
    <3> HIDE DEF n, last
    <3> QED BY <1>1, <3>1, BehindAdds DEF n
  <2>4. \E m \in Nat : Covers = m * n
    <3>1. CASE Covers = CacheSize - SizeFind
      BY <1>1, <2>2, <3>1, Divides
    <3>2. CASE Covers = last - start
      <4>1. PICK k \in Nat : last = start + k * n
        BY <2>3 DEF StepsBehind
      <4>2. k * n \in Nat
        BY <1>1
      <4>3. Covers = k * n
        BY <1>1, <3>2, <4>1, <4>2
      <4> QED BY <4>3
    <3> QED BY <1>2, <3>1, <3>2 DEF Least
  <2> QED BY <2>3, <2>4
<1>9. ASSUME NEW i \in 0..Chunks - 1 PROVE StepsBehind(ChunkAt(i), start, n)
  <2>1. i \in Nat
    BY <1>5
  <2>2. CASE BigStep
    BY <2>1, <2>2 DEF ChunkAt, StepsBehind
  <2>3. CASE ~BigStep /\ req.virtual
    <3>1. PICK m \in Nat : Covers = m * n
      BY <1>8, <2>3
    <3>2. i * (m * n) = (i * m) * n /\ i * m \in Nat
      BY <1>1, <2>1
    <3>3. StepsBehind(start + i * Covers, start, n)
      BY <3>1, <3>2 DEF StepsBehind
    <3>4. ChunkAt(i) = Least(start + i * Covers, last)
      BY <2>3 DEF ChunkAt
    <3> QED BY <1>8, <2>3, <3>3, <3>4 DEF Least
  <2>4. CASE ~req.virtual
    <3>1. i = 0
      BY <2>4 DEF Chunks
    <3>2. ChunkAt(i) = start + 0 * n
      BY <1>1, <3>1, ChunkAtSteps
    <3> QED BY <3>2 DEF StepsBehind
  <2> QED BY <1>1, <2>2, <2>3, <2>4
<1>10. ASSUME NEW o \in Compared
       PROVE  o \in Places /\ start <= o /\ StepsBehind(o, start, n)
  <2>1. PICK i \in 0..Chunks - 1 : /\ o \in ChunkAt(i)..ChunkAt(i) + ChunkMaxOffset(ChunkAt(i))
                                   /\ (o - ChunkAt(i)) % n = 0
    BY <1>7
  <2>2. i \in Nat /\ ChunkAt(i) \in Nat /\ StepsBehind(ChunkAt(i), start, n)
    BY <1>5, <1>6, <1>9
  <2>3. o \in Nat /\ o >= ChunkAt(i)
    BY <1>1, <1>4, <1>7, <2>1, <2>2
  <2>4. StepsBehind(o, ChunkAt(i), n)
    BY <1>1, <2>1, <2>2, <2>3, BehindIffMod
  <2> HIDE DEF n
  <2> QED BY <1>1, <2>2, <2>3, <2>4, BehindAdds, ComparedAfterStart
<1>11. ASSUME NEW o \in Places, start <= o, StepsBehind(o, start, n)
       PROVE  o \in Compared
  <2>1. o \in Nat /\ o <= last /\ o - start \in Nat
    BY <1>1, <1>4, <1>11
  \* A chunk with an index below the number of chunks that reaches over o.
  <2>2. SUFFICES \E i \in 0..Chunks - 1 :
                   o \in ChunkAt(i)..ChunkAt(i) + ChunkMaxOffset(ChunkAt(i))
    <3>1. PICK i \in 0..Chunks - 1 : o \in ChunkAt(i)..ChunkAt(i) + ChunkMaxOffset(ChunkAt(i))
      BY <2>2
    <3>2. ChunkAt(i) \in Nat /\ StepsBehind(ChunkAt(i), start, n) /\ o >= ChunkAt(i)
      BY <1>5, <1>6, <1>9, <2>1, <3>1
    <3> HIDE DEF n
    <3>3. StepsBehind(o, ChunkAt(i), n)
      BY <1>1, <1>11, <2>1, <3>2, BehindAdds
    <3>4. (o - ChunkAt(i)) % n = 0
      BY <1>1, <2>1, <3>2, <3>3, BehindIffMod
    <3> QED BY <1>7, <3>1, <3>4
  <2>3. CASE BigStep
    <3>1. PICK k \in Nat : o = start + k * n
      BY <1>11 DEF StepsBehind
    <3>2. req.virtual /\ ChunkStep(start) = n
      BY <1>3, <2>3 DEF ChunkStep
    <3>3. k * n \in Nat /\ k * n <= last - start
      BY <1>1, <2>1, <3>1
    <3>4. k < Chunks
      BY <1>1, <3>2, <3>3, ChunkCount
    <3>5. k \in 0..Chunks - 1 /\ ChunkAt(k) = o
      BY <1>5, <2>3, <3>1, <3>4 DEF ChunkAt
    <3>6. ChunkMaxOffset(o) \in Nat
      <4>1. ChunkMaxOffset(o) = Least(Covers, last - o)
        BY <1>1, <1>2, <1>11, <2>1
      <4> QED BY <1>1, <2>1, <4>1 DEF Least
    <3>7. o \in ChunkAt(k)..ChunkAt(k) + ChunkMaxOffset(ChunkAt(k))
      BY <2>1, <3>5, <3>6
    <3> QED BY <3>5, <3>7
  <2>4. CASE ~BigStep /\ req.virtual
    <3> DEFINE i == (o - start) \div Covers
               r == (o - start) % Covers
    <3>1. Covers \in Nat \ {0} /\ ChunkStep(start) = Covers
      BY <1>1, <1>3, <2>4 DEF ChunkStep, Covers
    <3>2. i \in Nat /\ r \in 0..Covers - 1 /\ o - start = Covers * i + r
      BY <2>1, <3>1, ModFacts, DivMod
    <3> HIDE DEF i, r
    <3>3. Covers * i = i * Covers /\ i * Covers \in Nat
      BY <3>1, <3>2
    <3>4. i * Covers <= last - start
      BY <1>1, <2>1, <3>1, <3>2, <3>3
    <3>5. i < Chunks
      BY <1>1, <2>4, <3>1, <3>2, <3>4, ChunkCount
    <3>6. ChunkAt(i) = start + i * Covers
      BY <1>1, <2>4, <3>3, <3>4 DEF ChunkAt, Least
    <3>7. ChunkAt(i) \in start..last
      BY <1>1, <3>3, <3>4, <3>6
    <3>8. ChunkMaxOffset(ChunkAt(i)) = Least(Covers, last - ChunkAt(i))
      BY <1>2, <3>7
    <3>9. o \in ChunkAt(i)..ChunkAt(i) + ChunkMaxOffset(ChunkAt(i))
      BY <1>1, <2>1, <3>1, <3>2, <3>3, <3>6, <3>7, <3>8 DEF Least
    <3>10. i \in 0..Chunks - 1
      BY <1>5, <3>2, <3>5
    <3> QED BY <3>9, <3>10
  <2>5. CASE ~req.virtual
    <3>1. 0 \in 0..Chunks - 1 /\ ChunkAt(0) = start
      BY <1>5, ChunkAtSteps
    <3>2. ChunkMaxOffset(start) = last - start
      BY <1>1, <1>2, <2>5 DEF Covers
    <3> QED BY <1>1, <1>11, <2>1, <3>1, <3>2
  <2> QED BY <1>1, <2>3, <2>4, <2>5
<1> QED BY <1>10, <1>11

-----------------------------------------------------------------------------
(* The invariant                                                           *)

\* A worker has ended when the loop is waiting to be joined, and only then;
\* only Replace All asks and notifies.
Protocol ==
  /\ worker = "ended" <=> pc = "ended"
  /\ pc \in {"ask", "notify"} => req.replace
  /\ pc = "ask" => results = <<>>

\* The search goes on behind the last replacement.
BehindReplaced ==
  req.replace =>
    /\ pc \in {"search", "notify"} /\ results # <<>> =>
         results[Len(results)] + req.sizeRepl <= start
    /\ pc = "notify" => start <= found /\ found + req.sizeRepl <= Sentinel

Apart ==
  req.replace =>
    /\ \A i \in 1..Len(results) - 1 : results[i] + req.sizeRepl <= results[i + 1]
    /\ \A i \in 1..Len(results) : results[i] + req.sizeRepl <= Sentinel

\* A Find All whose steps meet its chunks, in data nobody edits.
Undisturbed == ~req.replace /\ MeetsChunks(req) /\ ~edited

InOrder ==
  /\ \A i \in 1..Len(results) : results[i] \in Wanted
  /\ \A i \in 1..Len(results) - 1 : results[i] < results[i + 1]

\* While it searches, all that is wanted below the start is in the list.
FoundSoFar ==
  (pc = "search" /\ Undisturbed) =>
    /\ req.from <= start
    /\ StepsBehind(start, req.from, req.step)
    /\ InOrder
    /\ \A i \in 1..Len(results) : results[i] < start
    /\ \A o \in Wanted : o < start => \E i \in 1..Len(results) : results[i] = o
    /\ Len(results) < req.limit

\* When it is over, all that is wanted, up to the limit.
Complete ==
  (pc \in {"ended", "finish"} /\ Undisturbed /\ ~broken) =>
    /\ InOrder
    /\ \A o \in Wanted : \/ \E i \in 1..Len(results) : results[i] = o
                         \/ Len(results) = req.limit /\ results[req.limit] < o

\* The inductive invariant.
FindInv == TypeOK /\ Protocol /\ BehindReplaced /\ Apart /\ FoundSoFar /\ Complete

-----------------------------------------------------------------------------
(* Steps                                                                   *)

\* CHOOSE's least element is one.
LEMMA FirstIs ==
  ASSUME NEW S \in SUBSET Nat, S # {}
  PROVE  First(S) \in S /\ \A p \in S : First(S) <= p
<1>1. \E o \in S : \A p \in S : o <= p
  BY LeastOf
<1> QED BY <1>1 DEF First

\* The next match the search comes to, and what comes before it.
LEMMA FirstAhead ==
  ASSUME FindInv, Ahead # {}
  PROVE  /\ First(Ahead) \in Places /\ First(Ahead) \in matches
         /\ First(Ahead) \in Compared /\ start <= First(Ahead)
         /\ \A p \in matches : p \in Compared => First(Ahead) <= p
<1>1. Ahead \in SUBSET Nat
  BY FindAllAssumption DEF Ahead, Compared, Places
<1>2. First(Ahead) \in Ahead /\ \A p \in Ahead : First(Ahead) <= p
  BY <1>1, FirstIs
<1> QED BY <1>2, ComparedAfterStart DEF Ahead, FindInv

\* Numbers for the places.
LEMMA PlaceIsNat == /\ Places \subseteq Nat
                    /\ \A o \in Places : o <= LastSearchOffset
                    /\ LastSearchOffset \in Nat
                    /\ \A o \in Nat : o <= LastSearchOffset => o \in Places
BY FindAllAssumption DEF Places, LastSearchOffset

\* A result more at the end of the list.
LEMMA OneMore ==
  ASSUME NEW s \in Seq(Places), NEW o \in Places
  PROVE  /\ Append(s, o) \in Seq(Places) /\ Append(s, o) # <<>>
         /\ Len(s) \in Nat /\ Len(Append(s, o)) = Len(s) + 1
         /\ \A i \in 1..Len(s) : Append(s, o)[i] = s[i]
         /\ Append(s, o)[Len(s) + 1] = o
         /\ \A i \in 1..Len(s) : s[i] \in Places
<1>1. Len(s) \in Nat /\ \A i \in 1..Len(s) : s[i] \in Places
  BY ElementOfSeq
<1>2. /\ Append(s, o) \in Seq(Places) /\ Append(s, o) # <<>>
      /\ Len(Append(s, o)) = Len(s) + 1
      /\ \A i \in 1..Len(s) : Append(s, o)[i] = s[i]
      /\ Append(s, o)[Len(s) + 1] = o
  BY AppendProperties
<1> QED BY <1>1, <1>2

\* The dialog and the timer, and other steps that leave the search alone.
LEMMA Unmoved ==
  ASSUME FindInv, ProgressTypeOK', worker' = "ended" <=> worker = "ended",
         UNCHANGED <<req, pc, start, found, results, matches, edited, broken>>
  PROVE  FindInv'
<1>1. TypeOK' /\ Protocol'
  BY DEF FindInv, TypeOK, Protocol
<1>2. BehindReplaced' /\ Apart'
  BY DEF FindInv, BehindReplaced, Apart
<1>3. FoundSoFar' /\ Complete'
  BY DEF FindInv, FoundSoFar, Complete, Undisturbed, InOrder, Wanted
<1> QED BY <1>1, <1>2, <1>3 DEF FindInv

\* The list is what it was, and no search goes on in it undisturbed.
LEMMA ListStays ==
  ASSUME FindInv, TypeOK', Protocol', UNCHANGED <<req, start, found, results, edited>>,
         UNCHANGED matches \/ req.replace,
         pc' = "search" => pc = "ask" /\ req.replace,
         pc' # "notify",
         (pc' \in {"ended", "finish"} /\ ~req.replace /\ ~broken') =>
           \/ pc \in {"ended", "finish"} /\ ~broken
           \/ pc = "search" /\ Ahead = {}
  PROVE  FindInv'
<1>1. BehindReplaced'
  <2>1. CASE pc' = "search"
    BY <2>1 DEF FindInv, BehindReplaced, Protocol
  <2>2. CASE pc' # "search"
    BY <2>2 DEF FindInv, BehindReplaced
  <2> QED BY <2>1, <2>2
<1>2. Apart'
  BY DEF FindInv, Apart
<1>3. FoundSoFar'
  BY DEF FoundSoFar, Undisturbed
<1>4. Complete'
  <2> SUFFICES ASSUME pc' \in {"ended", "finish"}, Undisturbed', ~broken'
               PROVE  /\ InOrder'
                      /\ \A o \in Wanted' : \/ \E i \in 1..Len(results') : results'[i] = o
                                            \/ Len(results') = req'.limit /\ results'[req'.limit] < o
    BY DEF Complete
  <2>1. Undisturbed /\ UNCHANGED matches
    BY DEF Undisturbed, MeetsChunks
  <2>2. Wanted' = Wanted /\ (InOrder' <=> InOrder)
    BY <2>1 DEF Wanted, InOrder
  <2>3. CASE pc \in {"ended", "finish"} /\ ~broken
    BY <2>1, <2>2, <2>3 DEF FindInv, Complete
  <2>4. CASE pc = "search" /\ Ahead = {}
    <3>1. /\ InOrder /\ req.from <= start /\ StepsBehind(start, req.from, req.step)
          /\ \A o \in Wanted : o < start => \E i \in 1..Len(results) : results[i] = o
      BY <2>1, <2>4 DEF FindInv, FoundSoFar
    <3>2. ASSUME NEW o \in Wanted PROVE o < start
      <4>1. /\ o \in matches /\ o \in Places /\ o \in Nat /\ req.from <= o
            /\ (o - req.from) % req.step = 0 /\ start \in Nat
            /\ req.from \in Nat /\ req.step \in Nat \ {0} /\ req \in Requests
        BY <2>1, <3>2, PlaceIsNat, RequestFacts
           DEF Wanted, FindInv, TypeOK, Undisturbed, MeetsChunks
      <4>2. StepsBehind(o, req.from, req.step)
        BY <4>1, BehindIffMod
      <4>3. ASSUME start <= o PROVE FALSE
        <5>1. StepsBehind(o, start, req.step)
          BY <3>1, <4>1, <4>2, <4>3, BehindAdds
        <5>2. o \in Compared
          BY <2>1, <3>1, <4>1, <4>3, <5>1, ComparedIs DEF FindInv, Undisturbed
        <5> QED BY <2>4, <4>1, <5>2 DEF Ahead
      <4> QED BY <4>1, <4>3
    <3> QED BY <2>2, <3>1, <3>2
  <2> QED BY <2>1, <2>3, <2>4 DEF Undisturbed
<1> QED BY <1>1, <1>2, <1>3, <1>4 DEF FindInv

\* The loop's end: the worker's last act, or the end of the call's.
LEMMA LoopEnds ==
  ASSUME FindInv, pc \in {"search", "notify"}, LeaveLoop
  PROVE  /\ pc' \in {"ended", "finish"} /\ (worker' = "ended" <=> pc' = "ended")
         /\ ProgressTypeOK'
<1>1. ProgressTypeOK /\ worker # "ended"
  BY DEF FindInv, TypeOK, Protocol
<1>2. CASE worker = "running"
  <2>1. WorkerEnds /\ pc' = "ended"
    BY <1>2 DEF LeaveLoop
  <2>2. worker' = "ended" /\ cancel' = TRUE /\ UNCHANGED <<ui, current>>
    BY <1>2, <2>1 DEF WorkerEnds
  <2>3. cancel' \in BOOLEAN
    BY <2>2
  <2> QED BY <1>1, <2>1, <2>2, <2>3 DEF ProgressTypeOK
<1>3. CASE worker # "running"
  <2>1. pc' = "finish" /\ UNCHANGED progressVars
    BY <1>3 DEF LeaveLoop
  <2> QED BY <1>1, <2>1 DEF progressVars, ProgressTypeOK
<1> QED BY <1>2, <1>3

\* A search begins: an empty list, and nothing wanted before its start.
LEMMA StartStep ==
  ASSUME FindInv, NEW r \in Requests, Start(r)
  PROVE  FindInv'
<1>1. /\ req' = r /\ start' = r.from /\ found' = r.from /\ results' = <<>>
      /\ edited' = FALSE /\ broken' = FALSE /\ matches' = matches
      /\ pc' \in {"ask", "search"} /\ (pc' = "ask" => r.replace)
      /\ worker' \in {"none", "running"} /\ ui' \in {"busy", "modal"}
      /\ cancel' = FALSE /\ current' = r.from
  BY DEF Start, RunInline, Launch
<1>2. /\ r.from \in Places /\ r.from \in Nat /\ r.step \in Nat /\ r.limit \in Nat \ {0}
  BY RequestFacts
<1>3. Len(<<>>) = 0 /\ <<>> \in Seq(Places)
  BY EmptySeq
<1>4. TypeOK'
  <2>1. ProgressTypeOK'
    <3>1. cancel' \in BOOLEAN
      BY <1>1
    <3> QED BY <1>1, <1>2, <3>1 DEF ProgressTypeOK
  <2>2. edited' \in BOOLEAN /\ broken' \in BOOLEAN
    BY <1>1
  <2> QED BY <1>1, <1>2, <1>3, <2>1, <2>2 DEF FindInv, TypeOK
<1>5. Protocol' /\ BehindReplaced'
  BY <1>1 DEF Protocol, BehindReplaced
<1>6. Apart' /\ InOrder' /\ \A i \in 1..Len(results') : results'[i] < start'
  <2>1. 1..Len(results') = {} /\ 1..Len(results') - 1 = {}
    BY <1>1, <1>3
  <2> QED BY <2>1 DEF Apart, InOrder
<1>7. FoundSoFar'
  <2>1. StepsBehind(start', req'.from, req'.step)
    <3>1. r.from = r.from + 0 * r.step
      BY <1>2
    <3> QED BY <1>1, <3>1 DEF StepsBehind
  <2>2. \A o \in Wanted' : ~(o < start')
    <3>1. ASSUME NEW o \in Wanted' PROVE o \in Nat /\ o >= r.from
      BY <1>1, <3>1, PlaceIsNat DEF Wanted, FindInv, TypeOK
    <3> QED BY <1>1, <1>2, <3>1
  <2>3. req'.from <= start' /\ Len(results') < req'.limit
    BY <1>1, <1>2, <1>3
  <2> QED BY <1>6, <2>1, <2>2, <2>3 DEF FoundSoFar
<1>8. Complete'
  BY <1>1 DEF Complete
<1> QED BY <1>4, <1>5, <1>6, <1>7, <1>8 DEF FindInv

\* The bytes of a match are replaced; the parent is to be told.
LEMMA ReplaceStep ==
  ASSUME FindInv, ReplaceNext
  PROVE  FindInv'
<1> DEFINE o == First(Ahead)
<1>1. /\ pc = "search" /\ req.replace /\ Ahead # {} /\ o + req.sizeRepl <= Sentinel
      /\ found' = o /\ pc' = "notify"
      /\ UNCHANGED <<req, start, results, edited, broken, ui, worker, cancel, current>>
      /\ \E new \in SUBSET {p \in Places : Overlaps(o, p)} :
           matches' = {p \in matches : ~Overlaps(o, p)} \cup new
  BY DEF ReplaceNext, progressVars
<1>2. o \in Places /\ start <= o
  BY <1>1, FirstAhead
<1> HIDE DEF o
<1>3. matches' \subseteq Places
  BY <1>1 DEF FindInv, TypeOK
<1>4. TypeOK' /\ Protocol'
  BY <1>1, <1>2, <1>3 DEF FindInv, TypeOK, Protocol, ProgressTypeOK
<1>5. BehindReplaced' /\ Apart'
  BY <1>1, <1>2 DEF FindInv, BehindReplaced, Apart
<1>6. FoundSoFar' /\ Complete'
  BY <1>1 DEF FoundSoFar, Complete
<1> QED BY <1>4, <1>5, <1>6 DEF FindInv

\* An occurrence goes into the list: of Find All the first one ahead, of
\* Replace All the one just replaced.
LEMMA TakeStep ==
  ASSUME FindInv, NEW o \in Places, TakeResult(o), start <= o,
         UNCHANGED <<req, matches, edited>>, found' \in Places,
         \/ pc = "notify" /\ o = found
         \/ /\ pc = "search" /\ ~req.replace
            /\ o \in matches /\ o \in Compared
            /\ \A p \in matches : p \in Compared => o <= p
  PROVE  FindInv'
<1> DEFINE n == Len(results)
<1>1. /\ req \in Requests /\ start \in Places /\ results \in Seq(Places)
      /\ matches \subseteq Places /\ edited \in BOOLEAN /\ broken \in BOOLEAN
      /\ ProgressTypeOK /\ worker # "ended" /\ pc \in {"search", "notify"}
      /\ pc = "notify" <=> req.replace
  BY DEF FindInv, TypeOK, Protocol
<1>2. /\ req.from \in Nat /\ req.step \in Nat /\ req.sizeRepl \in Nat \ {0}
      /\ req.limit \in Nat \ {0} /\ req.replace \in BOOLEAN
      /\ start \in Nat /\ o \in Nat /\ o <= LastSearchOffset /\ LastSearchOffset \in Nat
  BY <1>1, RequestFacts, PlaceIsNat
<1>3. /\ results' = Append(results, o)
      /\ results' \in Seq(Places) /\ results' # <<>>
      /\ n \in Nat /\ Len(results') = n + 1
      /\ \A i \in 1..n : results'[i] = results[i] /\ results[i] \in Nat
      /\ results'[n + 1] = o
  <2>1. results' = Append(results, o)
    BY DEF TakeResult
  <2> QED BY <1>1, <2>1, OneMore, PlaceIsNat
<1>4. \/ /\ LeaveLoop /\ start' = start
         /\ broken' = ~Exhausted(o, n + 1)
      \/ /\ ~Exhausted(o, n + 1) /\ pc' = "search" /\ start' = Next_(o) /\ current' = o
         /\ UNCHANGED <<broken, ui, worker, cancel>>
  BY DEF TakeResult
<1>5. /\ Next_(o) \in Nat /\ Next_(o) >= o + req.step
      /\ req.replace => Next_(o) >= o + req.sizeRepl
      /\ ~req.replace => Next_(o) = o + req.step
  BY <1>2 DEF Next_
<1>6. /\ TypeOK' /\ Protocol'
      /\ pc' \in {"search", "ended", "finish"}
  <2>1. CASE LeaveLoop /\ start' = start /\ broken' = ~Exhausted(o, n + 1)
    <3>1. /\ pc' \in {"ended", "finish"} /\ (worker' = "ended" <=> pc' = "ended")
          /\ ProgressTypeOK'
      BY <1>1, <2>1, LoopEnds
    <3>2. broken' \in BOOLEAN
      BY <2>1
    <3> QED BY <1>1, <1>3, <2>1, <3>1, <3>2 DEF TypeOK, Protocol
  <2>2. CASE /\ ~Exhausted(o, n + 1) /\ pc' = "search" /\ start' = Next_(o) /\ current' = o
             /\ UNCHANGED <<broken, ui, worker, cancel>>
    <3>1. start' \in Places
      BY <1>2, <1>5, <2>2, PlaceIsNat DEF Exhausted
    <3>2. ProgressTypeOK'
      BY <1>1, <1>2, <2>2 DEF ProgressTypeOK
    <3> QED BY <1>1, <1>3, <2>2, <3>1, <3>2 DEF TypeOK, Protocol
  <2> QED BY <1>4, <2>1, <2>2
<1>7. BehindReplaced' /\ Apart'
  <2> SUFFICES ASSUME req.replace PROVE BehindReplaced' /\ Apart'
    BY DEF BehindReplaced, Apart
  <2>1. /\ o = found /\ pc = "notify" /\ o + req.sizeRepl <= Sentinel
        /\ results # <<>> => results[n] + req.sizeRepl <= start
        /\ \A i \in 1..n - 1 : results[i] + req.sizeRepl <= results[i + 1]
        /\ \A i \in 1..n : results[i] + req.sizeRepl <= Sentinel
    BY <1>1 DEF FindInv, BehindReplaced, Apart
  <2>2. pc' = "search" => results'[Len(results')] + req.sizeRepl <= start'
    <3>1. pc' = "search" => start' = Next_(o)
      BY <1>1, <1>4, LoopEnds
    <3> QED BY <1>2, <1>3, <1>5, <3>1
  <2>3. ASSUME NEW i \in 1..Len(results') - 1
        PROVE  results'[i] + req.sizeRepl <= results'[i + 1]
    <3>1. CASE i \in 1..n - 1
      BY <1>3, <2>1, <3>1
    <3>2. CASE i = n /\ n # 0
      <4>1. results # <<>>
        BY <1>3, <3>2
      <4>2. results[n] + req.sizeRepl <= start /\ results'[i] = results[n] /\ results[n] \in Nat
        BY <1>3, <2>1, <3>2, <4>1
      <4>3. results'[i + 1] = o
        BY <1>3, <3>2
      <4> QED BY <1>2, <4>2, <4>3
    <3> QED BY <1>3, <2>3, <3>1, <3>2
  <2>4. ASSUME NEW i \in 1..Len(results') PROVE results'[i] + req.sizeRepl <= Sentinel
    <3>1. i \in 1..n \/ i = n + 1
      BY <1>3, <2>4
    <3> QED BY <1>3, <2>1, <3>1
  <2> QED BY <1>6, <2>2, <2>3, <2>4 DEF BehindReplaced, Apart
\* Of Find All, the list so far and the next match.
<1>8. Undisturbed' =>
        /\ InOrder' /\ Wanted' = Wanted /\ StepsBehind(o, req.from, req.step) /\ req.from <= o
        /\ req.step > 0 /\ n < req.limit
        /\ \A i \in 1..n + 1 : results'[i] <= o
        /\ \A p \in Wanted : p <= o => \E i \in 1..n + 1 : results'[i] = p
  <2> SUFFICES ASSUME Undisturbed'
               PROVE  /\ InOrder' /\ Wanted' = Wanted
                      /\ StepsBehind(o, req.from, req.step) /\ req.from <= o
                      /\ req.step > 0 /\ n < req.limit
                      /\ \A i \in 1..n + 1 : results'[i] <= o
                      /\ \A p \in Wanted : p <= o => \E i \in 1..n + 1 : results'[i] = p
    OBVIOUS
  <2>1. Undisturbed /\ pc = "search" /\ MeetsChunks(req) /\ req.step > 0
    BY <1>1 DEF Undisturbed, MeetsChunks
  <2>2. /\ req.from <= start /\ StepsBehind(start, req.from, req.step) /\ InOrder
        /\ \A i \in 1..n : results[i] < start
        /\ \A p \in Wanted : p < start => \E i \in 1..n : results[i] = p
        /\ n < req.limit
    BY <2>1 DEF FindInv, FoundSoFar
  <2>3. Wanted' = Wanted
    BY DEF Wanted
  <2>4. StepsBehind(o, start, req.step)
    BY <1>1, <2>1, <2>2, ComparedIs DEF FindInv
  <2>5. StepsBehind(o, req.from, req.step) /\ req.from <= o
    BY <1>2, <2>1, <2>2, <2>4, BehindAdds
  <2>6. o \in Wanted
    <3>1. (o - req.from) % req.step = 0
      BY <1>2, <2>1, <2>5, BehindIffMod
    <3> QED BY <1>1, <2>1, <2>5, <3>1 DEF Wanted
  <2>7. ASSUME NEW p \in Wanted, p < o PROVE p < start
    <3>1. /\ p \in matches /\ p \in Nat /\ p \in Places /\ req.from <= p
          /\ (p - req.from) % req.step = 0
      BY <1>1, <2>7, PlaceIsNat DEF Wanted
    <3>2. ASSUME start <= p PROVE FALSE
      <4>1. StepsBehind(p, req.from, req.step)
        BY <1>2, <2>1, <3>1, BehindIffMod
      <4>2. StepsBehind(p, start, req.step)
        BY <1>2, <2>1, <2>2, <3>1, <3>2, <4>1, BehindAdds
      <4>3. p \in Compared
        BY <2>1, <2>2, <3>1, <3>2, <4>2, ComparedIs DEF FindInv
      <4>4. o <= p
        BY <1>1, <2>1, <3>1, <4>3
      <4> QED BY <1>2, <2>7, <3>1, <4>4
    <3> QED BY <1>2, <3>1, <3>2
  <2>8. ASSUME NEW p \in Wanted, p <= o PROVE \E i \in 1..n + 1 : results'[i] = p
    <3>1. CASE p = o
      BY <1>3, <3>1
    <3>2. CASE p # o
      <4>1. p \in Nat
        BY <1>1, PlaceIsNat DEF Wanted
      <4>2. p < o
        BY <1>2, <2>8, <3>2, <4>1
      <4>3. PICK i \in 1..n : results[i] = p
        BY <2>2, <2>7, <4>2
      <4> QED BY <1>3, <4>3
    <3> QED BY <3>1, <3>2
  <2>9. \A i \in 1..n + 1 : results'[i] <= o
    <3>1. ASSUME NEW i \in 1..n + 1 PROVE results'[i] <= o
      <4>1. i \in 1..n \/ i = n + 1
        BY <1>3
      <4> QED BY <1>2, <1>3, <2>2, <4>1
    <3> QED BY <3>1
  <2>10. InOrder'
    <3>1. ASSUME NEW i \in 1..Len(results') PROVE results'[i] \in Wanted'
      <4>1. i \in 1..n \/ i = n + 1
        BY <1>3
      <4> QED BY <1>3, <2>2, <2>3, <2>6, <4>1 DEF InOrder
    <3>2. ASSUME NEW i \in 1..Len(results') - 1 PROVE results'[i] < results'[i + 1]
      <4>1. CASE i \in 1..n - 1
        BY <1>3, <2>2, <4>1 DEF InOrder
      <4>2. CASE i = n /\ n # 0
        <5>1. results'[i] = results[n] /\ results[n] < start /\ results[n] \in Nat
          BY <1>3, <2>2, <4>2
        <5>2. results'[i + 1] = o
          BY <1>3, <4>2
        <5> QED BY <1>2, <5>1, <5>2
      <4> QED BY <1>3, <3>2, <4>1, <4>2
    <3> QED BY <3>1, <3>2 DEF InOrder
  <2> QED BY <2>1, <2>2, <2>3, <2>5, <2>8, <2>9, <2>10
<1>9. FoundSoFar'
  <2> SUFFICES ASSUME pc' = "search", Undisturbed'
               PROVE  /\ req.from <= start'
                      /\ StepsBehind(start', req.from, req.step)
                      /\ InOrder'
                      /\ \A i \in 1..Len(results') : results'[i] < start'
                      /\ \A p \in Wanted' : p < start' =>
                           \E i \in 1..Len(results') : results'[i] = p
                      /\ Len(results') < req.limit
    BY DEF FoundSoFar
  <2>1. ~req.replace /\ start' = o + req.step /\ ~Exhausted(o, n + 1)
    BY <1>1, <1>4, <1>5, LoopEnds DEF Undisturbed
  <2>2. Len(results') < req.limit
    BY <1>2, <1>3, <2>1 DEF Exhausted
  <2>3. StepsBehind(start', req.from, req.step) /\ req.from <= start'
    <3>1. start' = o + 1 * req.step /\ start' \in Nat
      BY <1>2, <2>1
    <3>2. StepsBehind(start', o, req.step)
      BY <3>1 DEF StepsBehind
    <3> QED BY <1>2, <1>8, <2>1, <3>1, <3>2, BehindAdds
  <2>4. \A i \in 1..Len(results') : results'[i] < start'
    <3>1. ASSUME NEW i \in 1..n + 1 PROVE results'[i] < start'
      <4>1. results'[i] <= o /\ results'[i] \in Nat
        <5>1. i \in 1..n \/ i = n + 1
          BY <1>3
        <5> QED BY <1>2, <1>3, <1>8, <5>1
      <4> QED BY <1>2, <1>8, <2>1, <4>1
    <3> QED BY <1>3, <3>1
  <2>5. ASSUME NEW p \in Wanted, p < start' PROVE p <= o
    <3>1. p \in Nat /\ req.from <= p /\ (p - req.from) % req.step = 0
      BY <1>1, PlaceIsNat DEF Wanted
    <3>2. ASSUME o < p PROVE FALSE
      <4>1. StepsBehind(p, o, req.step)
        BY <1>2, <1>8, <3>1, <3>2, BehindIffMod, BehindAdds
      <4>2. (p - o) % req.step = 0
        BY <1>2, <1>8, <3>1, <3>2, <4>1, BehindIffMod
      <4>3. p - o \in 1..req.step - 1
        BY <1>2, <2>1, <2>5, <3>1, <3>2
      <4>4. p - o = req.step * 0 + (p - o)
        BY <1>2, <4>3
      <4> QED BY <1>2, <4>2, <4>3, <4>4, QuotientIs
    <3> QED BY <1>2, <3>1, <3>2
  <2> QED BY <1>3, <1>8, <2>2, <2>3, <2>4, <2>5
<1>10. Complete'
  <2> SUFFICES ASSUME pc' \in {"ended", "finish"}, Undisturbed', ~broken'
               PROVE  /\ InOrder'
                      /\ \A p \in Wanted' :
                           \/ \E i \in 1..Len(results') : results'[i] = p
                           \/ Len(results') = req.limit /\ results'[req.limit] < p
    BY DEF Complete
  <2>1. Exhausted(o, n + 1)
    BY <1>4
  <2>2. ASSUME NEW p \in Wanted, o < p
        PROVE  Len(results') = req.limit /\ results'[req.limit] < p
    <3>1. CASE Next_(o) > LastSearchOffset
      <4>1. /\ p \in Nat /\ p <= LastSearchOffset /\ req.from <= p
            /\ (p - req.from) % req.step = 0
        BY <1>1, <2>2, PlaceIsNat DEF Wanted
      <4>2. StepsBehind(p, o, req.step)
        <5>1. req.step \in Nat \ {0} /\ StepsBehind(o, req.from, req.step)
          BY <1>2, <1>8
        <5>2. StepsBehind(p, req.from, req.step)
          BY <1>2, <4>1, <5>1, BehindIffMod
        <5> QED BY <1>2, <2>2, <4>1, <5>1, <5>2, BehindAdds
      <4>3. PICK k \in Nat : p = o + k * req.step
        BY <4>2 DEF StepsBehind
      <4>4. k # 0
        <5>1. 0 * req.step = 0
          BY <1>2
        <5> QED BY <1>2, <2>2, <4>3, <5>1
      <4>5. req.step * 1 <= req.step * k /\ req.step * k = k * req.step
        BY <1>2, <4>3, <4>4, MulMono
      <4>6. Next_(o) = o + req.step
        BY <1>5 DEF Undisturbed
      <4> QED BY <1>2, <3>1, <4>1, <4>3, <4>5, <4>6
    <3>2. CASE n + 1 >= req.limit
      BY <1>2, <1>3, <1>8, <2>2, <3>2
    <3> QED BY <2>1, <3>1, <3>2 DEF Exhausted
  <2>3. \A p \in Wanted : p \in Nat
    BY <1>1, PlaceIsNat DEF Wanted
  <2>4. /\ InOrder' /\ Wanted' = Wanted
        /\ \A p \in Wanted : p <= o => \E i \in 1..n + 1 : results'[i] = p
    BY <1>8
  <2>5. ASSUME NEW p \in Wanted
        PROVE  \/ \E i \in 1..Len(results') : results'[i] = p
               \/ Len(results') = req.limit /\ results'[req.limit] < p
    <3>1. p <= o \/ o < p
      BY <1>2, <2>3
    <3> QED BY <1>3, <2>2, <2>4, <3>1, Zenon
  <2> QED BY <2>4, <2>5, Zenon
<1> QED BY <1>6, <1>7, <1>9, <1>10 DEF FindInv

\* Every step, the user's edits and Cancel included.
LEMMA FindStep == FindInv /\ [Next]_findVars => FindInv'
<1> SUFFICES ASSUME FindInv, [Next]_findVars PROVE FindInv'
  OBVIOUS
<1>1. TypeOK /\ ProgressTypeOK /\ Protocol
  BY DEF FindInv, TypeOK
<1>2. ASSUME NEW r \in Requests, Start(r) PROVE FindInv'
  BY <1>2, StartStep
<1>3. CASE AskInverted
  <2>1. /\ pc = "ask" /\ pc' = "search" /\ req.replace /\ ProgressTypeOK'
        /\ UNCHANGED <<req, start, found, results, matches, edited, broken, worker>>
    BY <1>1, <1>3 DEF AskInverted, progressVars, ProgressTypeOK, Protocol
  <2>2. TypeOK' /\ Protocol'
    BY <1>1, <2>1 DEF TypeOK, Protocol
  <2> QED BY <2>1, <2>2, ListStays
<1>4. CASE FindNext
  <2>1. /\ pc = "search" /\ ~req.replace /\ Ahead # {} /\ found' = First(Ahead)
        /\ TakeResult(First(Ahead)) /\ UNCHANGED <<req, matches, edited>>
    BY <1>4 DEF FindNext
  <2> QED BY <2>1, FirstAhead, TakeStep
<1>5. CASE ReplaceNext
  BY <1>5, ReplaceStep
<1>6. CASE Notified
  <2>1. /\ pc = "notify" /\ TakeResult(found) /\ UNCHANGED <<req, found, matches, edited>>
        /\ start <= found /\ found \in Places
    BY <1>1, <1>6 DEF Notified, FindInv, BehindReplaced, Protocol, TypeOK
  <2> QED BY <2>1, TakeStep
<1>7. CASE NotFound
  <2>1. /\ pc = "search" /\ LeaveLoop
        /\ UNCHANGED <<req, start, found, results, matches, edited, broken>>
        /\ Ahead = {} \/ req.replace
    BY <1>7 DEF NotFound
  <2>2. /\ pc' \in {"ended", "finish"} /\ (worker' = "ended" <=> pc' = "ended")
        /\ ProgressTypeOK'
    BY <2>1, LoopEnds
  <2>3. TypeOK' /\ Protocol'
    BY <1>1, <2>1, <2>2 DEF TypeOK, Protocol
  <2> QED BY <2>1, <2>2, <2>3, ListStays
<1>8. CASE SearchCanceled
  <2>1. /\ pc = "search" /\ LeaveLoop /\ broken' = TRUE
        /\ UNCHANGED <<req, start, found, results, matches, edited>>
    BY <1>8 DEF SearchCanceled
  <2>2. /\ pc' \in {"ended", "finish"} /\ (worker' = "ended" <=> pc' = "ended")
        /\ ProgressTypeOK' /\ broken' \in BOOLEAN
    BY <2>1, LoopEnds
  <2>3. TypeOK' /\ Protocol'
    BY <1>1, <2>1, <2>2 DEF TypeOK, Protocol
  <2> QED BY <2>1, <2>2, <2>3, ListStays
<1>9. CASE JoinSearch
  <2>1. /\ worker = "ended" /\ worker' = "none" /\ ui' = "busy" /\ pc' = "finish"
        /\ UNCHANGED <<req, start, found, results, matches, edited, broken, cancel, current>>
    BY <1>9 DEF JoinSearch, Join
  <2>2. pc = "ended"
    BY <1>1, <2>1 DEF Protocol
  <2>3. TypeOK' /\ Protocol'
    BY <1>1, <2>1 DEF TypeOK, Protocol, ProgressTypeOK
  <2> QED BY <2>1, <2>2, <2>3, ListStays
<1>10. CASE Finish
  <2>1. /\ pc = "finish" /\ pc' = "idle" /\ ui' = "free"
        /\ UNCHANGED <<req, start, found, results, matches, edited, broken,
                       worker, cancel, current>>
    BY <1>10 DEF Finish
  <2>2. TypeOK' /\ Protocol'
    BY <1>1, <2>1 DEF TypeOK, Protocol, ProgressTypeOK
  <2> QED BY <2>1, <2>2, ListStays
<1>11. CASE CancelDialog
  <2>1. /\ cancel' = TRUE
        /\ UNCHANGED <<req, pc, start, found, results, matches, edited, broken,
                       ui, worker, current>>
    BY <1>11 DEF CancelDialog, OnCancel, findElse
  <2>2. cancel' \in BOOLEAN
    BY <2>1
  <2>3. ProgressTypeOK'
    BY <1>1, <2>1, <2>2 DEF ProgressTypeOK
  <2> QED BY <2>1, <2>3, Unmoved
<1>12. CASE CloseDialog
  <2>1. /\ ui' = "join"
        /\ UNCHANGED <<req, pc, start, found, results, matches, edited, broken,
                       worker, cancel, current>>
    BY <1>12 DEF CloseDialog, OnTimer, findElse
  <2>2. ProgressTypeOK'
    BY <1>1, <2>1 DEF ProgressTypeOK
  <2> QED BY <2>1, <2>2, Unmoved
<1>13. ASSUME NEW new \in SUBSET Places, UserEdits(new) PROVE FindInv'
  <2>1. /\ matches' = new /\ edited' = TRUE
        /\ UNCHANGED <<req, pc, start, found, results, broken, ui, worker, cancel, current>>
    BY <1>13 DEF UserEdits, findElse, progressVars
  <2>2. edited' \in BOOLEAN
    BY <2>1
  <2>3. TypeOK' /\ Protocol'
    BY <1>1, <2>1, <2>2 DEF TypeOK, Protocol, ProgressTypeOK
  <2>4. BehindReplaced' /\ Apart'
    BY <2>1 DEF FindInv, BehindReplaced, Apart
  <2>5. FoundSoFar' /\ Complete'
    BY <2>1 DEF FoundSoFar, Complete, Undisturbed
  <2> QED BY <2>3, <2>4, <2>5 DEF FindInv
<1>14. CASE UNCHANGED findVars
  BY <1>1, <1>14, Unmoved DEF findVars, progressVars, ProgressTypeOK
<1> QED
  BY <1>2, <1>3, <1>4, <1>5, <1>6, <1>7, <1>8, <1>9, <1>10, <1>11, <1>12, <1>13, <1>14
     DEF Next, LoopStep

\* Before the first search the list is empty.
LEMMA FindInit == Init => FindInv
<1> SUFFICES ASSUME Init PROVE FindInv
  OBVIOUS
<1>1. /\ req \in Requests /\ pc = "idle" /\ start = 0 /\ found = 0 /\ results = <<>>
      /\ matches \subseteq Places /\ edited = FALSE /\ broken = FALSE
      /\ ui = "free" /\ worker = "none" /\ cancel = FALSE /\ current = 0
  BY DEF Init, ProgressInit
<1>2. 0 \in Places /\ Len(results) = 0 /\ results \in Seq(Places)
  BY <1>1, PlaceIsNat, EmptySeq
<1>3. edited \in BOOLEAN /\ broken \in BOOLEAN /\ cancel \in BOOLEAN
  BY <1>1
<1>4. TypeOK /\ Protocol
  BY <1>1, <1>2, <1>3 DEF TypeOK, ProgressTypeOK, Protocol
<1>5. BehindReplaced /\ FoundSoFar /\ Complete
  BY <1>1 DEF BehindReplaced, FoundSoFar, Complete
<1>6. Apart
  BY <1>2 DEF Apart
<1> QED BY <1>4, <1>5, <1>6 DEF FindInv

-----------------------------------------------------------------------------
(* The theorems                                                            *)

\* The replacements of Replace All neither overlap nor reach beyond the range
\* (Replace, Next_ of ReplaceAll), however long they are, whatever the data
\* matches after each of them, and whatever the user does meanwhile.
THEOREM ReplacementsStayApart == Spec => []ReplacementsApart
<1>1. FindInv => ReplacementsApart
  BY DEF FindInv, Apart, ReplacementsApart
<1> QED BY <1>1, FindInit, FindStep, PTL DEF Spec

\* Find All finds every match at a whole step, in order and up to the limit
\* (FindAll, CalcMemChunks, SearchFuncFwd), through every cache that its steps
\* meet, unless it is cancelled or the data is edited meanwhile.
THEOREM FindAllFindsAll == Spec => []AllFound
<1>1. FindInv => AllFound
  BY DEF FindInv, Complete, Undisturbed, InOrder, AllFound
<1> QED BY <1>1, FindInit, FindStep, PTL DEF Spec

=============================================================================
