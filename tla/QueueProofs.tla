---------------------------- MODULE QueueProofs ----------------------------
(***************************************************************************)
(* Proofs about the two tables that afl-fuzz keeps beside its queue.       *)
(*                                                                         *)
(* The test case cache: its bookkeeping is exact, the search for a free    *)
(* slot stays inside the array, and the input that fuzz_one works on is    *)
(* never freed, for every size of the cache, every number of entries and   *)
(* all lengths.                                                            *)
(*                                                                         *)
(* The alias table: it covers the queue whenever an entry is drawn, draws  *)
(* each entry with the chance of its weight, and no disabled one, for      *)
(* every number of entries and all weights.                                *)
(***************************************************************************)
EXTENDS TestcaseCache, AliasTable, FiniteSums, SequenceTheorems

----------------------------------------------------------------------------
(* The test case cache                                                     *)


\* Entries are numbered in the order in which they were queued; what is loaded
\* or being loaded is an entry of the queue.
Entries ==
  /\ \A q \in Ids : len[q] # NONE <=> q <= Cardinality(Queued)
  /\ cached \subseteq Queued
  /\ pc \in {"get", "stages"} => queue_cur \in Queued
  /\ pc = "get" => get \in Queued \ cached

\* There is an array, at least as long as max_entries says, and a load starts its
\* search at the end or at a slot it has just freed.
Room ==
  /\ max_entries <= alloc /\ max_entries # 0
  /\ pc = "get" => tid = max_cache_count \/ (tid < max_cache_count /\ cache[tid] = NONE)

IInv == Accounting /\ FreeSlotsFound /\ InBounds /\ CurrentPinned /\ Entries /\ Room

\* Accounting with the sum that the facts on sums are about.
Books ==
  /\ TypeOK
  /\ cache_size < max_cache_size
  /\ cache_size = SumOf(len, cached)
  /\ cache_count = Cardinality(Used)
  /\ cached = {cache[i] : i \in Used}
  /\ \A i, j \in Used : cache[i] = cache[j] => i = j

\* The sum of Accounting is the one the facts on sums are about.
LEMMA BooksAre == Accounting <=> Books
BY Zenon DEF Accounting, Books, SumOf

\* The same after a step.
LEMMA BooksNext == (Accounting <=> Books)'
BY BooksAre, PTL

\* Entries are numbers from 1, so none of them is the null pointer.
LEMMA IdsNat == Cardinality(Ids) \in Nat /\ Ids \subseteq Nat /\ NONE \notin Ids
<1>1. Cardinality(Ids) \in Nat
  BY CacheAssumption, FS_CardinalityType
<1> QED
  BY <1>1, CacheAssumption DEF NONE

\* Inputs have at most MAX_FILE bytes, and the cache has room for some.
LEMMA Sizes == MAX_FILE \in Nat \ {0} /\ 0 < max_cache_size /\ Lens \cup {NONE} \subseteq 0..MAX_FILE
<1>1. PICK n \in Lens : n \in 1..MAX_FILE
  BY CacheAssumption
<1> QED
  BY <1>1, CacheAssumption DEF NONE

\* The slots in use are finitely many, all below max_cache_count.
LEMMA UsedFinite ==
  ASSUME TypeOK, FreeSlotsFound
  PROVE  /\ Used \subseteq 0..(max_cache_count - 1)
         /\ IsFiniteSet(Used) /\ Cardinality(Used) \in Nat
         /\ Cardinality(Used) <= max_cache_count
<1>1. Used \subseteq 0..(max_cache_count - 1)
  BY CacheAssumption DEF FreeSlotsFound, TypeOK, Used, Slots
<1>2. IsFiniteSet(0..(max_cache_count - 1)) /\ Cardinality(0..(max_cache_count - 1)) = max_cache_count
  BY FS_Interval DEF TypeOK
<1> QED
  BY <1>1, <1>2, FS_Subset, FS_CardinalityType

\* If there is room for one more, the search ends at a free slot below
\* max_entries, wherever a load or a store starts it.
LEMMA SearchEnds ==
  ASSUME TypeOK, FreeSlotsFound, cache_count = Cardinality(Used), max_entries <= alloc,
         cache_count < max_entries - 1, NEW t \in Nat,
         t = max_cache_count \/ (t < max_cache_count /\ cache[t] = NONE)
  PROVE  LET i == FirstFree(SearchFrom(t))
         IN  i \in Slots /\ i < max_entries /\ i < alloc /\ cache[i] = NONE
<1> DEFINE from == SearchFrom(t)
<1> DEFINE free == {i \in from..(alloc - 1) : cache[i] = NONE}
<1>1. from \in Nat
  BY DEF SearchFrom, TypeOK
<1>2. \E i \in free : i < max_entries
  <2>1. CASE t < max_entries
    <3>1. from = t /\ t \in 0..(alloc - 1) /\ t \in Slots
      BY <2>1, CacheAssumption DEF SearchFrom, TypeOK, Slots
    <3>2. cache[t] = NONE
      BY <3>1 DEF FreeSlotsFound, Used, TypeOK
    <3> QED
      BY <2>1, <3>1, <3>2 DEF TypeOK
  <2>2. CASE t >= max_entries
    <3> SUFFICES ASSUME \A i \in smallest_free..(alloc - 1) : i < max_entries => cache[i] # NONE
                 PROVE  FALSE
      BY <2>2 DEF SearchFrom
    <3>1. 0..(max_entries - 1) \subseteq Used
      BY CacheAssumption DEF FreeSlotsFound, Used, TypeOK, Slots
    <3>2. Cardinality(0..(max_entries - 1)) = max_entries
      BY FS_Interval, CacheAssumption DEF TypeOK
    <3>3. max_entries <= Cardinality(Used)
      <4>1. IsFiniteSet(Used)
        BY UsedFinite
      <4> QED
        BY <3>1, <3>2, <4>1, FS_Subset
    <3> QED
      BY <3>3, UsedFinite DEF TypeOK
  <2> QED
    BY <2>1, <2>2 DEF TypeOK
<1>3. {alloc} \cup free \in SUBSET Nat
  BY <1>1 DEF TypeOK
<1>4. FirstFree(from) = Min({alloc} \cup free)
  BY DEF FirstFree
<1>5. FirstFree(from) \in {alloc} \cup free /\ \A m \in {alloc} \cup free : FirstFree(from) <= m
  <2> HIDE DEF free, from
  <2> QED
    BY <1>3, <1>4, MinNat
<1>6. FirstFree(from) < max_entries /\ FirstFree(from) \in free
  BY <1>2, <1>3, <1>5 DEF TypeOK
<1> QED
  BY <1>1, <1>6, CacheAssumption DEF TypeOK, Slots
\* Registering an input in a free slot keeps the books right.  Its length is
\* that of the new or loading entry, the lengths of all others stay.
LEMMA RegisterStep ==
  ASSUME IInv, NEW q \in Ids, NEW n \in 1..MAX_FILE, NEW i \in Slots, NEW next,
         i < max_entries, i < alloc, cache[i] = NONE, q \notin cached, ~Full(n),
         len' \in [Ids -> 0..MAX_FILE], len'[q] = n, \A p \in cached : len'[p] = len[p],
         Register(q, n, i, next), next \in {"idle", "stages"},
         queue_cur' \in {NONE} \cup Ids, get' \in {NONE} \cup Ids, tid' \in Nat,
         trimmed' \in BOOLEAN
  PROVE  /\ Accounting' /\ FreeSlotsFound' /\ max_entries' <= alloc' /\ max_entries' # 0
         /\ cached' = cached \cup {q} /\ pc' = next
<1>1. /\ cache' = [cache EXCEPT ![i] = q]
      /\ cached' = cached \cup {q}
      /\ cache_size' = cache_size + n
      /\ cache_count' = cache_count + 1
      /\ max_cache_count' = IF i >= max_cache_count THEN i + 1 ELSE max_cache_count
      /\ smallest_free' = NextFree(i)
      /\ pc' = next
      /\ UNCHANGED <<alloc, max_entries, do_once>>
  BY DEF IInv, Accounting, TypeOK, Slots, Register
<1>2. TypeOK
  BY DEF IInv, Accounting
<1>3. q # NONE /\ Used' = Used \cup {i} /\ i \notin Used
  <2>1. q # NONE
    BY IdsNat
  <2> QED
    BY <1>1, <1>2, <2>1 DEF TypeOK, Used
<1>4. TypeOK'
  BY <1>1, <1>2, CacheAssumption DEF TypeOK, NextFree, Slots
<1>5. IsFiniteSet(Used) /\ IsFiniteSet(cached) /\ \A p \in cached : len[p] \in Nat
  <2>1. IsFiniteSet(cached)
    BY <1>2, CacheAssumption, FS_Subset DEF TypeOK
  <2> QED
    BY <2>1, <1>2, UsedFinite DEF IInv, TypeOK
<1>6. cache_size' = SumOf(len', cached')
  <2>1. SumOf(len', cached \cup {q}) = len'[q] + SumOf(len', cached)
    BY <1>5, SumAdd
  <2>2. SumOf(len', cached) = SumOf(len, cached)
    BY <1>5, SumSame
  <2>3. cache_size = SumOf(len, cached)
    BY BooksAre DEF IInv, Books
  <2> QED
    BY <2>1, <2>2, <2>3, <1>1, <1>2 DEF TypeOK
<1>7. cache_size' < max_cache_size
  BY <1>1, <1>2, CacheAssumption DEF TypeOK, Full
<1>8. cache_count' = Cardinality(Used')
  BY <1>1, <1>3, <1>5, FS_AddElement DEF IInv, Accounting
<1>9. cached' = {cache'[k] : k \in Used'} /\ \A k, j \in Used' : cache'[k] = cache'[j] => k = j
  BY <1>1, <1>2, <1>3 DEF IInv, Accounting, TypeOK, Used
<1>10. Accounting'
  <2>1. Books'
    BY <1>4, <1>6, <1>7, <1>8, <1>9 DEF Books
  <2> QED
    BY <2>1, BooksNext
<1>11. FreeSlotsFound'
  BY <1>1, <1>2, <1>3 DEF IInv, FreeSlotsFound, NextFree, TypeOK, Used, Slots
<1> QED
  BY <1>1, <1>10, <1>11 DEF IInv, Room
\* The queue is a part of the entries, so it has a length.
LEMMA QueuedFinite == IsFiniteSet(Queued) /\ Cardinality(Queued) \in Nat
BY CacheAssumption, FS_Subset, FS_CardinalityType DEF Queued

\* At the start nothing is loaded.
LEMMA InitInv == max_entries_init # 0 /\ Init => IInv
<1> SUFFICES ASSUME max_entries_init # 0, Init PROVE IInv
  OBVIOUS
<1> USE CacheAssumption, IdsNat
<1>1. TypeOK
  <2>1. len \in [Ids -> 0..MAX_FILE]
    BY Sizes DEF Init
  <2>2. cache \in [Slots -> {NONE} \cup Ids] /\ alloc \in 0..max_entries_init
    BY DEF Init
  <2> QED
    BY <2>1, <2>2 DEF Init, TypeOK
<1>2. Used = {}
  BY DEF Init, Used
<1>3. Books
  <2>1. cache_size = SumOf(len, cached) /\ cache_count = Cardinality(Used)
    BY <1>2, SumEmpty, FS_EmptySet DEF Init
  <2>2. cache_size < max_cache_size /\ cached = {cache[i] : i \in Used}
    BY <1>2, Sizes DEF Init
  <2> QED
    BY <1>1, <1>2, <2>1, <2>2 DEF Books
<1>4. Cardinality(Queued) = Seeds
  <2>1. Queued = 1..Seeds
    BY DEF Queued, Init
  <2> QED
    BY <2>1, FS_Interval
<1>5. Entries
  BY <1>4 DEF Init, Entries
<1>6. FreeSlotsFound /\ InBounds /\ CurrentPinned /\ Room
  BY <1>2 DEF Init, FreeSlotsFound, InBounds, CurrentPinned, Room, Slots
<1> QED
  BY <1>3, <1>5, <1>6, BooksAre DEF IInv

\* One round of the eviction loop.
LEMMA EvictStep ==
  ASSUME IInv, NEW i \in Slots, GetEvict(i)
  PROVE  IInv'
<1> DEFINE v == cache[i]
<1>1. TypeOK /\ Books
  BY BooksAre DEF IInv, Accounting
<1>2. v \in cached /\ v # queue_cur /\ i \in Used /\ v \in Ids
  BY <1>1 DEF GetEvict, Evictable, Used, Books, TypeOK
<1>3. Used' = Used \ {i}
  BY <1>1, <1>2 DEF GetEvict, Used, TypeOK
<1>4. IsFiniteSet(Used) /\ IsFiniteSet(cached) /\ Cardinality(Used) <= max_cache_count
  <2>1. IsFiniteSet(cached)
    BY <1>1, CacheAssumption, FS_Subset DEF TypeOK
  <2> QED
    BY <2>1, <1>1, UsedFinite DEF IInv, TypeOK
<1>5. cached' = cached \ {v} /\ len' = len /\ cache_size' = cache_size - len[v]
  BY DEF GetEvict, EvictedSize
<1>6. cache_size' = SumOf(len', cached') /\ cache_size' \in Nat
  <2>1. \A p \in cached : len[p] \in Nat
    BY <1>1 DEF TypeOK
  <2>2. SumOf(len, cached) = len[v] + SumOf(len, cached \ {v})
    BY <1>2, <1>4, <2>1, SumRemove
  <2>3. SumOf(len, cached \ {v}) \in Nat
    <3>1. IsFiniteSet(cached \ {v})
      BY <1>4, FS_RemoveElement
    <3> QED
      BY <3>1, <2>1, SumNat
  <2> QED
    BY <1>1, <1>2, <1>5, <2>1, <2>2, <2>3 DEF Books
<1>7. cache_count' = Cardinality(Used') /\ cache_count' \in Nat
  <2>1. Cardinality(Used') = Cardinality(Used) - 1
    BY <1>2, <1>3, <1>4, FS_RemoveElement
  <2>2. IsFiniteSet(Used')
    BY <1>3, <1>4, FS_RemoveElement
  <2>3. Cardinality(Used') \in Nat
    BY <2>2, FS_CardinalityType
  <2> QED
    BY <2>1, <2>3, <1>1 DEF GetEvict, Books
<1>8. LearntEntries = max_cache_count + 1
  <2>1. cache_count <= max_cache_count
    BY <1>1, <1>4 DEF Books
  <2>2. \A y \in {max_cache_count, cache_count} : max_cache_count >= y
    BY <2>1, <1>1 DEF TypeOK
  <2>3. Max({max_cache_count, cache_count}) = max_cache_count
    BY <2>1, <2>2, <1>1 DEF Max, TypeOK
  <2> QED
    BY <2>3 DEF LearntEntries
<1>9. /\ max_entries' \in Nat /\ alloc' \in 0..max_entries_init
      /\ max_entries' <= alloc' /\ max_entries' # 0 /\ max_cache_count <= max_entries'
  <2>1. CASE ~Learns
    BY <2>1, <1>1 DEF GetEvict, TypeOK, IInv, Room, FreeSlotsFound
  <2>2. CASE Learns
    <3>1. max_cache_count < max_entries /\ max_entries <= alloc
      BY <2>2 DEF Learns, IInv, Room
    <3>2. max_entries' = max_cache_count + 1
      BY <2>2, <1>8 DEF GetEvict
    <3>3. alloc' = Min({alloc, LearntEntries + 1})
      BY <2>2 DEF GetEvict
    <3>4. {alloc, LearntEntries + 1} \in SUBSET Nat
      BY <1>1, <1>8 DEF TypeOK
    <3>5. alloc' \in {alloc, LearntEntries + 1} /\ alloc' <= alloc
      BY <3>3, <3>4, MinNat
    <3> QED
      BY <3>1, <3>2, <3>5, <1>1, <1>8, CacheAssumption DEF TypeOK
  <2> QED
    BY <2>1, <2>2
<1>10. /\ smallest_free' \in Nat /\ smallest_free' <= i /\ smallest_free' <= smallest_free
  <2>1. {i, smallest_free} \in SUBSET Nat
    BY <1>1, CacheAssumption DEF TypeOK, Slots
  <2>2. smallest_free' = Min({i, smallest_free})
    BY DEF GetEvict
  <2> QED
    BY <2>1, <2>2, MinNat
<1>11. TypeOK'
  <2>1. do_once' \in BOOLEAN
    BY DEF GetEvict, Learns
  <2>2. cache' \in [Slots -> {NONE} \cup Ids]
    BY <1>1 DEF GetEvict, TypeOK
  <2>3. len' \in [Ids -> 0..MAX_FILE] /\ cached' \subseteq Ids /\ tid' \in Nat
    BY <1>1, <1>5, CacheAssumption DEF GetEvict, TypeOK, Slots
  <2> QED
    BY <2>1, <2>2, <2>3, <1>1, <1>5, <1>6, <1>7, <1>9, <1>10 DEF GetEvict, TypeOK, Slots
<1>12. cached' = {cache'[k] : k \in Used'} /\ \A k, j \in Used' : cache'[k] = cache'[j] => k = j
  BY <1>1, <1>2, <1>3, <1>5 DEF GetEvict, Books, TypeOK, Used
<1>13. cache_size' < max_cache_size
  BY CacheAssumption, <1>1, <1>2, <1>5 DEF Books, TypeOK
<1>14. Books'
  BY <1>6, <1>7, <1>11, <1>12, <1>13 DEF Books
<1>15. FreeSlotsFound'
  <2>1. FreeSlotsFound /\ max_cache_count' = max_cache_count /\ \A k \in Slots \ {i} : cache'[k] = cache[k]
    BY <1>1 DEF IInv, GetEvict, TypeOK
  <2>2. \A k \in Slots : k < smallest_free' => k # i /\ k < smallest_free
    BY <1>1, <1>10, CacheAssumption DEF TypeOK, Slots
  <2>3. \A k \in Slots : k < smallest_free' => cache'[k] # NONE
    BY <2>1, <2>2 DEF FreeSlotsFound
  <2>4. \A k \in Used' : k < max_cache_count'
    BY <1>3, <2>1 DEF FreeSlotsFound
  <2> QED
    BY <1>9, <2>1, <2>3, <2>4 DEF FreeSlotsFound
<1>16. Queued' = Queued
  BY <1>5 DEF Queued
<1>17. Entries'
  BY <1>2, <1>5, <1>16 DEF IInv, Entries, GetEvict
<1>18. CurrentPinned' /\ InBounds'
  BY <1>2, <1>5 DEF IInv, CurrentPinned, InBounds, GetEvict
<1>19. Room'
  BY <1>1, <1>2, <1>9 DEF IInv, Room, GetEvict, TypeOK, Evictable
<1> QED
  BY <1>14, <1>15, <1>17, <1>18, <1>19, BooksNext DEF IInv
\* The file is read into the slot that was found.
LEMMA LoadStep ==
  ASSUME IInv, GetLoad
  PROVE  IInv'
<1> DEFINE i == FirstFree(SearchFrom(tid))
<1>1. TypeOK /\ Books /\ pc = "get" /\ get \in Queued \ cached /\ get \in Ids
  BY BooksAre DEF IInv, Accounting, GetLoad, Entries, Queued
<1>2. i \in Slots /\ i < max_entries /\ i < alloc /\ cache[i] = NONE
  BY <1>1, SearchEnds DEF IInv, Books, Room, GetLoad, Full, TypeOK
<1>3. len[get] \in 1..MAX_FILE /\ len' = len /\ len \in [Ids -> 0..MAX_FILE]
  BY <1>1, CacheAssumption DEF GetLoad, Queued, TypeOK, NONE
<1>4. Register(get, len[get], i, "stages") /\ ~Full(len[get])
  BY DEF GetLoad
<1>5. queue_cur' = queue_cur /\ get' = NONE /\ tid' = 0 /\ trimmed' = trimmed
  BY DEF GetLoad
<1>6. /\ Accounting' /\ FreeSlotsFound' /\ max_entries' <= alloc' /\ max_entries' # 0
      /\ cached' = cached \cup {get} /\ pc' = "stages"
  <2> HIDE DEF i
  <2> QED
    BY <1>1, <1>2, <1>3, <1>4, <1>5, RegisterStep DEF TypeOK
<1>7. Entries' /\ Room' /\ InBounds' /\ CurrentPinned'
  BY <1>1, <1>3, <1>5, <1>6 DEF IInv, Entries, Room, InBounds, CurrentPinned, Queued
<1> QED
  BY <1>6, <1>7 DEF IInv

\* A new input is queued, and stored if there is room.
LEMMA StoreStep ==
  ASSUME IInv, NEW n \in Lens, StoreMem(n)
  PROVE  IInv'
<1> DEFINE q == Cardinality(Queued) + 1
<1> DEFINE i == FirstFree(SearchFrom(max_cache_count))
<1>1. TypeOK /\ Books /\ q \in Ids /\ n \in 1..MAX_FILE /\ pc \in {"idle", "stages"}
  BY BooksAre, CacheAssumption DEF IInv, Accounting, StoreMem
<1>2. len' = [len EXCEPT ![q] = n] /\ len[q] = NONE /\ q \notin cached
  BY <1>1, QueuedFinite DEF StoreMem, IInv, Entries, Queued
<1>3. len' \in [Ids -> 0..MAX_FILE] /\ len'[q] = n /\ \A p \in cached : len'[p] = len[p]
  BY <1>1, <1>2, CacheAssumption DEF TypeOK
<1>4. UNCHANGED <<queue_cur, get, tid, trimmed>>
  BY DEF StoreMem
<1>5. Queued' = Queued \cup {q} /\ q \notin Queued
  BY <1>1, <1>2 DEF Queued, TypeOK, NONE
<1>6. Cardinality(Queued') = q
  BY <1>5, QueuedFinite, FS_AddElement
<1>7. \A p \in Ids : len'[p] # NONE <=> p <= Cardinality(Queued')
  BY <1>1, <1>2, <1>6, QueuedFinite, IdsNat DEF IInv, Entries, TypeOK, NONE
<1>8. CASE Full(n) /\ UNCHANGED <<cached, cacheVars, pc>>
  <2>1. TypeOK'
    BY <1>1, <1>3, <1>4, <1>8 DEF TypeOK, cacheVars
  <2>2. SumOf(len', cached) = SumOf(len, cached)
    <3>1. IsFiniteSet(cached) /\ \A p \in cached : len[p] \in Nat
      BY <1>1, CacheAssumption, FS_Subset DEF TypeOK
    <3> QED
      BY <3>1, <1>3, SumSame
  <2>3. Books'
    BY <1>1, <1>8, <2>1, <2>2 DEF Books, cacheVars, Used
  <2>4. Entries'
    BY <1>1, <1>4, <1>5, <1>7, <1>8 DEF IInv, Entries
  <2>5. FreeSlotsFound' /\ InBounds' /\ CurrentPinned' /\ Room'
    BY <1>1, <1>4, <1>8 DEF IInv, FreeSlotsFound, InBounds, CurrentPinned, Room, cacheVars, Used
  <2> QED
    BY <2>3, <2>4, <2>5, BooksNext DEF IInv
<1>9. CASE ~Full(n) /\ Register(q, n, i, pc)
  <2>1. i \in Slots /\ i < max_entries /\ i < alloc /\ cache[i] = NONE
    BY <1>1, <1>9, SearchEnds DEF IInv, Books, Room, Full, TypeOK
  <2>2. /\ Accounting' /\ FreeSlotsFound' /\ max_entries' <= alloc' /\ max_entries' # 0
        /\ cached' = cached \cup {q} /\ pc' = pc
    <3> HIDE DEF i, q
    <3> QED
      BY <1>1, <1>2, <1>3, <1>4, <1>9, <2>1, RegisterStep DEF TypeOK
  <2>3. Entries'
    BY <1>1, <1>4, <1>5, <1>7, <2>2 DEF IInv, Entries
  <2>4. InBounds' /\ CurrentPinned' /\ Room'
    BY <1>1, <1>4, <2>2 DEF IInv, InBounds, CurrentPinned, Room
  <2> QED
    BY <2>2, <2>3, <2>4 DEF IInv
<1> QED
  BY <1>8, <1>9 DEF StoreMem

\* trim_case shortens the current input and its share of cache_size.
LEMMA TrimStep ==
  ASSUME IInv, NEW n \in Lens, Trim(n)
  PROVE  IInv'
<1> DEFINE c == queue_cur
<1>1. TypeOK /\ Books /\ c \in cached /\ c \in Ids /\ n \in 1..MAX_FILE
  BY BooksAre, CacheAssumption DEF IInv, Accounting, Trim, CurrentPinned, TypeOK
<1>2. len' = [len EXCEPT ![c] = n] /\ cache_size' = cache_size + n - len[c] /\ n < len[c]
  BY <1>1 DEF Trim
<1>3. IsFiniteSet(cached) /\ IsFiniteSet(cached \ {c})
  BY <1>1, CacheAssumption, FS_Subset, FS_RemoveElement DEF TypeOK
<1>4. (\A p \in cached : len[p] \in Nat /\ len'[p] \in Nat) /\ len'[c] = n
  BY <1>1, <1>2 DEF TypeOK
<1>5. SumOf(len, cached) = len[c] + SumOf(len, cached \ {c})
  BY <1>1, <1>3, <1>4, SumRemove
<1>6. SumOf(len', cached) = len'[c] + SumOf(len', cached \ {c})
  BY <1>1, <1>3, <1>4, SumRemove
<1>7. SumOf(len', cached \ {c}) = SumOf(len, cached \ {c})
  <2>1. \A p \in cached \ {c} : len[p] \in Nat /\ len[p] = len'[p]
    BY <1>1, <1>2, <1>4 DEF TypeOK
  <2> QED
    BY <2>1, <1>3, SumSame
<1>8. SumOf(len, cached \ {c}) \in Nat
  BY <1>3, <1>4, SumNat
<1>9. cache_size' = SumOf(len', cached) /\ cache_size' \in Nat /\ cache_size' < max_cache_size
  <2>1. cache_size = SumOf(len, cached) /\ cache_size < max_cache_size
    BY <1>1 DEF Books
  <2> QED
    BY <2>1, <1>1, <1>2, <1>4, <1>5, <1>6, <1>7, <1>8, CacheAssumption
<1>10. TypeOK'
  BY <1>1, <1>2, <1>9 DEF TypeOK, Trim
<1>11. Books'
  BY <1>1, <1>9, <1>10 DEF Books, Trim, Used
<1>12. Queued' = Queued
  BY <1>1, <1>2 DEF Queued, TypeOK, IInv, Entries, NONE
<1>13. Entries'
  BY <1>1, <1>2, <1>12 DEF IInv, Entries, Trim, TypeOK, Queued, NONE
<1>14. FreeSlotsFound' /\ InBounds' /\ CurrentPinned' /\ Room'
  BY DEF IInv, FreeSlotsFound, InBounds, CurrentPinned, Room, Trim, Used
<1> QED
  BY <1>11, <1>13, <1>14, BooksNext DEF IInv

\* fuzz_one, splicing and the end of an entry leave the cache alone.
LEMMA CallStep ==
  ASSUME IInv,
         \/ \E q \in Ids : FuzzOne(q) \/ Splice(q)
         \/ Abandon
         \/ UNCHANGED vars
  PROVE  IInv'
<1>1. TypeOK /\ Books /\ UNCHANGED <<len, cached, cacheVars>>
  BY BooksAre DEF IInv, Accounting, FuzzOne, Splice, Abandon, vars
<1>2. TypeOK'
  BY <1>1 DEF TypeOK, FuzzOne, Splice, Abandon, vars, Get, cacheVars, Queued
<1>3. Books'
  BY <1>1, <1>2 DEF Books, cacheVars, Used
<1>4. Queued' = Queued
  BY <1>1 DEF Queued
<1>5. FreeSlotsFound'
  BY <1>1 DEF IInv, FreeSlotsFound, cacheVars, Used
<1>6. Entries' /\ InBounds' /\ CurrentPinned' /\ Room'
  BY <1>1, <1>4 DEF IInv, Entries, InBounds, CurrentPinned, Room, cacheVars, FuzzOne, Splice,
     Abandon, vars, Get
<1> QED
  BY <1>3, <1>5, <1>6, BooksNext DEF IInv

\* Every step keeps the inductive invariant.
LEMMA NextInv == IInv /\ [Next]_vars => IInv'
<1> SUFFICES ASSUME IInv, [Next]_vars PROVE IInv'
  OBVIOUS
<1>1. ASSUME NEW i \in Slots, GetEvict(i) PROVE IInv'
  BY <1>1, EvictStep
<1>2. ASSUME NEW i \in Slots, GetMiss(i) PROVE IInv'
  BY <1>2, CallStep DEF GetMiss
<1>3. CASE GetLoad
  BY <1>3, LoadStep
<1>4. ASSUME NEW q \in Ids, FuzzOne(q) \/ Splice(q) PROVE IInv'
  BY <1>4, CallStep
<1>5. ASSUME NEW n \in Lens, Trim(n) PROVE IInv'
  BY <1>5, TrimStep
<1>6. ASSUME NEW n \in Lens, StoreMem(n) PROVE IInv'
  BY <1>6, StoreStep
<1>7. CASE Abandon \/ UNCHANGED vars
  BY <1>7, CallStep
<1> QED
  BY <1>1, <1>2, <1>3, <1>4, <1>5, <1>6, <1>7 DEF Next

\* The inductive invariant holds in all reachable states.
LEMMA Invariance ==
  ASSUME max_entries_init # 0 PROVE Spec => []IInv
<1>1. Init => IInv
  BY InitInv
<1> QED
  BY <1>1, NextInv, PTL DEF Spec

----------------------------------------------------------------------------
(* The theorems                                                            *)

\* The counters of the cache always say what the slots hold, and stay below
\* the configured number of bytes.
THEOREM BooksRight ==
  ASSUME max_entries_init # 0 PROVE Spec => []Accounting
<1>1. IInv => Accounting
  BY DEF IInv
<1> QED
  BY <1>1, Invariance, PTL

\* No hole is missed: below smallest_free all slots are in use, from
\* max_cache_count on none is.
THEOREM NoHoleMissed ==
  ASSUME max_entries_init # 0 PROVE Spec => []FreeSlotsFound
<1>1. IInv => FreeSlotsFound
  BY DEF IInv
<1> QED
  BY <1>1, Invariance, PTL

\* The search for a free slot never leaves the array, also when realloc has
\* cut it.
THEOREM SearchInBounds ==
  ASSUME max_entries_init # 0 PROVE Spec => []InBounds
<1>1. IInv => InBounds
  BY DEF IInv
<1> QED
  BY <1>1, Invariance, PTL

\* The input fuzz_one works on is in memory as long as it is used.
THEOREM CurrentStays ==
  ASSUME max_entries_init # 0 PROVE Spec => []CurrentPinned
<1>1. IInv => CurrentPinned
  BY DEF IInv
<1> QED
  BY <1>1, Invariance, PTL


----------------------------------------------------------------------------
(* The alias table: its stacks                                             *)

\* A stack without duplicates of the numbers in T.
IsStack(s, T) == s \in Seq(Nat) /\ IsInjective(s) /\ Range(s) = T

\* What is popped leaves the stack and is nowhere else in it.
LEMMA Popped ==
  ASSUME NEW T, NEW s, IsStack(s, T), s # <<>>
  PROVE  s[Len(s)] \in T /\ IsStack(Front(s), T \ {s[Len(s)]})
<1> DEFINE n == Len(s)
           r == Front(s)
<1>1. s \in Seq(Nat) /\ n \in Nat /\ n # 0 /\ DOMAIN s = 1..n
  BY EmptySeq DEF IsStack
<1>2. r = SubSeq(s, 1, n - 1)
  BY DEF Front
<1>3. r \in Seq(Nat) /\ Len(r) = n - 1 /\ \A i \in 1..(n - 1) : r[i] = s[i]
  BY <1>1, <1>2, SubSeqProperties
<1>4. DOMAIN r = 1..(n - 1)
  BY <1>1, <1>3
<1> HIDE DEF r, n
<1>5. \A i, j \in 1..n : s[i] = s[j] => i = j
  BY <1>1 DEF IsStack, IsInjective
<1>6. T = {s[i] : i \in 1..n}
  BY <1>1 DEF IsStack, Range
<1>7. IsInjective(r)
  BY <1>1, <1>3, <1>4, <1>5 DEF IsInjective
<1>8. Range(r) = {s[i] : i \in 1..(n - 1)}
  BY <1>3, <1>4 DEF Range
<1>9. {s[i] : i \in 1..(n - 1)} = T \ {s[n]}
  BY <1>1, <1>5, <1>6
<1>10. s[n] \in T
  BY <1>1, <1>6
<1>11. IsStack(r, T \ {s[n]})
  BY <1>3, <1>7, <1>8, <1>9, Zenon DEF IsStack
<1> QED
  BY <1>10, <1>11 DEF n, r

\* What is pushed is new.
LEMMA Pushed ==
  ASSUME NEW T, NEW s, IsStack(s, T), NEW x \in Nat, x \notin T
  PROVE  IsStack(Append(s, x), T \cup {x}) /\ Append(s, x) # <<>>
<1> DEFINE n == Len(s)
           r == Append(s, x)
<1>1. s \in Seq(Nat) /\ n \in Nat /\ DOMAIN s = 1..n
  BY DEF IsStack
<1>2. r \in Seq(Nat) /\ Len(r) = n + 1 /\ r[n + 1] = x /\ \A i \in 1..n : r[i] = s[i]
  BY <1>1, AppendProperties
<1>3. DOMAIN r = 1..(n + 1) /\ r # <<>>
  BY <1>1, <1>2
<1> HIDE DEF r, n
<1>4. \A i, j \in 1..n : s[i] = s[j] => i = j
  BY <1>1 DEF IsStack, IsInjective
<1>5. T = {s[i] : i \in 1..n}
  BY <1>1 DEF IsStack, Range
<1>6. IsInjective(r)
  BY <1>1, <1>2, <1>3, <1>4, <1>5 DEF IsInjective
<1>7. Range(r) = {r[i] : i \in 1..(n + 1)}
  BY <1>3 DEF Range
<1>8. Range(r) = T \cup {x}
  <2>1. \A i \in 1..(n + 1) : i \in 1..n \/ i = n + 1
    BY <1>1
  <2> QED
    BY <1>1, <1>2, <1>5, <1>7, <2>1
<1> QED
  BY <1>2, <1>3, <1>6, <1>8 DEF IsStack, r

\* h pushes the numbers of these, from n - 1 down to n - m.
Pushes(h, m, n, these) ==
  h = [k \in 0..m |-> IF k = 0 THEN <<>>
                      ELSE IF n - k \in these THEN Append(h[k - 1], n - k) ELSE h[k - 1]]

\* The pushes down to n - k have left the numbers of these that are there.
LEMMA PushesLeave ==
  ASSUME NEW n \in Nat, NEW these \in SUBSET Items(n), NEW m \in 0..n, NEW h, Pushes(h, m, n, these)
  PROVE  \A k \in 0..m : IsStack(h[k], {i \in these : n - k <= i})
<1> DEFINE Bad == {k \in 0..m : ~IsStack(h[k], {i \in these : n - k <= i})}
<1> SUFFICES ASSUME Bad # {} PROVE FALSE
  OBVIOUS
<1>1. PICK k \in Bad : \A j \in Bad : k <= j
  <2>1. Bad \in SUBSET Nat
    OBVIOUS
  <2> HIDE DEF Bad
  <2> QED
    BY <2>1, LeastNat
<1>2. k \in 0..m /\ ~IsStack(h[k], {i \in these : n - k <= i})
  BY <1>1
<1>3. \A i \in these : i \in Nat /\ i < n
  BY DEF Items
<1>4. CASE k = 0
  <2>1. h[0] = <<>>
    BY <1>2, <1>4 DEF Pushes
  <2>2. {i \in these : n - 0 <= i} = {}
    BY <1>3
  <2>3. IsStack(<<>>, {})
    BY DEF IsStack, IsInjective, Range
  <2> QED
    BY <1>2, <1>4, <2>1, <2>2, <2>3
<1>5. CASE k # 0
  <2> DEFINE T == {i \in these : n - (k - 1) <= i}
  <2>1. k - 1 \in 0..m /\ k - 1 \notin Bad
    <3>1. k - 1 \in 0..m /\ ~(k <= k - 1)
      BY <1>2, <1>5
    <3> HIDE DEF Bad
    <3> QED
      BY <1>1, <3>1
  <2>2. IsStack(h[k - 1], T)
    BY <2>1
  <2>3. h[k] = IF n - k \in these THEN Append(h[k - 1], n - k) ELSE h[k - 1]
    BY <1>2, <1>5 DEF Pushes
  <2>4. {i \in these : n - k <= i} = IF n - k \in these THEN T \cup {n - k} ELSE T
    BY <1>2, <1>3, <1>5
  <2>5. n - k \notin T /\ n - k \in Nat
    BY <1>2, <1>5
  <2> HIDE DEF T
  <2>6. IsStack(Append(h[k - 1], n - k), T \cup {n - k})
    BY <2>2, <2>5, Pushed
  <2> QED
    BY <1>2, <2>2, <2>3, <2>4, <2>6
<1> QED
  BY <1>4, <1>5

\* The recursion has a solution.
LEMMA PushesExist ==
  ASSUME NEW n \in Nat, NEW these
  PROVE  \A m \in Nat : \E h : Pushes(h, m, n, these)
<1> DEFINE Bad == {m \in Nat : ~\E h : Pushes(h, m, n, these)}
<1> SUFFICES ASSUME Bad # {} PROVE FALSE
  OBVIOUS
<1>1. PICK m \in Bad : \A j \in Bad : m <= j
  <2>1. Bad \in SUBSET Nat
    OBVIOUS
  <2> HIDE DEF Bad
  <2> QED
    BY <2>1, LeastNat
<1>2. m \in Nat /\ ~\E h : Pushes(h, m, n, these)
  BY <1>1
<1>3. m # 0
  <2> DEFINE h == [k \in 0..0 |-> <<>>]
  <2>1. Pushes(h, 0, n, these)
    BY DEF Pushes
  <2> HIDE DEF h
  <2> QED
    BY <1>2, <2>1
<1>4. PICK h : Pushes(h, m - 1, n, these)
  <2>1. m - 1 \in Nat /\ ~(m <= m - 1)
    BY <1>2, <1>3
  <2> QED
    BY <1>1, <2>1
<1> DEFINE F(x, k) == IF k = 0 THEN <<>>
                      ELSE IF n - k \in these THEN Append(x[k - 1], n - k) ELSE x[k - 1]
           g == [k \in 0..m |-> F(h, k)]
<1>5. \A k \in 0..(m - 1) : h[k] = F(h, k)
  BY <1>4 DEF Pushes
<1>6. \A k \in 0..m : k # 0 => k - 1 \in 0..(m - 1) /\ k - 1 \in 0..m
  BY <1>2
<1>7. \A k \in 0..(m - 1) : k \in 0..m /\ g[k] = h[k]
  BY <1>2, <1>5
<1>8. \A k \in 0..m : F(h, k) = F(g, k)
  <2> HIDE DEF g
  <2> QED
    BY <1>6, <1>7
<1>9. g = [k \in 0..m |-> F(g, k)]
  <2> HIDE DEF F
  <2>1. [k \in 0..m |-> F(h, k)] = [k \in 0..m |-> F(g, k)]
    BY <1>8
  <2> QED
    BY <2>1
<1>10. Pushes(g, m, n, these)
  <2> HIDE DEF g
  <2> QED
    BY <1>9 DEF Pushes
<1> QED
  BY <1>2, <1>10

\* Stack holds each of the given indices once.
LEMMA StackIs ==
  ASSUME NEW n \in Nat, NEW these \in SUBSET Items(n)
  PROVE  IsStack(Stack(n, these), these)
<1> DEFINE h == CHOOSE x : Pushes(x, n, n, these)
<1>1. Pushes(h, n, n, these)
  BY PushesExist
<1>2. Stack(n, these) = h[n]
  BY DEF Stack, Pushes
<1> HIDE DEF h
<1>3. n \in 0..n
  OBVIOUS
<1>4. IsStack(h[n], {i \in these : n - n <= i})
  BY <1>1, <1>3, PushesLeave
<1>5. {i \in these : n - n <= i} = these
  <2>1. n - n = 0 /\ \A i \in these : 0 <= i
    BY DEF Items
  <2> QED
    BY <2>1
<1> QED
  BY <1>2, <1>4, <1>5

----------------------------------------------------------------------------
(* The alias table: what its columns add up to                             *)

\* What the finished columns, those not in T, leave to entry i: at is the alias
\* table, ap its probabilities, in units of 1/b.
Gives(T, n, ap, at, b, i) ==
  [s \in Items(n) |-> IF s \notin T /\ at[s] = i THEN b - ap[s] ELSE 0]

\* What entry i has for itself: its rest p, or its column once that is finished.
Holds(T, p, ap, i) == IF i \in T THEN p[i] ELSE ap[i]

\* Each entry has its due, n times its weight w.
Fair(T, n, p, ap, at, b, w) ==
  \A i \in Items(n) :
    Holds(T, p, ap, i) + SumOf(Gives(T, n, ap, at, b, i), Items(n)) = n * w[i]

\* A table for n entries with weights w, in the making.
Columns(T, n, p, ap, at, b, w) ==
  /\ n \in Nat /\ b \in Nat \ {0} /\ T \subseteq Items(n)
  /\ p \in [Items(n) -> Nat] /\ w \in [Items(n) -> Nat]
  /\ ap \in [Items(n) -> 0..b] /\ at \in [Items(n) -> Items(n)]

\* Indices are finitely many.
LEMMA ItemsFinite ==
  ASSUME NEW n \in Nat
  PROVE  IsFiniteSet(Items(n)) /\ Cardinality(Items(n)) = n /\ \A T \in SUBSET Items(n) : IsFiniteSet(T)
<1>1. IsFiniteSet(Items(n))
  BY FS_Interval DEF Items
<1>2. Cardinality(0..(n - 1)) = IF 0 > n - 1 THEN 0 ELSE (n - 1) - 0 + 1
  BY FS_Interval
<1>3. Cardinality(Items(n)) = n
  BY <1>2 DEF Items
<1> QED
  BY <1>1, <1>3, FS_Subset

\* What is left to an entry is a natural number.
LEMMA GivesNat ==
  ASSUME NEW T, NEW n, NEW p, NEW ap, NEW at, NEW b, NEW w, Columns(T, n, p, ap, at, b, w), NEW i
  PROVE  /\ \A s \in Items(n) : Gives(T, n, ap, at, b, i)[s] \in Nat
         /\ SumOf(Gives(T, n, ap, at, b, i), Items(n)) \in Nat
<1>1. \A s \in Items(n) : Gives(T, n, ap, at, b, i)[s] \in Nat
  BY DEF Gives, Columns
<1>2. IsFiniteSet(Items(n))
  BY ItemsFinite DEF Columns
<1> QED
  BY <1>1, <1>2, SumNat

\* One turn of the loop: a is filled up from g.
Paired(a, g, p, ap, at, b, n, p2, ap2, at2) ==
  /\ p2[g] = p[g] + p[a] - b /\ \A i \in Items(n) \ {g} : p2[i] = p[i]
  /\ ap2[a] = p[a] /\ \A i \in Items(n) \ {a} : ap2[i] = ap[i]
  /\ at2[a] = g /\ \A i \in Items(n) \ {a} : at2[i] = at[i]

\* Nobody's due changes when a is filled up from g.
LEMMA PairFair ==
  ASSUME NEW T, NEW n, NEW p, NEW ap, NEW at, NEW b, NEW w, Columns(T, n, p, ap, at, b, w),
         Fair(T, n, p, ap, at, b, w), NEW a \in T, NEW g \in T, a # g, p[a] <= b,
         NEW p2, NEW ap2, NEW at2, Paired(a, g, p, ap, at, b, n, p2, ap2, at2),
         Columns(T \ {a}, n, p2, ap2, at2, b, w)
  PROVE  Fair(T \ {a}, n, p2, ap2, at2, b, w)
<1> SUFFICES ASSUME NEW i \in Items(n)
             PROVE  Holds(T \ {a}, p2, ap2, i) + SumOf(Gives(T \ {a}, n, ap2, at2, b, i), Items(n))
                      = n * w[i]
  BY DEF Fair
<1> DEFINE D == Items(n)
           G == Gives(T, n, ap, at, b, i)
           H == Gives(T \ {a}, n, ap2, at2, b, i)
<1>1. IsFiniteSet(D) /\ IsFiniteSet(D \ {a}) /\ a \in D /\ g \in D
  BY ItemsFinite, FS_Subset DEF Columns
<1>2. (\A s \in D : G[s] \in Nat) /\ SumOf(G, D) \in Nat
  BY GivesNat
<1>3. (\A s \in D : H[s] \in Nat) /\ SumOf(H, D) \in Nat
  BY GivesNat
<1>4. \A s \in D \ {a} : H[s] = G[s]
  BY DEF Gives, Paired
<1>5. G[a] = 0 /\ H[a] = IF i = g THEN b - p[a] ELSE 0
  BY <1>1 DEF Gives, Paired
<1> HIDE DEF D, G, H
<1>6. SumOf(G, D) = G[a] + SumOf(G, D \ {a})
  BY <1>1, <1>2, SumRemove
<1>7. SumOf(H, D) = H[a] + SumOf(H, D \ {a})
  BY <1>1, <1>3, SumRemove
<1>8. SumOf(H, D \ {a}) = SumOf(G, D \ {a})
  BY <1>1, <1>3, <1>4, SumSame
<1>9. SumOf(G, D \ {a}) \in Nat
  BY <1>1, <1>2, SumNat
<1>10. Holds(T, p, ap, i) + SumOf(G, D) = n * w[i]
  BY DEF Fair, D, G
<1>11. Holds(T \ {a}, p2, ap2, i) = IF i = g THEN Holds(T, p, ap, i) - (b - p[a]) ELSE Holds(T, p, ap, i)
  BY <1>1 DEF Holds, Paired, Columns
<1>12. Holds(T, p, ap, i) \in Nat /\ p[a] \in Nat /\ b \in Nat
  BY <1>1 DEF Holds, Columns
<1>13. Holds(T \ {a}, p2, ap2, i) + SumOf(H, D) = n * w[i]
  BY <1>5, <1>6, <1>7, <1>8, <1>9, <1>10, <1>11, <1>12
<1> QED
  BY <1>13 DEF D, H

\* The rests on the stacks become less by exactly one column.
LEMMA PairBalance ==
  ASSUME NEW T, NEW n, NEW p, NEW ap, NEW at, NEW b, NEW w, Columns(T, n, p, ap, at, b, w),
         NEW a \in T, NEW g \in T, a # g, NEW p2 \in [Items(n) -> Nat], NEW ap2, NEW at2,
         Paired(a, g, p, ap, at, b, n, p2, ap2, at2)
  PROVE  SumOf(p2, T \ {a}) = SumOf(p, T) - b
<1> DEFINE R == (T \ {a}) \ {g}
<1>1. n \in Nat /\ T \subseteq Items(n)
  BY DEF Columns
<1>2. IsFiniteSet(T) /\ IsFiniteSet(T \ {a}) /\ IsFiniteSet(R)
  BY <1>1, ItemsFinite, FS_Subset
<1>3. \A x \in T : p[x] \in Nat /\ p2[x] \in Nat
  BY DEF Columns
<1>4. SumOf(p, T) = p[a] + SumOf(p, T \ {a})
  BY <1>2, <1>3, SumRemove
<1>5. SumOf(p, T \ {a}) = p[g] + SumOf(p, R)
  BY <1>2, <1>3, SumRemove
<1>6. SumOf(p2, T \ {a}) = p2[g] + SumOf(p2, R)
  BY <1>2, <1>3, SumRemove
<1>7. SumOf(p2, R) = SumOf(p, R)
  <2>1. \A x \in R : p2[x] \in Nat /\ p2[x] = p[x]
    BY <1>1, <1>3 DEF Paired
  <2> QED
    BY <1>2, <2>1, SumSame
<1>8. SumOf(p, R) \in Nat
  BY <1>2, <1>3, SumNat
<1>9. p2[g] = p[g] + p[a] - b /\ p[g] \in Nat /\ p[a] \in Nat /\ b \in Nat
  BY <1>3 DEF Paired, Columns
<1> HIDE DEF R
<1> QED
  BY <1>4, <1>5, <1>6, <1>7, <1>8, <1>9

\* While there is a whole column for each entry on the stacks, not all of them
\* can be small.
LEMMA NotAllSmall ==
  ASSUME NEW T, NEW n, NEW p, NEW ap, NEW at, NEW b, NEW w, Columns(T, n, p, ap, at, b, w),
         SumOf(p, T) >= b * Cardinality(T), \A i \in T : p[i] < b
  PROVE  T = {}
<1> SUFFICES ASSUME NEW x \in T PROVE FALSE
  OBVIOUS
<1> DEFINE c == [i \in T |-> b]
<1>1. IsFiniteSet(T) /\ b \in Nat /\ \A i \in T : p[i] \in Nat
  BY ItemsFinite DEF Columns
<1>2. \A i \in T : p[i] \in Nat /\ c[i] \in Nat /\ p[i] <= c[i]
  BY <1>1
<1>3. p[x] < c[x]
  OBVIOUS
<1>4. \A i \in T : c[i] = b
  OBVIOUS
<1> HIDE DEF c
<1>5. SumOf(p, T) < SumOf(c, T)
  BY <1>1, <1>2, <1>3, SumLess
<1>6. SumOf(c, T) = b * Cardinality(T)
  BY <1>1, <1>4, SumConst
<1>7. SumOf(p, T) \in Nat /\ SumOf(c, T) \in Nat
  BY <1>1, <1>2, SumNat
<1> QED
  BY <1>5, <1>6, <1>7

\* If all are large and there is no more than a column for each, each has one.
LEMMA AllWhole ==
  ASSUME NEW T, NEW n, NEW p, NEW ap, NEW at, NEW b, NEW w, Columns(T, n, p, ap, at, b, w),
         SumOf(p, T) = b * Cardinality(T), \A i \in T : p[i] >= b, NEW x \in T
  PROVE  p[x] = b
<1> SUFFICES ASSUME p[x] # b PROVE FALSE
  OBVIOUS
<1> DEFINE c == [i \in T |-> b]
<1>1. IsFiniteSet(T) /\ b \in Nat /\ \A i \in T : p[i] \in Nat
  BY ItemsFinite DEF Columns
<1>2. \A i \in T : c[i] \in Nat /\ p[i] \in Nat /\ c[i] <= p[i]
  BY <1>1
<1>3. c[x] < p[x]
  BY <1>1
<1>4. \A i \in T : c[i] = b
  OBVIOUS
<1> HIDE DEF c
<1>5. SumOf(c, T) < SumOf(p, T)
  BY <1>1, <1>2, <1>3, SumLess
<1>6. SumOf(c, T) = b * Cardinality(T)
  BY <1>1, <1>4, SumConst
<1>7. SumOf(p, T) \in Nat /\ SumOf(c, T) \in Nat
  BY <1>1, <1>2, SumNat
<1> QED
  BY <1>5, <1>6, <1>7

\* Positive products.
LEMMA Positive == \A n \in Nat \ {0}, m \in Nat : n * m > 0 <=> m > 0
<1> SUFFICES ASSUME NEW n \in Nat \ {0}, NEW m \in Nat PROVE n * m > 0 <=> m > 0
  OBVIOUS
<1>1. CASE m = 0
  BY <1>1
<1>2. CASE m > 0
  <2>1. n * m >= m
    <3>1. (n - 1) * m >= 0 /\ n * m = (n - 1) * m + m
      OBVIOUS
    <3> QED
      BY <3>1
  <2> QED
    BY <1>2, <2>1
<1> QED
  BY <1>1, <1>2

\* The chance of i in a finished table.
Draws(n, ap, at, b, i) ==
  ap[i] + SumOf([s \in Items(n) |-> IF at[s] = i THEN b - ap[s] ELSE 0], Items(n))

\* When the large entries that are left keep their columns for themselves, every
\* entry with a weight can be drawn and no other, and the chances are exact
\* if the rests were.
LEMMA Drained ==
  ASSUME NEW T, NEW n, NEW p, NEW ap, NEW at, NEW b, NEW w, Columns(T, n, p, ap, at, b, w),
         Fair(T, n, p, ap, at, b, w), \A i \in T : p[i] >= b,
         NEW ap2, \A i \in Items(n) : ap2[i] = IF i \in T THEN b ELSE ap[i],
         NEW i \in Items(n)
  PROVE  /\ Draws(n, ap2, at, b, i) > 0 <=> w[i] > 0
         /\ SumOf(p, T) = b * Cardinality(T) => Draws(n, ap2, at, b, i) = n * w[i]
<1> DEFINE G == Gives(T, n, ap, at, b, i)
           H == [s \in Items(n) |-> IF at[s] = i THEN b - ap2[s] ELSE 0]
<1>1. \A s \in Items(n) : G[s] = H[s] /\ G[s] \in Nat
  BY DEF Gives, Columns
<1>2. IsFiniteSet(Items(n)) /\ n \in Nat \ {0} /\ b \in Nat \ {0} /\ w[i] \in Nat
  <2>1. n \in Nat /\ b \in Nat \ {0} /\ w[i] \in Nat
    BY DEF Columns
  <2>2. n # 0
    BY DEF Items
  <2> QED
    BY <2>1, <2>2, ItemsFinite
<1>3. Draws(n, ap2, at, b, i) = ap2[i] + SumOf(H, Items(n))
  BY DEF Draws
<1>4. Holds(T, p, ap, i) + SumOf(G, Items(n)) = n * w[i]
  BY DEF Fair
<1> HIDE DEF G, H
<1>5. SumOf(G, Items(n)) = SumOf(H, Items(n)) /\ SumOf(G, Items(n)) \in Nat
  BY <1>1, <1>2, SumSame, SumNat
<1>6. n * w[i] > 0 <=> w[i] > 0
  BY <1>2, Positive
<1>7. CASE i \in T
  <2>1. Holds(T, p, ap, i) = p[i] /\ ap2[i] = b /\ p[i] >= b /\ p[i] \in Nat
    BY <1>7 DEF Holds, Columns
  <2>2. SumOf(p, T) = b * Cardinality(T) => p[i] = b
    BY <1>7, AllWhole
  <2>3. n * w[i] \in Nat
    BY <1>2
  <2> QED
    BY <1>2, <1>3, <1>4, <1>5, <1>6, <2>1, <2>2, <2>3
<1>8. CASE i \notin T
  <2>1. Holds(T, p, ap, i) = ap2[i]
    BY <1>8 DEF Holds
  <2> QED
    BY <1>3, <1>4, <1>5, <1>6, <2>1
<1> QED
  BY <1>7, <1>8

\* A column that is drawn from, or that leaves something to another entry, gives
\* that entry a chance.
LEMMA DrawnHasChance ==
  ASSUME NEW n \in Nat, NEW b \in Nat, NEW ap \in [Items(n) -> 0..b], NEW at \in [Items(n) -> Items(n)],
         NEW s \in Items(n)
  PROVE  /\ ap[s] > 0 => Draws(n, ap, at, b, s) > 0
         /\ ap[s] < b => Draws(n, ap, at, b, at[s]) > 0
<1> DEFINE D == Items(n)
           H(i) == [x \in Items(n) |-> IF at[x] = i THEN b - ap[x] ELSE 0]
<1>1. IsFiniteSet(D) /\ IsFiniteSet(D \ {s}) /\ s \in D
  BY ItemsFinite, FS_Subset
<1>2. ASSUME NEW i \in Items(n)
      PROVE  /\ \A x \in D : H(i)[x] \in Nat
             /\ H(i)[s] = IF at[s] = i THEN b - ap[s] ELSE 0
             /\ Draws(n, ap, at, b, i) = ap[i] + SumOf(H(i), D)
  BY DEF Draws
<1> HIDE DEF D, H
<1>3. ASSUME NEW i \in Items(n)
      PROVE  SumOf(H(i), D) \in Nat /\ SumOf(H(i), D) >= H(i)[s] /\ H(i)[s] \in Nat
  <2>1. SumOf(H(i), D) = H(i)[s] + SumOf(H(i), D \ {s})
    BY <1>1, <1>2, SumRemove
  <2>2. SumOf(H(i), D \ {s}) \in Nat
    BY <1>1, <1>2, SumNat
  <2> QED
    BY <1>1, <1>2, <2>1, <2>2
<1>4. ap[s] > 0 => Draws(n, ap, at, b, s) > 0
  BY <1>2, <1>3
<1>5. at[s] \in Items(n) /\ ap[s] \in Nat /\ ap[at[s]] \in Nat
  OBVIOUS
<1>6. ap[s] < b => Draws(n, ap, at, b, at[s]) > 0
  BY <1>2, <1>3, <1>5
<1> QED
  BY <1>4, <1>6

----------------------------------------------------------------------------
(* The alias table: the invariant                                          *)

\* The queue and the place in the loop: a table is used only if it was made for
\* all entries there are.
Loop ==
  /\ queued_items \in 1..MaxItems /\ prev_queued_items \in 0..queued_items
  /\ disabled \subseteq Items(queued_items) /\ \E i \in Items(queued_items) : i \notin disabled
  /\ reinit_table \in BOOLEAN /\ p_one \in BOOLEAN
  /\ apc \in {"loop", "pair", "select", "fuzz", "sync"}
  /\ apc \in {"pair", "select"} => prev_queued_items = queued_items
  /\ prev_queued_items = 0 => apc = "loop"
  /\ current_entry \in Items(queued_items)
  /\ apc = "fuzz" /\ ~p_one => current_entry \notin disabled

Stacked == Range(S) \cup Range(L)

\* A table in the making: small entries on one stack, large ones on the other,
\* each with its due so far, and at least a column left for each of them.
Making ==
  /\ IsStack(S, Range(S)) /\ IsStack(L, Range(L)) /\ Range(S) \cap Range(L) = {}
  /\ (\A i \in Range(S) : P[i] < sum) /\ (\A i \in Range(L) : P[i] >= sum)
  /\ Fair(Stacked, prev_queued_items, P, alias_probability, alias_table, sum, weight)
  /\ SumOf(P, Stacked) >= sum * Cardinality(Stacked)
  /\ Total(weight) = sum => SumOf(P, Stacked) = sum * Cardinality(Stacked)

\* A finished one draws each entry with the chance of its weight.
Made ==
  \A i \in Items(prev_queued_items) :
    LET draws == Draws(prev_queued_items, alias_probability, alias_table, sum, i)
    IN  /\ draws > 0 <=> weight[i] > 0
        /\ Total(weight) = sum => draws = prev_queued_items * weight[i]

\* The table, from the first one on; disabled entries have no weight in it.
Table ==
  /\ prev_queued_items = 0 => sum = 0 /\ DOMAIN P = {} /\ DOMAIN alias_table = {}
  /\ apc # "pair" => S = <<>> /\ L = <<>>
  /\ prev_queued_items # 0 =>
       /\ Columns(Stacked, prev_queued_items, P, alias_probability, alias_table, sum, weight)
       /\ \A i \in Items(prev_queued_items) : weight[i] > 0 => i \notin disabled
  /\ apc = "pair" => Making
  /\ apc # "pair" /\ prev_queued_items # 0 => Made

\* The inductive invariant.
AliasInv == Loop /\ Table

\* Total is the sum over all entries of a table.
LEMMA TotalIs == \A f : Total(f) = SumOf(f, DOMAIN f)
BY Zenon DEF Total, SumOf

\* Nothing is on an empty stack.
LEMMA NoneStacked == S = <<>> /\ L = <<>> => Stacked = {}
BY DEF Stacked, Range

\* Before the first table there is none.
LEMMA AliasInitInv == AliasInit => AliasInv
<1> SUFFICES ASSUME AliasInit PROVE AliasInv
  OBVIOUS
<1>1. Loop
  <2>1. queued_items \in 1..MaxItems /\ queued_items \in Nat /\ 0 \in Items(queued_items)
    BY AliasAssumption DEF AliasInit, Items
  <2>2. disabled \subseteq Items(queued_items) /\ \E i \in Items(queued_items) : i \notin disabled
    BY DEF AliasInit
  <2>3. prev_queued_items = 0 /\ reinit_table = FALSE /\ apc = "loop" /\ current_entry = 0 /\ p_one = FALSE
    BY DEF AliasInit
  <2>4. prev_queued_items \in 0..queued_items /\ apc \notin {"pair", "select", "fuzz"}
    BY <2>1, <2>3
  <2> QED
    BY <2>1, <2>2, <2>3, <2>4 DEF Loop
<1>2. DOMAIN P = {} /\ DOMAIN alias_table = {}
  BY DEF AliasInit
<1>3. Table
  BY <1>2 DEF AliasInit, Table
<1> QED
  BY <1>1, <1>3 DEF AliasInv

\* Steps that leave the table alone keep what is known of it.
LEMMA TableKept ==
  ASSUME AliasInv, UNCHANGED <<tableVars, prev_queued_items, disabled>>,
         apc # "pair", apc' # "pair"
  PROVE  Table'
<1>1. /\ weight' = weight /\ sum' = sum /\ P' = P /\ S' = S /\ L' = L
      /\ alias_table' = alias_table /\ alias_probability' = alias_probability
      /\ prev_queued_items' = prev_queued_items /\ disabled' = disabled
  BY DEF tableVars
<1>2. Stacked' = Stacked
  BY <1>1 DEF Stacked
<1>3. Made => Made'
  BY <1>1 DEF Made
<1> QED
  BY <1>1, <1>2, <1>3 DEF AliasInv, Table

\* A longer queue keeps its entries, and one of them enabled.
LEMMA LongerQueue ==
  ASSUME Loop, queued_items' \in queued_items..MaxItems, disabled' = disabled
  PROVE  /\ queued_items' \in 1..MaxItems /\ Items(queued_items) \subseteq Items(queued_items')
         /\ disabled' \subseteq Items(queued_items')
         /\ \E i \in Items(queued_items') : i \notin disabled'
         /\ 0..queued_items \subseteq 0..queued_items'
<1>1. /\ queued_items \in 1..MaxItems /\ MaxItems \in Nat
      /\ disabled \subseteq Items(queued_items) /\ \E i \in Items(queued_items) : i \notin disabled
  BY AliasAssumption DEF Loop
<1>2. queued_items' \in 1..MaxItems /\ queued_items <= queued_items'
  BY <1>1
<1>3. Items(queued_items) \subseteq Items(queued_items')
  <2>1. queued_items \in Nat /\ queued_items' \in Nat
    BY <1>1, <1>2
  <2>2. \A n, m \in Nat : n <= m => Items(n) \subseteq Items(m)
    BY DEF Items
  <2> QED
    BY <1>2, <2>1, <2>2
<1> QED
  BY <1>1, <1>2, <1>3

\* The loop decides, draws, fuzzes and syncs without touching the table.
LEMMA OtherSteps ==
  ASSUME AliasInv, ~INTROSPECTION,
         KeepTable \/ SelectEntry \/ FuzzOneAdds \/ SkipEntry \/ SyncFuzzers
  PROVE  AliasInv'
<1> USE DEF AliasInv
<1>1. CASE KeepTable
  <2>1. prev_queued_items = queued_items
    BY <1>1 DEF KeepTable, TableStale, Loop
  <2>2. Loop'
    BY <1>1, <2>1 DEF KeepTable, Loop
  <2>3. Table'
    BY <1>1, TableKept DEF KeepTable
  <2> QED
    BY <2>2, <2>3
<1>2. CASE SelectEntry
  <2> DEFINE n == prev_queued_items
  <2>1. n = queued_items /\ n # 0 /\ Made /\ apc = "select"
    BY <1>2 DEF SelectEntry, Loop, Table
  <2>2. /\ n \in Nat /\ sum \in Nat
        /\ alias_probability \in [Items(n) -> 0..sum] /\ alias_table \in [Items(n) -> Items(n)]
        /\ \A i \in Items(n) : weight[i] > 0 => i \notin disabled
    BY <2>1 DEF Table, Columns
  <2>3. PICK s \in Items(n) :
          \/ alias_probability[s] > 0 /\ current_entry' = s /\ p_one' = FALSE
          \/ /\ alias_probability[s] < sum
             /\ current_entry' = alias_table[s] /\ p_one' = FALSE
          \/ current_entry' = alias_table[s] /\ p_one' = TRUE
    BY <1>2, <2>1 DEF SelectEntry
  <2>4. current_entry' \in Items(n) /\ p_one' \in BOOLEAN
    BY <2>2, <2>3
  <2>5. ~p_one' => Draws(n, alias_probability, alias_table, sum, current_entry') > 0
    <3>1. /\ alias_probability[s] > 0 => Draws(n, alias_probability, alias_table, sum, s) > 0
          /\ alias_probability[s] < sum => Draws(n, alias_probability, alias_table, sum, alias_table[s]) > 0
      BY <2>2, DrawnHasChance
    <3> QED
      BY <2>3, <3>1
  <2>6. ~p_one' => current_entry' \notin disabled
    BY <2>1, <2>2, <2>4, <2>5 DEF Made
  <2>7. /\ apc' = "fuzz" /\ UNCHANGED <<queued_items, disabled, prev_queued_items, reinit_table, tableVars>>
    BY <1>2 DEF SelectEntry
  <2>8. Loop'
    BY <2>1, <2>4, <2>6, <2>7 DEF Loop
  <2>9. Table'
    BY <2>1, <2>7, TableKept
  <2> QED
    BY <2>8, <2>9
<1>3. CASE FuzzOneAdds
  <2>1. prev_queued_items' = prev_queued_items
    BY <1>3 DEF FuzzOneAdds, Counted
  <2>2. Loop'
    <3>1. queued_items' \in queued_items..MaxItems /\ disabled' = disabled
      BY <1>3 DEF FuzzOneAdds
    <3> QED
      BY <1>3, <2>1, <3>1, LongerQueue DEF FuzzOneAdds, Loop
  <2>3. Table'
    BY <1>3, <2>1, TableKept DEF FuzzOneAdds
  <2> QED
    BY <2>2, <2>3
<1>4. CASE SkipEntry
  <2>1. Loop'
    BY <1>4 DEF SkipEntry, Loop
  <2>2. Table'
    BY <1>4, TableKept DEF SkipEntry
  <2> QED
    BY <2>1, <2>2
<1>5. CASE SyncFuzzers
  <2>1. Loop'
    <3>1. queued_items' \in queued_items..MaxItems /\ disabled' = disabled
      BY <1>5 DEF SyncFuzzers
    <3> QED
      BY <1>5, <3>1, LongerQueue DEF SyncFuzzers, Loop
  <2>2. Table'
    BY <1>5, TableKept DEF SyncFuzzers
  <2> QED
    BY <2>1, <2>2
<1> QED
  BY <1>1, <1>2, <1>3, <1>4, <1>5

\* A new table: all entries are on a stack, and none has got anything yet.
LEMMA CreateStep ==
  ASSUME AliasInv, CreateTable
  PROVE  AliasInv'
<1> DEFINE n == queued_items
           D == Items(n)
<1>1. /\ n \in Nat \ {0} /\ n \in 1..MaxItems /\ disabled \subseteq D
      /\ IsFiniteSet(D) /\ Cardinality(D) = n
  BY ItemsFinite, AliasAssumption DEF AliasInv, Loop
<1>2. PICK w \in [Enabled -> Weights], cnt \in 0..5 :
        /\ sum' = Total(Weighted(w))
        /\ weight' = [i \in D |-> (IF i \in Newest(n, cnt) THEN 2 ELSE 1) * Weighted(w)[i]]
  BY DEF CreateTable
<1> DEFINE base == Weighted(w)
<1>3. /\ base \in [D -> Nat] /\ DOMAIN base = D
      /\ \A i \in D : (i \in disabled => base[i] = 0) /\ (i \notin disabled => base[i] > 0)
  <2>1. base = [i \in D |-> IF i \in Enabled THEN w[i] ELSE 0]
    BY DEF Weighted
  <2>2. \A i \in Enabled : w[i] \in Nat /\ w[i] > 0
    <3>1. \A i \in Enabled : w[i] \in Weights
      BY <1>2
    <3>2. \A x \in Weights : x \in Nat /\ x > 0
      BY AliasAssumption
    <3> QED
      BY <3>1, <3>2
  <2>3. \A i \in D : i \in Enabled <=> i \notin disabled
    BY DEF Enabled
  <2> HIDE DEF base, D
  <2> QED
    BY <2>1, <2>2, <2>3
<1> HIDE DEF base
<1>4. PICK wt \in [D -> Nat] :
        /\ weight' = wt
        /\ \A i \in D : base[i] <= wt[i] /\ (wt[i] > 0 => base[i] > 0)
  <2>1. \A i \in D : (IF i \in Newest(n, cnt) THEN 2 ELSE 1) * base[i] \in {base[i], 2 * base[i]}
    BY <1>3
  <2>2. weight' = [i \in D |-> (IF i \in Newest(n, cnt) THEN 2 ELSE 1) * base[i]]
    BY <1>2 DEF base
  <2>3. weight' \in [D -> Nat]
    BY <1>3, <2>1, <2>2
  <2>4. \A i \in D : weight'[i] \in {base[i], 2 * base[i]}
    BY <2>1, <2>2
  <2> QED
    BY <1>3, <2>3, <2>4
<1>5. PICK b \in Nat \ {0} : sum' = b /\ b = SumOf(base, D)
  <2>1. sum' = SumOf(base, D)
    BY <1>2, <1>3, TotalIs DEF base
  <2>2. PICK e \in D : e \notin disabled
    BY DEF AliasInv, Loop
  <2>3. SumOf(base, D) = base[e] + SumOf(base, D \ {e})
    BY <1>1, <1>3, <2>2, SumRemove
  <2>4. SumOf(base, D \ {e}) \in Nat
    BY <1>1, <1>3, FS_Subset, SumNat
  <2>5. base[e] \in Nat /\ base[e] > 0
    BY <1>3, <2>2
  <2> QED
    BY <2>1, <2>3, <2>4, <2>5
<1>6. PICK p \in [D -> Nat] : P' = p /\ \A i \in D : p[i] = n * wt[i]
  <2>1. P' = [i \in D |-> wt[i] * n]
    BY <1>4 DEF CreateTable
  <2>2. \A i \in D : wt[i] * n \in Nat /\ wt[i] * n = n * wt[i]
    BY <1>1, <1>4
  <2> QED
    BY <2>1, <2>2
<1> DEFINE small == {i \in D : p[i] < b}
           large == {i \in D : p[i] >= b}
<1>7. S' = Stack(n, small) /\ L' = Stack(n, large)
  BY <1>5, <1>6 DEF CreateTable
<1>8. small \in SUBSET D /\ large \in SUBSET D /\ small \cap large = {} /\ small \cup large = D
  BY <1>5, <1>6
<1>9. IsStack(S', small) /\ IsStack(L', large)
  <2> HIDE DEF small, large
  <2> QED
    BY <1>1, <1>7, <1>8, StackIs
<1>10. Range(S') = small /\ Range(L') = large
  BY <1>9 DEF IsStack
<1>11. Stacked' = D
  BY <1>8, <1>10 DEF Stacked
<1>12. PICK at : alias_table' = at /\ at = [i \in D |-> 0]
  BY DEF CreateTable
<1>13. PICK ap : alias_probability' = ap /\ ap = [i \in D |-> 0]
  BY DEF CreateTable
<1>14. Columns(D, n, p, ap, at, b, wt)
  <2>1. 0 \in D /\ 0 \in 0..b
    BY <1>1, <1>5 DEF Items
  <2> QED
    BY <1>1, <1>4, <1>5, <1>6, <1>12, <1>13, <2>1 DEF Columns
<1>15. Fair(D, n, p, ap, at, b, wt)
  <2> SUFFICES ASSUME NEW i \in D
               PROVE  Holds(D, p, ap, i) + SumOf(Gives(D, n, ap, at, b, i), D) = n * wt[i]
    BY DEF Fair
  <2> DEFINE G == Gives(D, n, ap, at, b, i)
  <2>1. \A s \in D : G[s] = 0
    BY DEF Gives
  <2> HIDE DEF G
  <2>2. SumOf(G, D) = 0 * Cardinality(D)
    BY <1>1, <2>1, SumConst
  <2>3. Holds(D, p, ap, i) = n * wt[i] /\ n * wt[i] \in Nat
    BY <1>1, <1>4, <1>6 DEF Holds
  <2> QED
    BY <1>1, <2>2, <2>3 DEF G
<1>16. /\ SumOf(p, D) >= b * Cardinality(D)
       /\ SumOf(wt, D) = b => SumOf(p, D) = b * Cardinality(D)
  <2>1. SumOf(p, D) = n * SumOf(wt, D)
    <3>1. \A i \in D : wt[i] \in Nat /\ p[i] = n * wt[i]
      BY <1>4, <1>6
    <3> QED
      BY <1>1, <3>1, SumScaled
  <2>2. b <= SumOf(wt, D) /\ SumOf(wt, D) \in Nat
    <3>1. \A i \in D : base[i] \in Nat /\ wt[i] \in Nat /\ base[i] <= wt[i]
      BY <1>3, <1>4
    <3> QED
      BY <1>1, <1>5, <3>1, SumLeq, SumNat
  <2>3. \A c \in Nat : b <= c => n * c >= b * n
    <3> SUFFICES ASSUME NEW c \in Nat, b <= c PROVE n * c >= b * n
      OBVIOUS
    <3>1. n * (c - b) >= 0 /\ n * c = n * (c - b) + b * n
      BY <1>1, <1>5
    <3>2. n * c \in Nat /\ b * n \in Nat /\ n * (c - b) \in Int
      BY <1>1, <1>5
    <3> QED
      BY <3>1, <3>2
  <2>4. n * b = b * n
    BY <1>1, <1>5
  <2> QED
    BY <1>1, <2>1, <2>2, <2>3, <2>4
<1>17. Total(wt) = SumOf(wt, D)
  BY <1>4, TotalIs
<1>18. /\ prev_queued_items' = n /\ apc' = "pair"
       /\ UNCHANGED <<queued_items, disabled, reinit_table, current_entry, p_one>>
  BY DEF CreateTable
<1>19. Loop'
  BY <1>1, <1>18 DEF AliasInv, Loop
<1>20. Making'
  <2>1. /\ \A i \in small : p[i] < b
        /\ \A i \in large : p[i] >= b
    OBVIOUS
  <2> HIDE DEF small, large
  <2> QED
    BY <1>4, <1>5, <1>6, <1>8, <1>9, <1>10, <1>11, <1>12, <1>13, <1>15, <1>16, <1>17, <1>18, <2>1
       DEF Making
<1>21. Table'
  <2>1. \A i \in D : wt[i] > 0 => i \notin disabled
    BY <1>3, <1>4
  <2> QED
    BY <1>1, <1>4, <1>5, <1>6, <1>11, <1>12, <1>13, <1>14, <1>18, <1>20, <2>1 DEF Table
<1> QED
  BY <1>19, <1>21 DEF AliasInv

\* A turn of the loop takes one entry off the stacks, with its column finished.
LEMMA PairStep ==
  ASSUME AliasInv, Pair
  PROVE  AliasInv'
<1> DEFINE n == prev_queued_items
           D == Items(n)
           T == Stacked
           a == S[Len(S)]
           g == L[Len(L)]
<1>1. apc = "pair" /\ n = queued_items /\ n # 0 /\ Making
  BY DEF Pair, AliasInv, Loop, Table
<1>2. Columns(T, n, P, alias_probability, alias_table, sum, weight)
  BY <1>1 DEF AliasInv, Table
<1>3. /\ IsStack(S, Range(S)) /\ IsStack(L, Range(L)) /\ Range(S) \cap Range(L) = {}
      /\ S # <<>> /\ L # <<>>
  BY <1>1 DEF Making, Pair
<1>4. a \in Range(S) /\ IsStack(Front(S), Range(S) \ {a})
  BY <1>3, Popped
<1>5. g \in Range(L) /\ IsStack(Front(L), Range(L) \ {g})
  BY <1>3, Popped
<1> HIDE DEF a, g
<1>6. a \in T /\ g \in T /\ a # g /\ T \subseteq D /\ a \in D /\ g \in D
  BY <1>2, <1>3, <1>4, <1>5 DEF Stacked, Columns
<1>7. /\ n \in Nat /\ sum \in Nat \ {0} /\ P \in [D -> Nat] /\ weight \in [D -> Nat]
      /\ alias_probability \in [D -> 0..sum] /\ alias_table \in [D -> D]
  BY <1>2 DEF Columns
<1>8. P[a] < sum /\ P[g] >= sum /\ P[a] \in Nat /\ P[g] \in Nat
  BY <1>1, <1>4, <1>5, <1>6, <1>7 DEF Making
<1>9. PICK p2 : P' = p2 /\ p2 = [P EXCEPT ![g] = P[g] + P[a] - sum]
  BY DEF Pair, Given, a, g
<1>10. PICK ap2 : alias_probability' = ap2 /\ ap2 = [alias_probability EXCEPT ![a] = P[a]]
  BY DEF Pair, a
<1>11. PICK at2 : alias_table' = at2 /\ at2 = [alias_table EXCEPT ![a] = g]
  BY DEF Pair, a, g
<1>12. /\ p2 \in [D -> Nat] /\ ap2 \in [D -> 0..sum] /\ at2 \in [D -> D]
       /\ Paired(a, g, P, alias_probability, alias_table, sum, n, p2, ap2, at2)
  <2>1. P[g] + P[a] - sum \in Nat /\ P[a] \in 0..sum
    BY <1>7, <1>8
  <2>2. p2 \in [D -> Nat] /\ p2[g] = P[g] + P[a] - sum /\ \A i \in D \ {g} : p2[i] = P[i]
    BY <1>6, <1>7, <1>9, <2>1
  <2>3. ap2 \in [D -> 0..sum] /\ ap2[a] = P[a] /\ \A i \in D \ {a} : ap2[i] = alias_probability[i]
    BY <1>6, <1>7, <1>10, <2>1
  <2>4. at2 \in [D -> D] /\ at2[a] = g /\ \A i \in D \ {a} : at2[i] = alias_table[i]
    BY <1>6, <1>7, <1>11
  <2> QED
    BY <2>2, <2>3, <2>4 DEF Paired
<1>13. Columns(T \ {a}, n, p2, ap2, at2, sum, weight)
  BY <1>6, <1>7, <1>12 DEF Columns
<1>14. Fair(T \ {a}, n, p2, ap2, at2, sum, weight)
  <2>1. Fair(T, n, P, alias_probability, alias_table, sum, weight)
    BY <1>1 DEF Making
  <2>2. P[a] <= sum
    BY <1>7, <1>8
  <2> HIDE DEF T, n
  <2> QED
    BY <1>2, <1>6, <1>12, <1>13, <2>1, <2>2, PairFair
<1>15. /\ SumOf(p2, T \ {a}) >= sum * Cardinality(T \ {a})
       /\ Total(weight) = sum => SumOf(p2, T \ {a}) = sum * Cardinality(T \ {a})
  <2>1. SumOf(p2, T \ {a}) = SumOf(P, T) - sum
    BY <1>2, <1>6, <1>12, PairBalance
  <2>2. IsFiniteSet(T) /\ Cardinality(T) \in Nat
    BY <1>6, <1>7, ItemsFinite, FS_CardinalityType
  <2>3. Cardinality(T \ {a}) = Cardinality(T) - 1
    BY <1>6, <2>2, FS_RemoveElement
  <2>4. \A k \in Nat : sum * (k - 1) = sum * k - sum
    BY <1>7
  <2>5. SumOf(P, T) \in Nat
    BY <1>6, <1>7, <2>2, SumNat
  <2>6. /\ SumOf(P, T) >= sum * Cardinality(T)
        /\ Total(weight) = sum => SumOf(P, T) = sum * Cardinality(T)
    BY <1>1 DEF Making
  <2>7. sum * Cardinality(T \ {a}) = sum * Cardinality(T) - sum /\ sum * Cardinality(T) \in Nat
    BY <1>7, <2>2, <2>3, <2>4
  <2> HIDE DEF T
  <2> QED
    BY <1>7, <2>1, <2>5, <2>6, <2>7
<1>16. /\ IsStack(S', Range(S')) /\ IsStack(L', Range(L')) /\ Range(S') \cap Range(L') = {}
       /\ (\A i \in Range(S') : p2[i] < sum) /\ (\A i \in Range(L') : p2[i] >= sum)
       /\ Range(S') \cup Range(L') = T \ {a}
  <2>1. /\ \A i \in Range(S) \ {a} : p2[i] < sum
        /\ \A i \in Range(L) \ {g} : p2[i] >= sum
    <3>1. /\ \A i \in Range(S) \ {a} : i \in D \ {g} /\ P[i] < sum
          /\ \A i \in Range(L) \ {g} : i \in D \ {g} /\ P[i] >= sum
      BY <1>1, <1>3, <1>5, <1>6 DEF Making, Stacked
    <3> QED
      BY <1>12, <3>1 DEF Paired
  <2>2. /\ Range(S) \ {a} = (Range(S) \ {a}) \ {g}
        /\ g \notin Range(S) /\ a \notin Range(L) /\ g \in Nat
    <3>1. g \in Nat
      BY <1>6, <1>7 DEF Items
    <3> QED
      BY <1>3, <1>4, <1>5, <3>1
  <2>3. CASE p2[g] < sum
    <3>1. S' = Append(Front(S), g) /\ L' = Front(L)
      BY <1>9, <2>3 DEF Pair, g
    <3>2. IsStack(S', (Range(S) \ {a}) \cup {g}) /\ IsStack(L', Range(L) \ {g})
      BY <1>4, <1>5, <2>2, <3>1, Pushed
    <3>3. Range(S') = (Range(S) \ {a}) \cup {g} /\ Range(L') = Range(L) \ {g}
      BY <3>2 DEF IsStack
    <3> QED
      BY <1>3, <1>5, <2>1, <2>2, <2>3, <3>2, <3>3 DEF Stacked
  <2>4. CASE ~(p2[g] < sum)
    <3>1. S' = Front(S) /\ L' = L
      BY <1>9, <2>4 DEF Pair, g
    <3>2. IsStack(S', Range(S) \ {a}) /\ IsStack(L', Range(L))
      BY <1>3, <1>4, <3>1
    <3>3. Range(S') = Range(S) \ {a} /\ Range(L') = Range(L)
      BY <3>2 DEF IsStack
    <3>4. p2[g] >= sum
      BY <1>6, <1>7, <1>12, <2>4
    <3> QED
      BY <1>3, <1>5, <2>1, <2>2, <3>2, <3>3, <3>4 DEF Stacked
  <2> QED
    BY <2>3, <2>4
<1>17. /\ UNCHANGED <<queued_items, disabled, prev_queued_items, reinit_table, apc, weight, sum,
                      current_entry, p_one>>
  BY DEF Pair
<1>18. Loop'
  BY <1>17 DEF AliasInv, Loop
<1>19. Stacked' = T \ {a}
  BY <1>16 DEF Stacked
<1> HIDE DEF T, n, D
<1>20. Making'
  BY <1>9, <1>10, <1>11, <1>14, <1>15, <1>16, <1>17, <1>19 DEF Making, n
<1>21. Table'
  BY <1>1, <1>9, <1>10, <1>11, <1>13, <1>17, <1>19, <1>20 DEF AliasInv, Table, n
<1> QED
  BY <1>18, <1>21 DEF AliasInv

\* The end of the loop: no small entry is left, and the large ones that are keep
\* their columns.
LEMMA DrainStep ==
  ASSUME AliasInv, Drain
  PROVE  AliasInv'
<1> DEFINE n == prev_queued_items
           D == Items(n)
           T == Stacked
<1>1. apc = "pair" /\ n = queued_items /\ n # 0 /\ Making
  BY DEF Drain, AliasInv, Loop, Table
<1>2. Columns(T, n, P, alias_probability, alias_table, sum, weight)
  BY <1>1 DEF AliasInv, Table
<1>3. /\ n \in Nat /\ sum \in Nat \ {0} /\ P \in [D -> Nat] /\ weight \in [D -> Nat] /\ T \subseteq D
      /\ alias_probability \in [D -> 0..sum] /\ alias_table \in [D -> D]
  BY <1>2 DEF Columns
<1>4. \A i \in T : P[i] >= sum
  <2>1. CASE L = <<>>
    <3>1. Range(L) = {}
      BY <2>1 DEF Range
    <3>2. \A i \in T : P[i] < sum
      BY <1>1, <3>1 DEF Making, Stacked
    <3>3. SumOf(P, T) >= sum * Cardinality(T)
      BY <1>1 DEF Making
    <3>4. T = {}
      BY <1>2, <3>2, <3>3, NotAllSmall
    <3> QED
      BY <3>4
  <2>2. CASE S = <<>>
    <3>1. Range(S) = {}
      BY <2>2 DEF Range
    <3> QED
      BY <1>1, <3>1 DEF Making, Stacked
  <2> QED
    BY <2>1, <2>2 DEF Drain
<1>5. PICK ap2 : /\ alias_probability' = ap2
                 /\ ap2 = [i \in D |-> IF i \in T THEN sum ELSE alias_probability[i]]
  BY <1>3 DEF Drain, Stacked
<1>6. ap2 \in [D -> 0..sum] /\ \A i \in D : ap2[i] = IF i \in T THEN sum ELSE alias_probability[i]
  BY <1>3, <1>5
<1>7. ASSUME NEW i \in D
      PROVE  /\ Draws(n, ap2, alias_table, sum, i) > 0 <=> weight[i] > 0
             /\ Total(weight) = sum => Draws(n, ap2, alias_table, sum, i) = n * weight[i]
  <2>1. /\ Fair(T, n, P, alias_probability, alias_table, sum, weight)
        /\ Total(weight) = sum => SumOf(P, T) = sum * Cardinality(T)
    BY <1>1 DEF Making
  <2> HIDE DEF T, n
  <2> QED
    BY <1>2, <1>4, <1>6, <1>7, <2>1, Drained
<1>8. /\ S' = <<>> /\ L' = <<>> /\ reinit_table' = FALSE /\ apc' = "select"
      /\ UNCHANGED <<queued_items, disabled, prev_queued_items, weight, sum, P, alias_table,
                     current_entry, p_one>>
  BY DEF Drain
<1>9. Loop'
  BY <1>1, <1>8 DEF AliasInv, Loop
<1>10. Stacked' = {}
  BY <1>8 DEF Stacked, Range
<1>11. Columns({}, n, P, ap2, alias_table, sum, weight)
  BY <1>3, <1>6 DEF Columns
<1>12. Made'
  BY <1>5, <1>7, <1>8 DEF Made
<1>13. Table'
  BY <1>1, <1>5, <1>8, <1>10, <1>11, <1>12 DEF AliasInv, Table
<1> QED
  BY <1>9, <1>13 DEF AliasInv

\* The invariant is inductive in a build without INTROSPECTION.
LEMMA AliasNextInv == ~INTROSPECTION /\ AliasInv /\ [AliasNext]_aliasVars => AliasInv'
<1> SUFFICES ASSUME ~INTROSPECTION, AliasInv, [AliasNext]_aliasVars PROVE AliasInv'
  OBVIOUS
<1>1. CASE AliasNext
  BY <1>1, CreateStep, PairStep, DrainStep, OtherSteps DEF AliasNext
<1>2. CASE UNCHANGED aliasVars
  <2>1. /\ UNCHANGED <<queued_items, disabled, prev_queued_items, reinit_table, apc, current_entry, p_one>>
        /\ UNCHANGED <<weight, sum, P, S, L, alias_table, alias_probability>>
    BY <1>2 DEF aliasVars, tableVars
  <2> QED
    BY <2>1 DEF AliasInv, Loop, Table, Stacked, Making, Made
<1> QED
  BY <1>1, <1>2

\* The invariant holds in every reachable state.
LEMMA AliasInvariance ==
  ASSUME ~INTROSPECTION PROVE AliasSpec => []AliasInv
<1>1. AliasInv /\ [AliasNext]_aliasVars => AliasInv'
  BY AliasNextInv
<1> QED
  BY <1>1, AliasInitInv, PTL DEF AliasSpec

\* Without INTROSPECTION, whoever adds entries and whenever, an entry is only
\* drawn from a table that has a column for each entry of the queue.
THEOREM TableCoversQueue ==
  ASSUME ~INTROSPECTION PROVE AliasSpec => []TableCovers
<1>1. AliasInv => TableCovers
  <2> SUFFICES ASSUME AliasInv PROVE TableCovers
    OBVIOUS
  <2> DEFINE n == prev_queued_items
  <2>1. /\ n \in 0..queued_items /\ queued_items \in 1..MaxItems /\ MaxItems \in Nat
        /\ Items(n) \subseteq Items(queued_items)
    <3>1. n \in 0..queued_items /\ queued_items \in 1..MaxItems /\ MaxItems \in Nat
      BY AliasAssumption DEF AliasInv, Loop
    <3> QED
      BY <3>1 DEF Items
  <2>2. CASE n = 0
    <3>1. /\ S = <<>> /\ L = <<>> /\ sum = 0 /\ DOMAIN P = {} /\ DOMAIN alias_table = {}
          /\ apc = "loop"
      BY <2>2 DEF AliasInv, Loop, Table
    <3>2. Range(S) \cup Range(L) = {}
      BY <3>1 DEF Range
    <3> QED
      BY <2>1, <3>1, <3>2 DEF TableCovers, AliasTypeOK, AliasInv, Loop
  <2>3. CASE n # 0
    <3>1. Columns(Stacked, n, P, alias_probability, alias_table, sum, weight)
      BY <2>3 DEF AliasInv, Table
    <3>2. /\ sum \in Nat /\ Range(S) \cup Range(L) \subseteq Items(queued_items)
          /\ \A i \in DOMAIN P : P[i] \in Nat /\ weight[i] \in Nat
          /\ DOMAIN alias_table = Items(n) /\ DOMAIN alias_probability = Items(n)
          /\ \A i \in Items(n) : alias_table[i] \in Items(queued_items) /\ alias_probability[i] \in 0..sum
      BY <2>1, <3>1 DEF Columns, Stacked
    <3> QED
      BY <2>1, <3>2 DEF TableCovers, AliasTypeOK, AliasInv, Loop
  <2> QED
    BY <2>2, <2>3
<1> QED
  BY <1>1, AliasInvariance, PTL

\* The chances are those of the weights, for any number of entries and any
\* weights: the pairing neither loses nor invents any.
THEOREM ChancesAreRight ==
  ASSUME ~INTROSPECTION PROVE AliasSpec => []ChancesRight
<1>1. AliasInv => ChancesRight
  <2> SUFFICES ASSUME AliasInv, apc = "select" PROVE ChancesRight
    BY DEF ChancesRight
  <2> DEFINE n == prev_queued_items
  <2>1. n = queued_items /\ n # 0 /\ Made
    BY DEF AliasInv, Loop, Table
  <2>2. DOMAIN alias_table = Items(n)
    BY <2>1 DEF AliasInv, Table, Columns
  <2>3. \A i \in Items(n) : Chance(i) = Draws(n, alias_probability, alias_table, sum, i)
    <3> TAKE i \in Items(n)
    <3> DEFINE H == [s \in Items(n) |-> IF alias_table[s] = i THEN sum - alias_probability[s] ELSE 0]
    <3>1. Total(H) = SumOf(H, Items(n))
      BY TotalIs
    <3>2. Chance(i) = alias_probability[i] + Total(H)
      BY <2>2 DEF Chance
    <3> QED
      BY <3>1, <3>2 DEF Draws
  <2> QED
    BY <2>1, <2>2, <2>3 DEF ChancesRight, Made
<1> QED
  BY <1>1, AliasInvariance, PTL

\* No draw below 1.0 ends at a disabled entry, for any queue.
THEOREM DisabledNeverChosen ==
  ASSUME ~INTROSPECTION PROVE AliasSpec => []ChosenEnabled
<1>1. AliasInv => ChosenEnabled
  BY DEF AliasInv, Loop, ChosenEnabled
<1> QED
  BY <1>1, AliasInvariance, PTL
=============================================================================
