--------------------------- MODULE TestcaseCache ---------------------------
(***************************************************************************)
(* The test case cache of the queue: queue_testcase_get, _store_mem and    *)
(* _retake(_mem), as fuzz_one, trim_case and save_if_interesting call      *)
(* them.  Slots of q_testcase_cache are numbered from 0; NONE is a null    *)
(* pointer, in a slot or for testcase_buf.                                 *)
(***************************************************************************)
EXTENDS Integers, FiniteSets, FiniteSetsExt

CONSTANTS
  Ids,               \* queue entries, numbers from 1
  Lens,              \* lengths of inputs
  MAX_FILE,
  max_cache_size,    \* q_testcase_max_cache_size, checked by main
  max_entries_init,  \* q_testcase_max_cache_entries before it is learnt, any number
  Seeds              \* entries 1..Seeds are there from the start

NONE == 0
Slots == 0..(max_entries_init - 1)

ASSUME CacheAssumption ==
  /\ IsFiniteSet(Ids) /\ Ids = 1..Cardinality(Ids) /\ Seeds \in 1..Cardinality(Ids)
  /\ MAX_FILE \in Nat /\ Lens \subseteq 1..MAX_FILE /\ Lens # {}
  /\ max_cache_size \in Nat /\ 2 * MAX_FILE <= max_cache_size
  /\ max_entries_init \in Nat

VARIABLES
  len,            \* q->len, NONE before the entry exists
  cached,         \* entries whose testcase_buf is set
  cache,          \* q_testcase_cache
  alloc,          \* initialised slots of q_testcase_cache
  cache_size, cache_count, max_cache_count, max_entries, smallest_free,
  do_once,        \* the maximum number of entries has been learnt
  queue_cur,
  get,            \* the entry queue_testcase_get is loading, or NONE
  tid,            \* its slot so far
  trimmed,        \* trim_done of queue_cur
  pc

cacheVars == <<cache, alloc, cache_size, cache_count, max_cache_count, max_entries,
               smallest_free, do_once>>
vars == <<len, cached, cacheVars, queue_cur, get, tid, trimmed, pc>>

Queued == {q \in Ids : len[q] # NONE}

Init ==
  /\ len \in [Ids -> Lens \cup {NONE}]
  /\ \A q \in Ids : len[q] # NONE <=> q <= Seeds
  /\ cached = {}
  /\ cache = [i \in Slots |-> NONE] /\ alloc = max_entries_init
  /\ cache_size = 0 /\ cache_count = 0 /\ max_cache_count = 0 /\ smallest_free = 0
  /\ max_entries = max_entries_init /\ do_once = FALSE
  /\ queue_cur = NONE /\ get = NONE /\ tid = 0 /\ trimmed = FALSE /\ pc = "idle"

----------------------------------------------------------------------------
(* Loading and registering                                                 *)

\* No room for another n bytes.  With no entries at all, the unsigned
\* max_entries - 1 is above every count.
Full(n) ==
  \/ cache_size + n >= max_cache_size
  \/ max_entries # 0 /\ cache_count >= max_entries - 1

\* MUTANT of SearchFrom: the search does not wrap around.
SearchFrom_Top(i) == i

\* Where the search for a free slot starts when i is tried first.
SearchFrom(i) == IF i >= max_entries THEN smallest_free ELSE i

\* while (q_testcase_cache[tid] != NULL) ++tid; alloc if it runs off the end.
FirstFree(from) == Min({alloc} \cup {i \in from..(alloc - 1) : cache[i] = NONE})

\* MUTANT of NextFree: a hole below it is forgotten.
NextFree_Lost(i) == IF i < max_cache_count THEN i + 1 ELSE smallest_free

\* smallest_free once slot i is taken.
NextFree(i) == IF i < max_cache_count /\ i = smallest_free THEN i + 1 ELSE smallest_free

\* Register q with n bytes in slot i, or read a slot there is none of.  The
\* caller goes on at next.
Register(q, n, i, next) ==
  \/ /\ i < alloc
     /\ cache' = [cache EXCEPT ![i] = q]
     /\ cached' = cached \cup {q}
     /\ cache_size' = cache_size + n
     /\ cache_count' = cache_count + 1
     /\ max_cache_count' = IF i >= max_cache_count THEN i + 1 ELSE max_cache_count
     /\ smallest_free' = NextFree(i)
     /\ pc' = next
     /\ UNCHANGED <<alloc, max_entries, do_once>>
  \/ /\ i >= alloc
     /\ pc' = "oob"
     /\ UNCHANGED <<cacheVars, cached>>

----------------------------------------------------------------------------
(* queue_testcase_get                                                      *)

\* A call for entry q: nothing to do when it is cached.
Get(q) ==
  IF q \in cached
  THEN pc' = "stages" /\ UNCHANGED <<get, tid>>
  ELSE pc' = "get" /\ get' = q /\ tid' = max_cache_count

\* The first time the cache is full by size, that is its maximum for good.
Learns ==
  /\ cache_size + len[get] >= max_cache_size
  /\ cache_count < max_entries /\ max_cache_count < max_entries /\ ~do_once

\* MUTANT of LearntEntries: no slot is kept free.
LearntEntries_Tight == Max({max_cache_count, cache_count})

LearntEntries == Max({max_cache_count, cache_count}) + 1

\* MUTANT of Evictable: the current entry is not spared.
Evictable_Current(i) == i < max_cache_count /\ cache[i] # NONE

\* rand_below hits a used slot that is not the current entry's.
Evictable(i) == i < max_cache_count /\ cache[i] \notin {NONE, queue_cur}

\* MUTANT of EvictedSize: the size of the new input is taken off.
EvictedSize_Wrong(i) == cache_size - len[get]

EvictedSize(i) == cache_size - len[cache[i]]

\* One round of the eviction loop.  Slots that realloc adds are not
\* initialised, so alloc does not grow.
GetEvict(i) ==
  /\ pc = "get" /\ Full(len[get]) /\ Evictable(i)
  /\ max_entries' = IF Learns THEN LearntEntries ELSE max_entries
  /\ alloc' = IF Learns THEN Min({alloc, LearntEntries + 1}) ELSE alloc
  /\ do_once' = (do_once \/ Learns)
  /\ cached' = cached \ {cache[i]}
  /\ cache_size' = EvictedSize(i)
  /\ cache' = [cache EXCEPT ![i] = NONE]
  /\ cache_count' = cache_count - 1
  /\ smallest_free' = Min({i, smallest_free})
  /\ tid' = i
  /\ UNCHANGED <<len, max_cache_count, queue_cur, get, trimmed, pc>>

\* rand_below hits a slot that cannot be evicted, and is called again.
GetMiss(i) ==
  /\ pc = "get" /\ Full(len[get])
  /\ i < Max({1, max_cache_count}) /\ ~Evictable(i)
  /\ UNCHANGED vars

\* There is room: find the slot and read the file.
GetLoad ==
  /\ pc = "get" /\ ~Full(len[get])
  /\ Register(get, len[get], FirstFree(SearchFrom(tid)), "stages")
  /\ get' = NONE /\ tid' = 0
  /\ UNCHANGED <<len, queue_cur, trimmed>>

----------------------------------------------------------------------------
(* The callers                                                             *)

\* fuzz_one starts on q and gets its input.
FuzzOne(q) ==
  /\ pc = "idle" /\ q \in Queued
  /\ queue_cur' = q /\ trimmed' = FALSE
  /\ Get(q)
  /\ UNCHANGED <<len, cached, cacheVars>>

\* trim_case shortens the current input to n bytes; queue_testcase_retake_mem
\* (or _retake for a custom trimmer) follows with the cache.
Trim(n) ==
  /\ pc = "stages" /\ ~trimmed /\ n < len[queue_cur]
  /\ trimmed' = TRUE
  /\ len' = [len EXCEPT ![queue_cur] = n]
  /\ cache_size' = IF queue_cur \in cached THEN cache_size + n - len[queue_cur] ELSE cache_size
  /\ UNCHANGED <<cached, cache, alloc, cache_count, max_cache_count, max_entries,
                 smallest_free, do_once, queue_cur, get, tid, pc>>

\* Splicing gets the input of another entry.
Splice(q) ==
  /\ pc = "stages" /\ q \in Queued \ {queue_cur}
  /\ Get(q)
  /\ UNCHANGED <<len, cached, cacheVars, queue_cur, trimmed>>

\* save_if_interesting queues a new input of n bytes, found in a stage or taken
\* from another fuzzer between two entries, and stores it.
StoreMem(n) ==
  LET q == Cardinality(Queued) + 1
  IN  /\ pc \in {"idle", "stages"} /\ queue_cur # NONE /\ q \in Ids
      /\ len' = [len EXCEPT ![q] = n]
      /\ \/ Full(n) /\ UNCHANGED <<cached, cacheVars, pc>>
         \/ ~Full(n) /\ Register(q, n, FirstFree(SearchFrom(max_cache_count)), pc)
      /\ UNCHANGED <<queue_cur, get, tid, trimmed>>

Abandon ==
  /\ pc = "stages" /\ pc' = "idle"
  /\ UNCHANGED <<len, cached, cacheVars, queue_cur, get, tid, trimmed>>

Next ==
  \/ \E i \in Slots : GetEvict(i) \/ GetMiss(i)
  \/ GetLoad
  \/ \E q \in Ids : FuzzOne(q) \/ Splice(q)
  \/ \E n \in Lens : Trim(n) \/ StoreMem(n)
  \/ Abandon

\* queue_testcase_get is sequential code, and rand_below does not miss a slot
\* that can be evicted for ever.
Fairness == WF_vars(GetLoad \/ \E i \in Slots : GetEvict(i))

Spec == Init /\ [][Next]_vars /\ Fairness

----------------------------------------------------------------------------
(* Properties                                                              *)

Used == {i \in Slots : cache[i] # NONE}

\* Type invariant of the cache.
TypeOK ==
  /\ len \in [Ids -> 0..MAX_FILE] /\ cached \subseteq Ids
  /\ cache \in [Slots -> {NONE} \cup Ids]
  /\ alloc \in 0..max_entries_init
  /\ cache_size \in Nat /\ cache_count \in Nat
  /\ max_cache_count \in Nat /\ max_entries \in Nat /\ smallest_free \in Nat
  /\ do_once \in BOOLEAN /\ queue_cur \in {NONE} \cup Ids /\ get \in {NONE} \cup Ids
  /\ tid \in Nat /\ trimmed \in BOOLEAN
  /\ pc \in {"idle", "get", "stages", "oob"}

\* The unsigned counters say what the slots hold, through evictions, stores
\* and trims in any order: bytes, entries and testcase_buf pointers agree, so
\* nothing wraps below zero and no buffer is registered twice; and the bytes
\* stay below the configured number.  (With the types.)
Accounting ==
  /\ TypeOK
  /\ cache_size < max_cache_size
  /\ cache_size = MapThenSumSet(LAMBDA q : len[q], cached)
  /\ cache_count = Cardinality(Used)
  /\ cached = {cache[i] : i \in Used}
  /\ \A i, j \in Used : cache[i] = cache[j] => i = j

\* Every slot below smallest_free is in use and every used slot is below
\* max_cache_count, so the search for a free slot misses none.
FreeSlotsFound ==
  /\ \A i \in Slots : i < smallest_free => cache[i] # NONE
  /\ \A i \in Used : i < max_cache_count
  /\ max_cache_count <= max_entries

\* The search for a free slot never leaves the array, even after
\* realloc has cut it to the number of entries learnt.
InBounds == pc # "oob"

\* The buffer fuzz_one works on (in_buf) is not freed by loading another one.
CurrentPinned == pc = "stages" \/ (pc = "get" /\ get # queue_cur) => queue_cur \in cached

\* Every load ends.  This does not hold in every cache main accepts ("must be set
\* to %ld or more", afl-fuzz.c:1647): at 2 * MAX_FILE bytes or with one or two
\* slots the eviction loop may find only the current input, for ever.
LoadEnds == pc = "get" ~> pc = "stages"

\* Loading an input ends where two inputs of MAX_FILE bytes and two slots leave
\* a byte and a slot over: beside the current input the eviction loop finds an
\* entry to evict as long as it has to.
GetReturns == 2 * MAX_FILE < max_cache_size /\ 2 < max_entries_init => LoadEnds

=============================================================================
