---------------------------- MODULE QueueScore -----------------------------
(***************************************************************************)
(* The queue and its favoured entries: add_to_queue, update_bitmap_score,  *)
(* cull_queue, and the counters that the dry run, fuzz_one and the main    *)
(* loop keep in step with them.                                            *)
(*                                                                         *)
(* A trace is the set of edges it hits (minimize_bits drops the counts).   *)
(* What the target does is a choice: whether a calibration succeeds, which *)
(* trace it leaves, and the speed x size factor it measures.               *)
(***************************************************************************)
EXTENDS Integers, FiniteSets

CONSTANTS
  MapSize,      \* number of edges
  Seeds,        \* initial test cases
  MaxEntries,   \* bound: entries the queue may hold
  Factors,      \* values of the speed x size factor
  MaxLevel,     \* bound: times an entry is fuzzed
  SkipItems,    \* queue size up to which no entry is skipped (10 in the code)
  schedule,     \* "EXPLORE" (EXPLOIT, MMOPT, SEEK) compares fuzz_level, "FAST" (COE,
                \* LIN, QUAD) does not
  cycle_schedules,  \* AFL_CYCLE_SCHEDULES: rescore the queue each cycle
  seeds_may_hang,   \* a seed may time out in the dry run (-t given)
  NULL

ASSUME SizeAssumption ==
  /\ MapSize \in Nat \ {0} /\ Seeds \in Nat \ {0}
  /\ MaxEntries \in Nat /\ Seeds <= MaxEntries
  /\ MaxLevel \in Nat /\ SkipItems \in Nat /\ Factors \subseteq Nat
  /\ schedule \in {"EXPLORE", "FAST"}
  /\ cycle_schedules \in BOOLEAN /\ seeds_may_hang \in BOOLEAN
Edges == 1..MapSize
Ids == 1..MaxEntries

ASSUME NullAssumption == \A t \in SUBSET Edges : NULL # t

VARIABLES
  queued_items, active_items, pending_not_fuzzed,
  queued_favored, pending_favored,
  was_fuzzed, disabled, cal_failed, favored,   \* sets of entries
  fuzz_level, fav_factor,
  testcase_matrix,       \* 0 before its birth
  top_rated,             \* winner of each edge, 0 if none
  tc_ref, trace_mini,
  score_changed,
  queue_cur,
  idx,                   \* loop index of the dry run and of the rescoring
  pc

scoreVars == <<top_rated, tc_ref, trace_mini, score_changed>>
favVars   == <<favored, queued_favored, pending_favored>>
countVars == <<queued_items, active_items, pending_not_fuzzed, was_fuzzed, disabled>>
vars == <<scoreVars, favVars, countVars, cal_failed, fuzz_level, fav_factor,
          testcase_matrix, queue_cur, idx, pc>>

Queued == 1..queued_items
Slots(q) == {i \in Edges : top_rated[i] = q}

Init ==
  /\ queued_items = Seeds /\ active_items = Seeds /\ pending_not_fuzzed = Seeds
  /\ queued_favored = 0 /\ pending_favored = 0
  /\ was_fuzzed = {} /\ disabled = {} /\ cal_failed = {} /\ favored = {}
  /\ fuzz_level = [q \in Ids |-> 0]
  /\ fav_factor = [q \in Ids |-> 0]
  /\ testcase_matrix = 0
  /\ top_rated = [i \in Edges |-> 0]
  /\ tc_ref = [q \in Ids |-> 0]
  /\ trace_mini = [q \in Ids |-> NULL]
  /\ score_changed = FALSE
  /\ queue_cur = 0 /\ idx = 1 /\ pc = "dry"

----------------------------------------------------------------------------
(* update_bitmap_score                                                     *)

\* q with factor f takes the slot of r: not fuzzed more often, not slower.
Beats(q, f, r) ==
  /\ schedule = "FAST" \/ fuzz_level[q] <= fuzz_level[r]
  /\ f <= (IF r = q THEN f ELSE fav_factor[r])

\* The edges of trace t that q wins.
Won(q, f, t) == {i \in t : top_rated[i] = 0 \/ Beats(q, f, top_rated[i])}

\* q drops to no slot and is given one again, so that its trace is taken
\* anew: it has none, or its only slot is the first one it wins now.
Retakes(q, won) ==
  /\ won # {}
  /\ \/ tc_ref[q] = 0
     \/ tc_ref[q] = 1 /\ \E i \in won : top_rated[i] = q /\ \A j \in won : i <= j

\* MUTANT of Refs: a slot the matrix loses is not counted off.
Refs_MatrixKept(q, won, r) ==
  IF r = q THEN tc_ref[q] + Cardinality(won \ Slots(q))
  ELSE IF r = testcase_matrix THEN tc_ref[r]
  ELSE tc_ref[r] - Cardinality(won \cap Slots(r))

\* tc_ref of r when q has taken the edges of won.
Refs(q, won, r) ==
  IF r = q THEN tc_ref[q] + Cardinality(won \ Slots(q))
  ELSE tc_ref[r] - Cardinality(won \cap Slots(r))

\* MUTANT of Mini: a trace is freed with the first edge its entry loses.
Mini_FreedEarly(q, t, m, won, r) ==
  IF r = q /\ r = m THEN IF trace_mini[q] = NULL THEN t ELSE trace_mini[q]
  ELSE IF r = q THEN IF Retakes(q, won) THEN t ELSE trace_mini[q]
  ELSE IF r # m /\ won \cap Slots(r) # {} THEN NULL
  ELSE trace_mini[r]

\* trace_mini of r then: the matrix m takes one if it has none and keeps it
\* for ever; another entry left without edges loses its own.
Mini(q, t, m, won, r) ==
  IF r = q /\ r = m THEN IF trace_mini[q] = NULL THEN t ELSE trace_mini[q]
  ELSE IF r = q THEN IF Retakes(q, won) THEN t ELSE trace_mini[q]
  ELSE IF r # m /\ won \cap Slots(r) # {} /\ Refs(q, won, r) = 0 THEN NULL
  ELSE trace_mini[r]

\* The loop over the map in one step: every edge of t that q wins changes
\* hands.  m is the matrix at the time of the call.
UpdateBitmapScore(q, f, t, m) ==
  LET won == Won(q, f, t)
  IN  /\ top_rated' = [i \in Edges |-> IF i \in won THEN q ELSE top_rated[i]]
      /\ tc_ref' = [r \in Ids |-> Refs(q, won, r)]
      /\ trace_mini' = [r \in Ids |-> Mini(q, t, m, won, r)]
      /\ score_changed' = (score_changed \/ won # {})
      /\ fav_factor' = [fav_factor EXCEPT ![q] = f]

----------------------------------------------------------------------------
(* perform_dry_run                                                         *)

\* MUTANT of Disable: active_items is forgotten.
Disable_StillActive(D) ==
  /\ disabled' = disabled \cup D
  /\ was_fuzzed' = was_fuzzed \cup D
  /\ pending_not_fuzzed' = pending_not_fuzzed - Cardinality(D \ was_fuzzed)
  /\ UNCHANGED active_items

\* disabled = 1 with the counters that go with it, for every entry of D.
Disable(D) ==
  /\ disabled' = disabled \cup D
  /\ was_fuzzed' = was_fuzzed \cup D
  /\ pending_not_fuzzed' = pending_not_fuzzed - Cardinality(D \ was_fuzzed)
  /\ active_items' = active_items - Cardinality(D \ was_fuzzed)

\* calibrate_case on a seed: it succeeds with trace t, or times out.
SeedCalibrated(q, m) ==
  \/ /\ \E t \in SUBSET Edges \ {{}}, f \in Factors : UpdateBitmapScore(q, f, t, m)
     /\ cal_failed' = cal_failed \ {q}
  \/ /\ seeds_may_hang
     /\ cal_failed' = cal_failed \cup {q}
     /\ UNCHANGED <<scoreVars, fav_factor>>

\* The first calibration of the first seed, after which it is the matrix.
MatrixBirth ==
  /\ pc = "dry" /\ testcase_matrix = 0
  /\ SeedCalibrated(idx, 0)
  /\ testcase_matrix' = idx
  /\ UNCHANGED <<favVars, countVars, fuzz_level, queue_cur, idx, pc>>

\* A seed's (for the matrix: second) calibration.  A timeout disables it, and
\* so does, in LV3, another crash site than the matrix's.
DryRunSeed ==
  /\ pc = "dry" /\ testcase_matrix # 0 /\ idx <= Seeds
  /\ SeedCalibrated(idx, testcase_matrix)
  /\ \/ idx \notin cal_failed' /\ UNCHANGED <<disabled, was_fuzzed, pending_not_fuzzed, active_items>>
     \/ (idx \in cal_failed' \/ idx # testcase_matrix) /\ Disable({idx})
  /\ idx' = idx + 1
  /\ UNCHANGED <<favVars, queued_items, fuzz_level, testcase_matrix, queue_cur, pc>>

\* FATAL when every seed timed out.  Seeds with the checksum of another are
\* disabled; one of them stays.
DryRunEnd ==
  /\ pc = "dry" /\ idx > Seeds
  /\ ~(1..Seeds \subseteq cal_failed)
  /\ \E D \in SUBSET (1..Seeds \ (disabled \cup cal_failed)) :
       /\ D = {} \/ D # 1..Seeds \ (disabled \cup cal_failed)
       /\ Disable(D)
  /\ pc' = "cull"
  /\ UNCHANGED <<scoreVars, favVars, queued_items, cal_failed, fuzz_level, fav_factor,
                 testcase_matrix, queue_cur, idx>>

----------------------------------------------------------------------------
(* cull_queue                                                              *)

\* MUTANT of Missing: the bits entry q has, as when coverage is to increase.
Missing_Hit(q) == trace_mini[q]

\* Bits the matrix has and entry q lacks.
Missing(q) == trace_mini[testcase_matrix] \ trace_mini[q]

\* The edges among 1..i whose winner is picked: no winner picked before has
\* removed them.
Picked[i \in 0..MapSize] ==
  IF i = 0 THEN {}
  ELSE IF top_rated[i] # 0 /\ \A j \in Picked[i - 1] : i \notin Missing(top_rated[j])
       THEN Picked[i - 1] \cup {i}
       ELSE Picked[i - 1]

\* The traces cull_queue dereferences exist.
Dereferenceable ==
  \A i \in Edges : top_rated[i] # 0 =>
    trace_mini[testcase_matrix] # NULL /\ trace_mini[top_rated[i]] # NULL

\* cull_queue; after the first one, main gives up without an enabled seed.
CullQueue ==
  /\ pc = "cull"
  /\ \/ /\ ~score_changed
        /\ UNCHANGED <<favVars, score_changed>>
     \/ /\ score_changed /\ Dereferenceable
        /\ score_changed' = FALSE
        /\ favored' = {q \in Queued : \E i \in Picked[MapSize] : top_rated[i] = q}
        /\ queued_favored' = Cardinality(favored')
        /\ pending_favored' = Cardinality(favored' \ was_fuzzed)
  /\ pc' = IF queue_cur = 0 /\ (pending_not_fuzzed = 0 \/ Queued \subseteq disabled)
           THEN "fatal" ELSE "pick"
  /\ UNCHANGED <<top_rated, tc_ref, trace_mini, countVars, cal_failed, fuzz_level, fav_factor,
                 testcase_matrix, queue_cur, idx>>

\* A null trace_mini is read: the process is gone.
CullSegv ==
  /\ pc = "cull" /\ score_changed /\ ~Dereferenceable
  /\ pc' = "segv"
  /\ UNCHANGED <<scoreVars, favVars, countVars, cal_failed, fuzz_level, fav_factor,
                 testcase_matrix, queue_cur, idx>>

----------------------------------------------------------------------------
(* The main loop and fuzz_one                                              *)

\* A new queue cycle under schedule cycling.  The next schedule may measure
\* all entries differently (SEEK takes the length alone).
StartRescore ==
  /\ pc = "pick" /\ cycle_schedules
  /\ \/ UNCHANGED fav_factor
     \/ \E g \in [Queued -> Factors] :
          fav_factor' = [q \in Ids |-> IF q \in Queued THEN g[q] ELSE fav_factor[q]]
  /\ idx' = 1 /\ pc' = "rescore"
  /\ UNCHANGED <<scoreVars, favVars, countVars, cal_failed, fuzz_level, testcase_matrix,
                 queue_cur>>

\* Every enabled entry is scored again, with whatever trace the last execution
\* left in trace_bits.
Rescore ==
  /\ pc = "rescore"
  /\ \/ /\ idx \in Queued \ disabled
        /\ \E t \in SUBSET Edges :
             UpdateBitmapScore(idx, fav_factor[idx], t, testcase_matrix)
        /\ idx' = idx + 1 /\ UNCHANGED pc
     \/ /\ idx \in Queued \cap disabled
        /\ idx' = idx + 1 /\ UNCHANGED <<scoreVars, fav_factor, pc>>
     \/ /\ idx \notin Queued
        /\ pc' = "pick" /\ UNCHANGED <<scoreVars, fav_factor, idx>>
  /\ UNCHANGED <<favVars, countVars, cal_failed, fuzz_level, testcase_matrix, queue_cur>>

\* An entry is selected; disabled ones have weight 0.
SelectEntry(q) ==
  /\ pc = "pick" /\ q \in Queued \ disabled
  /\ fuzz_level[q] < MaxLevel
  /\ queue_cur' = q /\ pc' = "one"
  /\ UNCHANGED <<scoreVars, favVars, countVars, cal_failed, fuzz_level, fav_factor,
                 testcase_matrix, idx>>

\* fuzz_one skips the entry, to get to new favoured ones or by chance.
SkipEntry ==
  /\ pc = "one"
  /\ \/ pending_favored > 0 /\ (fuzz_level[queue_cur] > 0 \/ queue_cur \notin favored)
     \/ pending_favored = 0 /\ queue_cur \notin favored /\ queued_items > SkipItems
  /\ pc' = "cull"
  /\ UNCHANGED <<scoreVars, favVars, countVars, cal_failed, fuzz_level, fav_factor,
                 testcase_matrix, queue_cur, idx>>

\* A failed calibration is tried again, CAL_CHANCES permitting (a choice here);
\* failing once more ends fuzz_one.
Calibrate ==
  /\ pc = "one"
  /\ \/ /\ queue_cur \notin cal_failed
        /\ pc' = "trim"
        /\ UNCHANGED <<scoreVars, fav_factor, cal_failed>>
     \/ /\ queue_cur \in cal_failed
        /\ \E t \in SUBSET Edges, f \in Factors :
             UpdateBitmapScore(queue_cur, f, t, testcase_matrix)
        /\ cal_failed' = cal_failed \ {queue_cur}
        /\ pc' = "trim"
     \/ /\ queue_cur \in cal_failed
        /\ pc' = "abandon"
        /\ UNCHANGED <<scoreVars, fav_factor, cal_failed>>
  /\ UNCHANGED <<favVars, countVars, fuzz_level, testcase_matrix, queue_cur, idx>>

\* trim_case, unless trim_done or disable_trim (a choice here): a shorter
\* input is scored anew with its clean trace.
Trim ==
  /\ pc = "trim"
  /\ \/ \E t \in SUBSET Edges, f \in Factors :
          /\ f <= fav_factor[queue_cur]
          /\ UpdateBitmapScore(queue_cur, f, t, testcase_matrix)
     \/ UNCHANGED <<scoreVars, fav_factor>>
  /\ pc' = "stages"
  /\ UNCHANGED <<favVars, countVars, cal_failed, fuzz_level, testcase_matrix, queue_cur, idx>>

\* MUTANT of Enqueue: queued_items is forgotten.
Enqueue_Uncounted(q) ==
  /\ UNCHANGED queued_items
  /\ active_items' = active_items + 1
  /\ pending_not_fuzzed' = pending_not_fuzzed + 1

\* add_to_queue
Enqueue(q) ==
  /\ queued_items' = q
  /\ active_items' = active_items + 1
  /\ pending_not_fuzzed' = pending_not_fuzzed + 1

\* save_if_interesting keeps an input of a fuzzing stage, or of another
\* fuzzer between two entries: add_to_queue, then calibrate_case.
AddToQueue ==
  LET q == queued_items + 1
  IN  /\ pc = "stages" \/ (pc \in {"cull", "pick"} /\ queue_cur # 0)
      /\ q <= MaxEntries
      /\ Enqueue(q)
      /\ \/ /\ \E t \in SUBSET Edges, f \in Factors :
                 UpdateBitmapScore(q, f, t, testcase_matrix)
            /\ UNCHANGED cal_failed
         \/ /\ cal_failed' = cal_failed \cup {q}
            /\ UNCHANGED <<scoreVars, fav_factor>>
      /\ UNCHANGED <<favVars, was_fuzzed, disabled, fuzz_level, testcase_matrix, queue_cur,
                     idx, pc>>

\* abandon_entry: the end of fuzz_one, reached early or after all stages.  (A
\* stop signal, after which the main loop ends, is not modelled here.)
AbandonEntry ==
  LET q == queue_cur
      first == q \notin cal_failed \cup was_fuzzed \cup disabled
  IN  /\ pc \in {"stages", "abandon"}
      /\ was_fuzzed' = IF first THEN was_fuzzed \cup {q} ELSE was_fuzzed
      /\ pending_not_fuzzed' = IF first THEN pending_not_fuzzed - 1 ELSE pending_not_fuzzed
      /\ pending_favored' = IF first /\ q \in favored THEN pending_favored - 1 ELSE pending_favored
      /\ fuzz_level' = [fuzz_level EXCEPT ![q] = @ + 1]
      /\ pc' = "cull"
      /\ UNCHANGED <<scoreVars, favored, queued_favored, queued_items, active_items, disabled,
                     cal_failed, fav_factor, testcase_matrix, queue_cur, idx>>

Next ==
  \/ MatrixBirth \/ DryRunSeed \/ DryRunEnd
  \/ CullQueue \/ CullSegv
  \/ StartRescore \/ Rescore
  \/ \E q \in Ids : SelectEntry(q)
  \/ SkipEntry \/ Calibrate \/ Trim \/ AddToQueue \/ AbandonEntry

Spec == Init /\ [][Next]_vars

----------------------------------------------------------------------------
(* Properties                                                              *)

\* Type invariant of the queue and its scores.
TypeOK ==
  /\ queued_items \in Seeds..MaxEntries
  /\ active_items \in Int /\ pending_not_fuzzed \in Int
  /\ queued_favored \in Nat /\ pending_favored \in Int
  /\ was_fuzzed \subseteq Queued /\ disabled \subseteq Queued /\ cal_failed \subseteq Queued
  /\ favored \subseteq Queued
  /\ fuzz_level \in [Ids -> Nat] /\ fav_factor \in [Ids -> Nat]
  /\ testcase_matrix \in {0} \cup Queued
  /\ top_rated \in [Edges -> {0} \cup Queued]
  /\ tc_ref \in [Ids -> Int]
  /\ trace_mini \in [Ids -> {NULL} \cup SUBSET Edges]
  /\ score_changed \in BOOLEAN
  /\ queue_cur \in {0} \cup Queued
  /\ idx \in Nat
  /\ pc \in {"dry", "cull", "segv", "fatal", "pick", "rescore", "one", "trim", "stages", "abandon"}

\* tc_ref of an entry is the number of edges it is top rated for, so the
\* u32 never wraps and trace_mini is freed exactly when the last edge goes.
RefCount == \A q \in Ids : tc_ref[q] = Cardinality(Slots(q))

\* trace_mini lives as long as it is needed and no longer: an entry that wins
\* an edge has one, and apart from the matrix an entry without edges has none.
MiniAlive ==
  \A q \in Ids :
    /\ Slots(q) # {} => trace_mini[q] # NULL
    /\ Slots(q) = {} /\ q # testcase_matrix => trace_mini[q] = NULL

\* The counters that drive scheduling and "exit when done" agree with the
\* flags of the entries, whatever order entries are disabled, fuzzed,
\* favoured and added in.
CountersAgree ==
  /\ pending_not_fuzzed = Cardinality(Queued \ was_fuzzed)
  /\ active_items = Cardinality(Queued \ disabled)
  /\ queued_favored = Cardinality(favored)
  /\ pending_favored = Cardinality(favored \ was_fuzzed)

\* While no score changed since the last culling, each edge with a winner is
\* the slot of a favoured entry or an edge of the matrix that a favoured entry
\* no longer hits: favoured entries cover every decrease that is known.
FavoredCover ==
  ~score_changed /\ pc \notin {"dry", "cull", "segv", "fatal"} =>
    \A i \in Edges : top_rated[i] # 0 =>
      \/ top_rated[i] \in favored
      \/ \E q \in favored : i \in trace_mini[testcase_matrix] \ trace_mini[q]

\* What perform_dry_run promises of the matrix ("This ensures the matrix has
\* its trace_mini"): cull_queue never reads a missing trace.
MatrixHasMini == pc # "segv"

=============================================================================
