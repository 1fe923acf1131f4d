# IgorFuzz in TLA+

IgorFuzz (`src/engine`) is a fork of AFL++ 4.07a that turns the fuzzer's goal
around: it starts from a crashing input and keeps inputs that crash *with less
coverage*. This directory models the parts of the engine that carry that logic,
checks them with TLC on small instances and proves part of it with TLAPS.

## 1. Inventory

| Part | Code | State | Operations |
| --- | --- | --- | --- |
| Coverage comparison | `afl-fuzz-bitmap.c`, `include/coverage-64.h` | `virgin_bits`, `virgin_tmout`, `trace_bits`, `total_actual_counts` | `classify_counts`, `simplify_trace`, `has_new_bits`, `has_few_bits`, `count_bytes` |
| Saving inputs | `afl-fuzz-bitmap.c` `save_if_interesting` | `saved_hangs`, the queue, the virgin maps | queue a crash with a decrease, look at timeouts |
| Calibration | `afl-fuzz-run.c` `calibrate_case` | `first_trace`, `var_bytes`, `min_bitmap_size`, `min_actual_cnts`, entry flags | run an entry several times, detect variable edges |
| Dry run | `afl-fuzz-init.c` `perform_dry_run` | `testcase_matrix`, `disabled`, `cal_failures` | birth of the matrix, rejection and deduplication of seeds |
| Queue and scores | `afl-fuzz-queue.c` | `queue_buf`, `top_rated`, `tc_ref`, `trace_mini`, `favored`, counters | `add_to_queue`, `update_bitmap_score`, `cull_queue` |
| Main loop, `fuzz_one` | `afl-fuzz.c`, `afl-fuzz-one.c` | `queue_cur`, `pending_*`, `was_fuzzed`, `fuzz_level` | select, skip, recalibrate, trim, mutate, abandon |
| Crash site | `afl-fuzz-bitmap.c` `find_crash_site`, `same_crash_site` | the call-stack file, `crash_symbol/module/offset` | parse, flush, compare (mode LV3) |
| Test case cache | `afl-fuzz-queue.c` `queue_testcase_*` | `q_testcase_cache`, `testcase_buf`, cache size and count | get, store, retake, evict |
| Selection | `afl-fuzz-queue.c` `create_alias_table`, `afl-fuzz.c` | `alias_table`, `alias_probability`, `prev_queued_items`, `reinit_table` | make the table, draw an entry |
| Trimming | `afl-fuzz-run.c` `trim_case`, `afl-fuzz-mutators.c` `trim_case_custom` | chunk length and position, the buffer, `clean_trace`, the file | delete a chunk, run, keep or undo, rewrite the file |
| Fork server | `afl-forkserver.c`, `instrumentation/afl-compiler-rt.o.c` | two pipes, `child_pid`, shared map, timers, options | handshake, run, time out, kill, restart |
| Syncing | `afl-fuzz-run.c` `sync_fuzzers`, `afl-fuzz-init.c` | `queue/`, `_resume/`, `.synced/`, `is_main_node` | import another fuzzer's queue, elect and demote a main node, resume |
| Console | `console/utility/worker.py` | worker process and its timer | start, terminate, kill |

How they interact. `main` calls `perform_dry_run`, which calibrates each seed
and picks the matrix; every later comparison (`has_few_bits`, `cull_queue`) is
relative to that matrix. The main loop culls the queue, selects an entry and
calls `fuzz_one`; each mutated input runs through `common_fuzz_stuff`
(fork server, then `save_if_interesting`), which may queue and calibrate it.
`calibrate_case` and `trim_case` call `update_bitmap_score`. The target shares
the trace map with the fuzzer and answers over two pipes. Signals set
`stop_soon` between any two steps. Several fuzzers meet in one sync directory,
where each reads the queue directories of the others while they write them. The
console starts one afl-fuzz per job and ends it with SIGTERM or SIGKILL.

What is hard here: state of one execution (`trace_bits`, `total_actual_counts`)
that a later step reads after other executions have overwritten it; targets
whose trace differs from run to run; the extra calibration of the matrix; the
reference counts on traces that change hands while the map is walked; counters
that several functions keep in step by hand; seeds that time out; stop signals
in the middle of a calibration, a trim, a handshake or a sync; option bits from
which two processes must infer the same protocol; counters on disk that outlive
the numbering they count in; and processes that must not be left behind.

What would make each part correct:

- *Coverage comparison and calibration*: a coverage decrease is reported when an
  entry really lost an edge or really is smaller, and what is stored (touched
  edges, minima) always describes the entries in the queue.
- *Dry run*: one shortest seed per trace survives, and the matrix has all that
  later code reads of it.
- *Queue and scores*: reference counts are exact, traces live exactly as long as
  they are needed, favoured entries cover all that is known, counters agree with
  flags.
- *Test case cache*: exact bookkeeping, no access outside the array, the current
  input stays loaded, a load ends.
- *Selection*: the table is as long as the queue when it is used, chances are
  those of the weights, disabled entries are never drawn.
- *Trimming*: what is kept, scored and written is an input that ran with the
  entry's checksum.
- *Fork server*: handshake and runs end, a run returns its own status and trace,
  nothing survives afl-fuzz.
- *Crash site*: the innermost known frame below the sanitizer is found, and the
  site of the matrix is what inputs are compared with for ever (LV3).
- *Syncing*: every file of another fuzzer is looked at, there is a main node to
  sync from, and a resume loses nothing.

## 2. Plan

Done, in this order: `CoverageMap` and `CovDecrease` (what IgorFuzz adds to
AFL++), `QueueScore` with its proofs, `TestcaseCache`, `ForkServer`, `CrashSite`,
`Sync`, `Trim`, `TargetRun` with `Session` on top of `ForkServer`, `AliasTable`.

Then the proofs: `QueueScoreProofs`, `QueueProofs` (the test case cache, later the
alias table), `CovDecreaseProofs`, `CrashSiteProofs`, `SessionProofs` with the
refinement of `TargetRun`, `TrimProofs`, `SyncProofs`. Every safety property that a
passing run checks is now a theorem.

## 3. Modules and the code they model

| Module | Models | State and actions |
| --- | --- | --- |
| `CoverageMap` | the pure functions of `afl-fuzz-bitmap.c` and `coverage-64.h` | operators on traces (edge to byte) and virgin maps (edge to the set of bits still set) |
| `CovDecrease` | `perform_dry_run`, `calibrate_case`, `common_fuzz_stuff`, `save_if_interesting`, the recalibration in `fuzz_one` | one action per run of the target (`CalRun`, `FuzzRun`), because traces differ from run to run and a stop may come between any two; the code between two runs is one action |
| `QueueScore` | `add_to_queue`, `update_bitmap_score`, `cull_queue`, the parts of the dry run, `fuzz_one` and the main loop that share their counters | entries are numbers in queue order; flags are sets of entries; a trace is its set of edges, since `minimize_bits` drops the counts |
| `QueueScoreProofs` | | the inductive invariant and theorems about `QueueScore` |
| `TestcaseCache` | `queue_testcase_get`, `_store_mem`, `_retake`, `_retake_mem` and their callers | the slot array, the five counters of the cache, one action per round of the eviction loop |
| `ForkServer` | `afl_fsrv_run_target`, the loop of `__afl_start_forkserver`, `__afl_persistent_loop`, `at_exit` of the server, `afl_states_stop` | three kinds of processes, two pipes, signals; one action per system call |
| `Session` | `afl_fsrv_start`, the start of `__afl_start_forkserver`, the restart in `main`, `at_exit` of afl-fuzz, `job_function` of the console | extends `ForkServer`: what comes before and after the runs; the worker is a fourth process |
| `TargetRun` | (abstract) what the rest of afl-fuzz relies on when it runs the target | phases of a run, its result, the runs that wrote to the map |
| `Sync` | `sync_fuzzers`, `handle_existing_out_dir`, `setup_dirs_fds`, `read_testcases`, `pivot_inputs`, the writing and trimming of queue files | directories as sequences of files that are absent, empty or full; one action per file touched |
| `Trim` | `trim_case`, `trim_case_custom`, `write_with_gap`, `ck_write` and the caller in `fuzz_one` | a byte is its original position; one action per run of the target and per `write` |
| `AliasTable` | `create_alias_table`, `select_next_queue_entry`, the part of the main loop around them | probabilities as whole numbers in units of 1/sum; one action per turn of the pairing loop |
| `CrashSite` | `__asan_on_error`, `find_crash_site`, `same_crash_site` and their callers | the call-stack file; the three fields of the site in `fsrv` and `same_crash_site`'s copies of them, two of the three being pointers into a heap of blocks that is allocated, overwritten, restored and freed as in the code; the lines of README.txt. `matrix`, the site found at the birth of the matrix, is a ghost |
| `FiniteSums` | | facts about least numbers, minima and sums over finite sets, for the proofs |
| `QueueProofs` | | inductive invariants and theorems about `TestcaseCache` and `AliasTable` |
| `CovDecreaseProofs`, `CrashSiteProofs`, `SessionProofs`, `TrimProofs`, `SyncProofs` | | inductive invariants and theorems about the modules they are named after |
| `MC...` | | finite instances for TLC |

`CovDecrease` extends `CoverageMap`. `Session` composes the fork server with its
handshake, the exit of afl-fuzz and the console's worker, and is shown to
implement `TargetRun`: `TR == INSTANCE TargetRun WITH` maps the fuzzer's program
counter to a phase, and "the target has crashed in this run" to the fate of the
child that served it. The other modules stand beside each other and speak of the
same entries from different sides: `CovDecrease` decides which inputs become
entries, `QueueScore` what happens to entries afterwards (there, whether an input
is kept and what a calibration measures is a choice), `AliasTable` refines its
choice of the next entry, `Trim` its trimming step, `CrashSite` the choice
"another crash site" of `CovDecrease`; `TestcaseCache` holds the entries' inputs
and `Sync` their files. `TargetRun` is what all of them assume of an execution:
it ends, and it returns its own fault and trace.

Abstractions worth knowing:

- A 64-bit checksum is taken to be injective: it *is* the classified trace.
- `has_few_bits` compares whole words first; the model keeps that (`WordOf`), and
  keeps that `sum_word` adds 16-bit halves, so that hits in a high byte weigh 256
  times (`Lane`).
- What the target does is arbitrary within the `Runs` of an instance. Times and
  lengths appear as the speed x size factor that `update_bitmap_score` compares.
- In `QueueScore` the loop of `update_bitmap_score` over the map is one step.
  `Retakes` accounts for the one thing its order shows outside: an entry that
  loses its only slot to itself frees its trace and takes a new one.
- The fork server's messages carry a run number that nothing in the model reads
  except the properties.
- A message of the handshake is its set of options; a request of a run has none.
  Once the server is up, `Session` forgets the options: no later step reads them.
- A run in `Trim` either has the entry's checksum or not. It can have it only if
  the bytes in `need` are there, and need not have it even then.
- In `AliasTable` the arithmetic is exact. Two effects of rounding are therefore
  not covered: entries left on the stack of small ones (which the code handles, and
  the model keeps, by giving them their whole column) and `rand_next_percent`
  returning exactly 1.0, which is modelled as a choice (`p_one`).
- In `Sync` a file name is the id and the test case; a resumed fuzzer keeps a name
  exactly when both are the same, as `pivot_inputs` does. A sorted listing is the set
  of its names, taken in the order of their ids.
- Undefined outcomes are states of their own: `"segv"` when `cull_queue` follows
  a null pointer, `"oob"` when the slot search leaves the array.

## 4. Runs

| Run | Instance | Shows |
| --- | --- | --- |
| `cov_decrease` | 3 edges in 2 words, 3 seeds of two lengths, one fuzzed input, all faults, LV3 | `TouchedHitByAll`, `MinimumAttained`, `CovBudget`, `SeedsDeduped` |
| `queue_score` | 2 edges, 2 seeds, 3 entries, seeds may time out, schedules cycle | `RefCount`, `MiniAlive`, `CountersAgree`, `FavoredCover` |
| `testcase_cache` | 4 entries of 1 or 3 bytes, 7 bytes and 4 slots of cache | `Accounting`, `FreeSlotsFound`, `InBounds`, `CurrentPinned`, `GetReturns` |
| `session` | all sets of target options, 3 runs of a persistent target, SIGKILL, a server that may die, SIGTERM and SIGKILL from the worker | `OwnResult`, `MapAtRest`, `NoOrphans`, `HandshakeAgreed`, `RunReturns`, `StopEnds`, `ServerLeaves`, and `Implements` (the refinement of `TargetRun`) |
| `crash_site` | stacks up to 3 frames of 4 kinds, 2 seeds, 3 entries, LV3 and below, a heap of 4 blocks | `InnermostBelowBlocked`, `DetailOwn`, `QueueAtMatrixSite`, `MatrixSiteKept`, `BlocksOwned` |
| `sync` | 2 fuzzers, one of them always `-S`, 1 find, 1 trim, 1 stop or kill, any number of kills during a resume | `LookedAt`, `MarkTrue`, `CaughtUp`, `RealMainWins`, `MainElected`, `NothingLost` |
| `trim` | entries of 4, 5 and 7 bytes, any set of needed bytes, custom trimmers of 2 steps, two short writes and any number of failed ones | `KeptIsAccepted`, `ScoredOwn`, `FileWhole`, `TrimEnds` |
| `alias_table` | up to 4 entries, weights 1, 2 and 5, any of them disabled at the start | `TableCovers`, `ChancesRight`, `ChosenEnabled` |

The type invariant is a run's property of its own in `queue_score`, where it is
also proved; in the other modules it is a conjunct of one of the invariants.

Why these bounds. Three edges in two words let an edge be lost alone, with its
word neighbour or without it, and let a trace be smaller without losing the edge
of another entry. Two calibration runs, of which the second may differ, are
enough to find a variable edge, and one more run to see it used. Two slots and
three entries let a slot change hands twice and an entry lose all, some or none
of its slots in one call. Seven bytes for inputs of at most three put the cache
at its byte limit with one and with two inputs loaded, and four slots at its slot
limit. Three runs let a run that timed out be followed by one that reuses the
stopped child and one that forks a new one. One find and one trim give a queue of
two files of which either may be missing or empty while the other fuzzer scans,
and a resume reverses them; kills during a resume are not counted, so that a
resume of a resume happens. Lengths 4, 5 and 7 are below the limit of `trim_case`,
just at it, and long enough for three rounds with a last chunk that is cut and a
power of two that shrinks on the way. Four entries with weights 1, 2 and 5 put
small and large entries on both stacks, with a large one that becomes small.
Stacks of three frames hold a blocked
frame above, below and between others; four blocks hold a site and a copy of
another, and a block that is lost is missed at the next comparison. Constants such as `CAL_CYCLES` (7 in the
code), the queue size from which entries are skipped (10) and `__AFL_LOOP`'s
count are scaled down so that both sides of each comparison occur.

Deadlock is not checked where the system stops by itself (the user stops the
fuzzer, `FATAL`, or a bound on runs and entries is reached); it is checked for
the cache and the alias table.

Fairness. In `TestcaseCache` the loop of `queue_testcase_get` goes on (weak
fairness): it is sequential code, and a random pick that can succeed does so
sooner or later. In `ForkServer` and `Session` the fuzzer and the server each have
weak fairness as processes the kernel schedules, with the timers of `select` being
part of the fuzzer, and a stopped fuzzer leaves its loop, because every caller of a
run looks at `stop_soon`. The target has none, since it may hang, also before its
hello; the worker has none, since nothing depends on its going on. In `Trim` every
execution and every `write` returns, with success or not; nothing says that a write
that the `AFL_NO_UNLINK` loop tries again ever succeeds (`Retrying`). In `Sync` a running fuzzer goes on with what
it has begun and comes back to `sync_fuzzers` (`main` calls it whenever a cycle or
the sync time is over); finding, trimming, starting, stopping and dying are not
fair.

## 5. Findings

Four runs show that the code departs from what its comments and messages say.

- `matrix_mini`: `perform_dry_run` says the second calibration "ensures the matrix
  has its trace_mini". If the first seed times out (with `-t`), it is the matrix
  all the same, without a trace, and `cull_queue` dereferences null.
- `hang_samples`: `save_if_interesting` says "we're still obliged to keep a handful of
  samples" of timeouts, by "the presence of new bits in the hang-specific bitmap". It
  asks `has_few_bits` for a decrease, which a simplified trace never is: no timeout is
  kept, with new bits or without, and the code that runs it again and saves it is dead.
- `sync_resume`: `sync_fuzzers` says each file of another fuzzer is run if it was
  not looked at before. It counts names, and `read_testcases` numbers a resumed
  queue in reverse: the files that the counter takes for seen are the newest ones.
- `handshake_denied`: a fuzzer that denies a target's auto-dictionary (cmplog,
  afl-analyze) to a target without shared memory input sends a word that the server
  takes for its first request; it forks unasked and each result is that of the run
  before. (afl-fuzz's own server accepts the dictionary; afl-showmap and afl-tmin
  set `AFL_NO_AUTODICT`.)

Other departures met while modelling, which have no run of their own:

- The comment at `afl-fuzz-run.c:552` says a variable edge is ignored "by setting it
  to fully discovered"; for `has_few_bits`, which reads the other encoding, that
  means touched: a crash that misses nothing but a variable edge counts as a decrease
  and is queued.
- `main` says `AFL_TESTCACHE_SIZE` "must be set to %ld or more" and accepts exactly
  `2 * MAX_FILE` bytes. The cache counts as full at equality, so beside a current
  input of `MAX_FILE` bytes another one never fits; with all others evicted, the loop
  that looks for an entry other than the current one never ends (TLC reports
  `LoadEnds` violated with `max_cache_size = 2 * MAX_FILE`). `GetReturns` is the claim
  with its restriction: more than `2 * MAX_FILE` bytes and more than two slots.
- `debug.h` says `ck_write` calls "RPFATAL() as appropriate". Its call cannot be
  reached: a write that fails ends the loop like one that succeeds, and `trim_case`
  goes on with a file that is empty or cut.
- `find_crash_site`'s "flush" of the call-stack file overwrites one byte and does
  not truncate, so a crash that reports no stack is given the previous crash's site
  (this is how `Flushed` models it).
- `main` checks the bytes of the cache, not the number of its slots. With
  `AFL_TESTCACHE_ENTRIES=1` nothing can ever be loaded, with 2 nothing beside the
  current input, and the eviction loop does not end (TLC reports `LoadEnds` violated
  for both). With 0 no array is allocated, the unsigned `0 - 1` never counts as full,
  and the search reads through the null pointer (`InBounds` is violated).
- With `AFL_KILL_SIGNAL=15` a persistent child that stops itself just as its time is
  up does not die; server and fuzzer wait for ever. With
  `child_kill_signal = "SIGTERM"` TLC reports `RunReturns` violated; `OwnResult`,
  `NoOrphans` and `StopEnds` hold with that signal too.
- The server's `at_exit` says "ensure we kill the child on termination": SIGTERM
  between the return of `fork` and the assignment of `child_pid` leaves that child
  alive (the first exception of `NoOrphans`). A server killed by something else
  just before afl-fuzz is stopped is waited for by the stop handler, and then
  afl-fuzz's `at_exit` no longer finds its process group (the second). And with
  `AFL_KILL_SIGNAL=15` `at_exit` sends nothing stronger than SIGTERM: if the server is
  dead, a child that has stopped itself stays stopped, the signal pending (the third).
- SIGKILL of afl-fuzz runs no handler: the server leaves at its next read or write
  (`ServerLeaves`), but a persistent child that has stopped itself stays stopped.
- With `AFL_NO_UNLINK` the loop of `trim_case` ends only when its writes succeed: on a
  disk that stays full it spins for ever, and does not look at `stop_soon` (the
  exception of `TrimEnds`). It also repeats a short write from the start of the
  buffer. And without it, when a second write is cut short, `ck_write` compares what
  is written with what is left (`_written + _res != _len`): of 10 bytes, writes of 3
  and 4 end the loop. The last two and the failed write are exceptions of `FileWhole`;
  the last one was found when its proof was tried for more short writes than the run then had.
- A trim whose last run times out returns no error: `trim_case` looks at the fault
  only for `FSRV_RUN_ERROR`, so a candidate that hangs with the same trace is kept.
- Built with `INTROSPECTION`, the main loop uses `prev_queued_items` to count finds
  as well, and the alias table is not made anew after them: TLC reports
  `TableCovers` violated with `INTROSPECTION = TRUE`.
- `rand_next_percent` can return 1.0; entry 0 is then drawn although it may be
  disabled (the exception of `ChosenEnabled`).
- A main node that was killed leaves `is_main_node` behind, also across a fresh
  start: secondaries go on syncing from it alone, and an elected main node steps
  down for it. `MarkTrue` therefore speaks of first sessions, and `MainElected`
  only of a mark.
- Two temporary main nodes may both step down and elect themselves again, any
  number of times; the comment in `sync_fuzzers` says only the first one does.
- A fresh start does not remove a `_resume/` that an aborted resume has left. A
  later resume takes it instead of the queue of the session in between, which is
  deleted; `NothingLost` therefore does not speak of sessions after a fresh start.

## 6. Proofs

### Queue and scores

`QueueScoreProofs` proves, for every map size, number of seeds and entries, set of
factors and schedule:

- `QueueTypes`: `Spec => []TypeOK`;
- `RefCountExact`: `Spec => []RefCount`;
- `TracesAlive`: `Spec => []MiniAlive`;
- `CountsAgree`: `Spec => []CountersAgree`;
- `FavouritesCover`: `Spec => []FavoredCover`.

The assumptions are `SizeAssumption` (sizes are naturals, there is at least one
seed and one edge) and `NullAssumption` (`NULL` is no trace).

The inductive invariant is `IInv == TypeOK /\ RefCount /\ MiniAlive /\ Control`.
None of the parts is inductive alone. `MiniAlive` needs `RefCount`, because a
trace is freed when the *count* reaches zero, not when the slots do. `RefCount`
needs the types, because the count of an entry is taken off once per slot it
loses and cardinalities must be those of finite sets. `Control` says that the dry
run's index stays within the seeds, with the first seed being the one to become
the matrix, and that there is a current entry inside `fuzz_one`; without it the
entry passed to `update_bitmap_score` need not exist.

The argument: `ScoreStep` is the heart, one call of `update_bitmap_score`. The
slots of the caller afterwards are its old ones and those it won, the slots of any
other entry are its old ones without those; the cardinalities follow from the
theorems on finite sets, and the cases of `Mini` follow from them. `ScoreCall` and
`ScoreFrame` lift this to actions that call it or leave scores alone, `NextInv`
goes through the actions.

`CountersAgree` is inductive only together with `DryCounts`: `Disable` takes both
`pending_not_fuzzed` and `active_items` down by the entries that were not marked as
fuzzed, which is right for `active_items` only because in the dry run the entries
marked and the entries disabled are the same. `DisableCounts` is that step, and
`CountsStep` goes through the actions.

`FavoredCover` rests on what the loop of `cull_queue` over the map computes.
`PicksExist` and `PickedIs` show that the recursive function `Picked` is what its
definition says, `PicksCover` that every edge with a winner is picked or missing in
the trace of a picked winner, `PicksHaveWinners` that only edges with a winner are
picked; all by the smallest index at which it would fail. `Covered` is the inductive
strengthening: the cover holds whenever no score changed, in the middle of
`fuzz_one` and before the next culling too (`cull_queue` returns early then); the dry
run gives away no slot without setting `score_changed`; and where there is a winner,
the matrix has a trace. Without the last, `update_bitmap_score` could give the
matrix its trace later, without setting `score_changed`, and the cover would be about
another trace than the one culled with.

### The coverage decrease

`CovDecreaseProofs`, for every map (up to the size at which a sum of counts would
reach `UintMax`), every set of traces the target may leave, every order of runs,
calibrations, saved inputs and stops: `TouchedByAll` (`TouchedHitByAll`),
`SmallestKept` (`MinimumAttained`), `ChangesBounded` (`CovBudget`), `NoHangKept` (the
finding `hang_samples` for every instance: no input that times out is ever kept, as
`HangsDropped` says), and the action property `OneSeedPerTrace` (`SeedsDeduped`). The
assumptions are those of `CoverageMap` (`Edges` is finite,
`UintMaxAssumption`) and of `CovDecrease` (there is a seed; `NULL` is no trace; a
calibration has at least one run and an entry one chance).

What has to be added to the four invariants: `CalOwn` and `DryOrder` say which entry
a calibration works on and which seeds are still untouched; without them a run of one
entry could change what is known of another. `Unborn` describes the time before the
matrix, when `has_few_bits` compares with a map nobody has touched. `Paid` counts a
change that a calibration has found and not yet booked, since the budget is spent and
booked in different steps. `NotSmaller` carries "no decrease seen so far" through the
runs of one calibration, which is why its end does not have to lower the minimum.
`HangMap` says that once fuzzing has begun the minimum is the size of a real trace, so
that a simplified trace, which hits every edge, is never smaller.

`OneSeedPerTrace` is about one step, the nested loop over the seeds at the end of the
dry run, and rests on an invariant of that loop: `Deduped(k, D)` says that each seed in
`D` has a substitute outside `D` with the same trace and no greater length, and that
among the first `k` seeds none outside `D` shares its trace with another seed outside
`D`. `DedupStep` is one turn of the outer loop; its hard case is a seed that is itself
disabled by a shorter twin after it has disabled others, which then all have that twin
as substitute. `DuplicatesDeduped` goes through all turns by the first that would fail.

### The test case cache

`QueueProofs`, for every size of the cache that `main` accepts, every number of entries,
all lengths and any number of slots but none: `BooksRight`
(`Accounting`), `NoHoleMissed` (`FreeSlotsFound`), `SearchInBounds` (`InBounds`),
`CurrentStays` (`CurrentPinned`), from `CacheAssumption` (`main` refuses fewer than
`2 * MAX_FILE` bytes; it does not look at the number of slots) and the hypothesis
`max_entries_init # 0`, without which the third is false (section 5). The four need each other: the search stays in the array because the counter is
exact and all used slots lie below `max_cache_count`, and the counters are exact
because the search ends at a free slot. `Entries` (what is loaded is in the queue) and
`Room` (where a load's search starts, and that there is an array, as long as
`max_entries` says) complete the invariant. `SearchEnds` is the heart.

`Accounting` speaks of a sum over a set, which the community module defines by a
recursive function. `FiniteSums` proves what is needed of it (the function exists, is
the only one, and an element more or less changes the sum by its weight). It replaces
induction by a minimal counterexample: among the numbers, or the subsets, for which the
claim fails, take a least one. That is first-order, which the provers handle.

### The alias table

`QueueProofs`, for queues of any length and any positive weights of the enabled
entries, under the hypothesis `~INTROSPECTION`: `TableCoversQueue` (`TableCovers`),
`ChancesAreRight` (`ChancesRight`), `DisabledNeverChosen` (`ChosenEnabled`). The
hypothesis is needed: with `INTROSPECTION` the first of the three is false (section 5).

The inductive invariant `AliasInv` has a part `Loop` for the main loop (when
`prev_queued_items` is the length of the queue, and that an enabled entry is left) and
a part `Table`. A finished table is `Made`: the chance of an entry, which is the sum of
what its own column and the others give it, is positive exactly if its weight is, and
proportional to it if `sum` is the sum of the weights (MMOPT doubles some weights after
the sum was taken). A table in the making is `Making`:

- the two stacks hold each index once and are apart, the small ones below the average,
  the large ones not (`StackIs`, `Popped`, `Pushed`);
- `Fair`: what an entry holds in `P` while it is on a stack, and what the finished
  columns give it, make up its due. `PairFair` shows that a turn of the loop keeps this,
  since what the large entry gives away is what the column of the small one lacks;
- the entries on the stacks hold, together, a whole column each or more; `PairBalance`
  shows that a turn takes away one entry and one column.

At the end one stack is empty. Small ones alone cannot be left, because they would hold
less than a column each (`NotAllSmall`), so with exact arithmetic the code's last loop,
which gives left-over small entries their whole column, never changes a chance; and
large ones that are left hold, if `sum` is the sum of the weights, exactly a column each
(`AllWhole`), so that giving them theirs keeps the chances (`Drained`). `DrawnHasChance` then says that an entry that is
drawn has a chance, hence a weight, hence is enabled. The sums over columns are handled
by `SumLeq`, `SumLess`, `SumScaled` and `SumConst` of `FiniteSums`.

### The crash site

`CrashSiteProofs`, for stacks of any depth and any number of seeds and entries, from
`FramesAssumption`: `ScanFindsSite` (`InnermostBelowBlocked`), `DetailsOwn`
(`DetailOwn`), `QueueAtSite` (`QueueAtMatrixSite`), `MatrixSiteStays`
(`MatrixSiteKept`) and `HeapOwned` (`BlocksOwned`), the last two for any heap. The scan is compared with its reference one line
at a time: `Scanned(lines, n)` is the reference for the first `n` lines, `ScannedNext`
shows that one more line does what `Found` does, and a first line at which they differ
cannot exist. `Place` and `Through` say which entries have their detail; `OwnFile` says
that the file still holds a stack of the entry at work when it is read, although runs,
flushes and timeouts may have changed it in between. `same_crash_site` moves the
matrix's site out of the fields, lets `find_crash_site` overwrite them, and afterwards
puts the site back by copying strings or by restoring pointers, freeing what is left
over. `Owned` says that fields and copies point to different blocks, that no other block
is in use, and that what they point to reads as the site at their offset; `AtMatrix` that
the offset is the matrix's, in the copies during a comparison and in the fields otherwise.

### The fork server

`SessionProofs`, for any number of runs, persistent or not, with SIGKILL or SIGTERM,
whether the server may die or not: `ResultsOwn` (`OwnResult`), `MapRests`
(`MapAtRest`), `OptionsAgreed` (`HandshakeAgreed`, with the types and the bound on the
pipes), `NoOrphansLeft` (`NoOrphans`), and the refinement `ImplementsTargetRun`
(`Implements`). Besides `ForkServerAssumption` these have one hypothesis,
`add_extra_func`: the fuzzer is afl-fuzz with its own server. It is needed: without it
`handshake_denied` (section 5) shows a result that is not that of its run.

The inductive invariant has fourteen parts, of which these carry the argument:

- `Control` and `Dialogue` say what can be on the two pipes for each pair of program
  counters. No pipe ever holds two requests, two replies or two pids, and a reply stands
  before a request; that is why no message is taken for another one.
- `Children`: at most one child is alive, the one in `child_pid` of the server or the
  one just forked, and a child that runs is serving the current run. `Rest`: when the
  server is not busy with a child, none runs.
- `Statuses`: the status that is about to be read is of the current run, and it says
  "crash" exactly if a child of this run crashed. This is claimed as long as the fuzzer
  still takes statuses; one that is being stopped does not read any (`Void`).
- `Innocent`: as long as nobody has asked to stop and the time is not up, no child has
  been killed or is going to die of a pending signal, except one that the server is
  going to write off before the next run. This is what `was_killed` is for: a child that
  stopped itself just before it was killed has reported a normal stop, and would die in
  the next run.
- `Agreed` and `Dictionary` follow the options from hello to reply; `Stops`, `Fresh`,
  `Returned` and `Orphans` are about the ends.

One lemma per action (`KeepRunTarget`, ...) shows that it keeps every part; the lemmas
before them say what pipes and signals do (`ControlPipe`, `StatusPipe`, `SignalIs`,
...). `KillGroupIs` says what the two `killpg` of `at_exit` leave for either signal: with
SIGKILL none that lives, with SIGTERM none that runs. For the refinement, each step is shown to be `Begin`, `TargetRuns`, `End`,
`Fail`, `Stop` or a stutter. `End` needs `Statuses` and `Innocent` (the result is the
truth about the run), `TargetRuns` needs `Children` and `Rest` (the target leaves its
mark only in its own run).

### Trimming

`TrimProofs`, for entries of any length, any bytes the target needs, any
`TRIM_MIN_BYTES`, `TRIM_START_STEPS` and `TRIM_END_STEPS`, any custom trimmer and any
number of short writes, from `LengthsAssumption` and `TrimAssumption`:
`BufferIsAccepted` (`KeptIsAccepted`), `ScoreIsOwn` (`ScoredOwn`) and `FileStaysWhole`
(`FileWhole`).

The inductive invariant has four parts. `Types` holds the types. `Traces` says where
each trimmer is and which traces it has seen: a round is entered only with gaps of at
least `TRIM_MIN_BYTES` behind as many bytes, and the file is opened only after an
accepted run. `Buffers` says that the buffer, or the custom trimmer's `out_buf`, holds
what was accepted, and that the first bytes are the entry's. `OnDisk` follows the
file: as it was, then a prefix of the buffer as long as the writes go well, then the
accepted input.

`GapMoved` is the heart of the first theorem: what `write_with_gap` puts together from
two pieces is what `memmove` leaves in the buffer. `WriteStep` is the heart of the
third: the prefix in the file and the part written make a longer prefix (`Longer`), and
the loop ends only when it is complete. `NextPow2` shows that `next_pow2` has a result
for every length; `Pow2Is` and `Pow2Grows` come first, by the smallest exponent at
which they would fail.

### Syncing

`SyncProofs`, for any finite number of fuzzers in any roles, any number of finds, trims,
kills and resumes, from `FuzzersAssumption` and `BoundsAssumption` (a queue has room for
at least the seed): `CounterIsSound` (`LookedAt`), `MarkIsTrue` (`MarkTrue`), and the
action property `ResumeKeepsAll` (`NothingLost`).

The inductive invariant is `Types`, one part `Own(f)` per fuzzer and one part
`Looked(f, g)` per pair. A step is a step of one fuzzer and leaves the directories and
the process of the others alone (`Alone`), so it has to be shown only that it keeps its
own part, its view of the others and their view of its queue. In `Own`, `Disk` and
`Process` say which files can be there, `Listed` that a listing has one name per id and
that the counter has not passed any of them, `Marked` when the file `is_main_node` is
there, and `Kept` what a resume has linked so far.

- `LookedAt`: `sync_fuzzers` counts names, it does not read ids. `Scanned` says why this
  is sound in the first session of the other fuzzer: a file that lies below the counter,
  or below a name still to come, was looked at or is still in the listing, also when
  files are trimmed away or not yet written while the scan is going on.
- `NothingLost`: in a resume a test case is in `_resume/`, in `queue/`, or in both
  (`Kept`). `_resume/` is removed only when the last input has been linked, and a kill
  before that leaves a `_resume/` that has everything `queue/` has. `Keeps(f)` is the
  property for one fuzzer; `PivotKeeps`, `FileKeeps`, `CreateKeeps` and `StartKeeps`
  show it for the actions that touch files.

Each of these invariants was checked by TLC before it was proved, on the instance of its
run (`AliasInv` with queues of at most three entries).

## 7. Only model-checked

The liveness properties (`GetReturns`, `RunReturns`, `StopEnds`, `ServerLeaves`,
`TrimEnds`, `CaughtUp`, `RealMainWins`, `MainElected`) stay with TLC for good: the prover
does not handle fairness. The runs that show a violation (section 5) are counterexamples
on small instances, which is all they need to be.

## 8. Not modelled

- Mutation stages of `fuzz_one`, MOpt, cmplog and redqueen: they turn bytes into
  other bytes. All that matters outside them is which input is run next, and that
  is arbitrary in `CovDecrease`.
- Dictionaries (`afl-fuzz-extras.c`): arrays of tokens that only mutations read.
- `compute_weight` and `calculate_score`: floating point formulas whose results are
  any positive weight in `AliasTable`.
- Statistics and the user interface: output only.
- Compiler wrappers and passes, stand-alone tools, and the binary-only modes (frida,
  QEMU, unicorn, Nyx): code generation, single-purpose programs, and third-party
  back ends. Their product is the arbitrary trace of a run.
- Vendored code (radamsa, dlmalloc, xxhash and the like), which is most of the
  repository's lines.

Within modelled parts: the schedule RARE (its factor depends on `n_fuzz`), a test
case cache that is switched off, the fauxserver, the snapshot module and Nyx, the
32-bit and vectorised variants of the map loops, failed `malloc` or `open` (all
`FATAL`), short reads of files, foreign sync directories (`-F`), the refusal to
start in a directory that another running fuzzer has locked or that holds more
than 25 minutes of work, and the wording of file names.
