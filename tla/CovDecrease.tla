---------------------------- MODULE CovDecrease ----------------------------
(***************************************************************************)
(* The coverage-decrease loop of IgorFuzz: the dry run that gives birth to *)
(* the testcase matrix, calibrate_case, and save_if_interesting, which     *)
(* keeps a crashing input only when has_few_bits reports a decrease.       *)
(*                                                                         *)
(* Every run of the target is a choice from Runs: a fault and a raw trace. *)
(* The same input may give different traces from run to run.  hash64 is    *)
(* taken to be injective, so a checksum is the classified trace itself.    *)
(* The crash site of a run (crash_mode LV3) is a choice here; CrashSite    *)
(* models how it is found.                                                 *)
(***************************************************************************)
EXTENDS CoverageMap, TLC

CONSTANTS
  Runs,            \* what the target may do: records [fault, trace]
  Seeds,           \* number of initial test cases
  SeedLen,         \* length of each initial test case
  MaxEntries,      \* bound: entries the queue may hold
  MaxExecs,        \* bound: executions of mutated inputs
  CAL_CYCLES, CAL_CYCLES_LONG, CAL_CHANCES,
  timeout_given,   \* -t was given
  crash_mode_lv3,  \* -CCC: only crashes at the matrix's crash site count
  NULL

Fault == {"OK", "TMOUT", "CRASH", "ERROR", "NOINST"}
Ids == 1..MaxEntries

ASSUME RunsAssumption == Runs \subseteq [fault : Fault \ {"NOINST"}, trace : Trace]
ASSUME BoundsAssumption ==
  /\ Seeds \in Nat \ {0} /\ MaxEntries \in Nat /\ Seeds <= MaxEntries
  /\ SeedLen \in [1..Seeds -> Nat]
  /\ MaxExecs \in Nat
  /\ CAL_CYCLES \in Nat \ {0} /\ CAL_CYCLES_LONG \in Nat /\ CAL_CYCLES <= CAL_CYCLES_LONG
  /\ CAL_CHANCES \in Nat \ {0}
  /\ timeout_given \in BOOLEAN /\ crash_mode_lv3 \in BOOLEAN
ASSUME NullAssumption == NULL \notin Trace

VARIABLES
  queue,            \* queue_buf: what calibration records about each entry
  queued_items,
  queued_with_cov,
  testcase_matrix,  \* 0 before its birth, then an entry
  trace_bits, actual_counts, first_trace,
  virgin_bits, virgin_tmout, var_bytes,
  min_bitmap_size, min_actual_cnts,
  cal,              \* the locals of calibrate_case
  fault,            \* result of the execution save_if_interesting looks at
  idx, cal_failures,\* the locals of perform_dry_run
  execs, stop_soon, pc

mapVars   == <<trace_bits, actual_counts, first_trace, virgin_bits, virgin_tmout, var_bytes>>
minVars   == <<min_bitmap_size, min_actual_cnts>>
queueVars == <<queue, queued_items, queued_with_cov, testcase_matrix>>
dryVars   == <<idx, cal_failures>>
vars == <<mapVars, minVars, queueVars, fault, dryVars, cal, execs, stop_soon, pc>>

Entry == [exec_cksum : Trace \cup {NULL}, cal_failed : Nat, bitmap_size : Nat,
          has_new_cov : BOOLEAN, var_behavior : BOOLEAN, disabled : BOOLEAN]

NewEntry == [exec_cksum |-> NULL, cal_failed |-> 0, bitmap_size |-> 0,
             has_new_cov |-> FALSE, var_behavior |-> FALSE, disabled |-> FALSE]

ZeroTrace == [e \in Edges |-> 0]

HasMatrix == testcase_matrix # 0

FewBits(m, t, v, counts) ==
  has_few_bits(m, t, v, counts, min_bitmap_size, min_actual_cnts)

\* few_bits == 0x10 || few_bits == 0x00
Boring(code) == code \in {0, 16}

Init ==
  /\ queue = [q \in Ids |-> NewEntry] /\ queued_items = Seeds
  /\ queued_with_cov = 0 /\ testcase_matrix = 0
  /\ trace_bits = ZeroTrace /\ actual_counts = 0 /\ first_trace = ZeroTrace
  /\ virgin_bits = [e \in Edges |-> Virgin]
  /\ virgin_tmout = [e \in Edges |-> Virgin]
  /\ var_bytes = {}
  /\ min_bitmap_size = UintMax /\ min_actual_cnts = UintMax
  /\ cal = [q |-> 1, caller |-> "dry", new_bits |-> 0, var |-> FALSE,
            cur |-> 0, max |-> 0, fault |-> "OK"]
  /\ fault = "OK"
  /\ idx = 1 /\ cal_failures = 0
  /\ execs = 0 /\ stop_soon = FALSE /\ pc = "dry"

----------------------------------------------------------------------------
(* calibrate_case                                                          *)

\* MUTANT of Combine: the last code wins.
Combine_Last(new_bits, hnb) == hnb

\* The larger of two codes, except that any decrease replaces what was there.
Combine(new_bits, hnb) == IF hnb > 16 \/ hnb > new_bits THEN hnb ELSE new_bits

\* Entry of calibrate_case(q), with the queue Q, matrix flag m, trace t and
\* virgin map v its caller leaves.
CalEnter(Q, m, q, from, t, counts, v) ==
  LET known == Q[q].exec_cksum # NULL
      few   == FewBits(m, t, v, counts)
  IN  /\ queue' = [Q EXCEPT ![q].cal_failed = @ + 1]
      /\ first_trace' = IF known THEN t ELSE first_trace
      /\ virgin_bits' = IF known THEN few.virgin ELSE v
      /\ cal' = [q |-> q, caller |-> from, var |-> FALSE,
                 new_bits |-> IF known THEN Combine(0, few.ret) ELSE 0,
                 cur |-> 0, max |-> CAL_CYCLES, fault |-> "OK"]
      /\ pc' = "cal"

\* abort_calibration: note new coverage and variable behaviour, return f.
CalLeave(Q, f) ==
  LET q   == cal.q
      cov == CovBit(cal.new_bits) /\ ~Q[q].has_new_cov
  IN  /\ queue' = [Q EXCEPT ![q].has_new_cov = @ \/ cov,
                            ![q].var_behavior = @ \/ cal.var]
      /\ queued_with_cov' = queued_with_cov + Flag(cov)
      /\ cal' = [cal EXCEPT !.fault = f]
      /\ pc' = "ret"

\* The target did not crash, or left no coverage on the first run: abort.
CalRunFailed(r) ==
  /\ trace_bits' = r.trace
  /\ \/ /\ stop_soon \/ r.fault # "CRASH"
        /\ CalLeave(queue, r.fault)
     \/ /\ ~stop_soon /\ r.fault = "CRASH"
        /\ cal.cur = 0 /\ count_bytes(r.trace) = 0
        /\ CalLeave(queue, "NOINST")
  /\ UNCHANGED <<actual_counts, first_trace, virgin_bits, virgin_tmout, var_bytes>>

\* A crash: classify it and compare it with what is known of the entry.
CalRunCrashed(r) ==
  LET t     == classify_counts(r.trace)
      q     == cal.q
      sum   == queue[q].exec_cksum
      few   == FewBits(HasMatrix, t, virgin_bits, sum_word(r.trace))
      moved == {e \in Edges \ var_bytes : first_trace[e] # t[e]}
      code  == Combine(cal.new_bits, few.ret)
  IN  /\ ~stop_soon /\ r.fault = "CRASH"
      /\ cal.cur > 0 \/ count_bytes(r.trace) > 0
      /\ trace_bits' = t /\ actual_counts' = sum_word(r.trace)
      /\ \/ /\ sum = t
            /\ cal' = [cal EXCEPT !.cur = @ + 1]
            /\ UNCHANGED <<queue, first_trace, virgin_bits, var_bytes>>
         \/ /\ sum # t /\ sum # NULL
            /\ var_bytes' = var_bytes \cup moved
            /\ virgin_bits' = [e \in Edges |-> IF e \in moved THEN {} ELSE few.virgin[e]]
            /\ cal' = [cal EXCEPT !.cur = @ + 1, !.new_bits = code,
                                  !.var = TRUE, !.max = CAL_CYCLES_LONG]
            /\ UNCHANGED <<queue, first_trace>>
         \/ /\ sum = NULL
            /\ queue' = [queue EXCEPT ![q].exec_cksum = t]
            /\ first_trace' = t
            /\ virgin_bits' = few.virgin
            /\ cal' = [cal EXCEPT !.cur = @ + 1, !.new_bits = code]
            /\ UNCHANGED var_bytes
      /\ UNCHANGED <<virgin_tmout, queued_with_cov, pc>>

CalRun(r) ==
  /\ pc = "cal" /\ cal.cur < cal.max
  /\ CalRunFailed(r) \/ CalRunCrashed(r)
  /\ UNCHANGED <<minVars, queued_items, testcase_matrix, fault, dryVars, execs, stop_soon>>

\* All runs done: record the size and, after a decrease, the new minima.
CalEnd ==
  LET size == count_bytes(trace_bits)
      fewer == cal.new_bits > 16
  IN  /\ pc = "cal" /\ cal.cur >= cal.max
      /\ min_bitmap_size' = IF fewer /\ size < min_bitmap_size
                            THEN size ELSE min_bitmap_size
      /\ min_actual_cnts' = IF fewer /\ actual_counts < min_actual_cnts
                            THEN actual_counts ELSE min_actual_cnts
      /\ CalLeave([queue EXCEPT ![cal.q].bitmap_size = size, ![cal.q].cal_failed = 0],
                  "CRASH")
      /\ UNCHANGED <<mapVars, queued_items, testcase_matrix, fault, dryVars,
                     execs, stop_soon>>

----------------------------------------------------------------------------
(* perform_dry_run                                                         *)

DryRunSeed ==
  /\ pc = "dry" /\ idx <= queued_items
  /\ CalEnter(queue, HasMatrix, idx, "dry", trace_bits, actual_counts, virgin_bits)
  /\ UNCHANGED <<trace_bits, actual_counts, virgin_tmout, var_bytes, minVars, queued_items,
                 queued_with_cov, testcase_matrix, fault, dryVars, execs, stop_soon>>

\* The first seed calibrated becomes the matrix, whatever its result was, and
\* is calibrated again.
MatrixBirth ==
  /\ pc = "ret" /\ cal.caller = "dry" /\ ~HasMatrix
  /\ testcase_matrix' = cal.q
  /\ CalEnter(queue, TRUE, cal.q, "dry", trace_bits, actual_counts, virgin_bits)
  /\ UNCHANGED <<trace_bits, actual_counts, virgin_tmout, var_bytes, minVars, queued_items,
                 queued_with_cov, fault, dryVars, execs, stop_soon>>

\* The switch on the result of a seed; in LV3 a seed whose crash site is not
\* the matrix's is disabled.
DryRunResult ==
  LET q == cal.q
      skipped == cal.fault = "TMOUT" /\ timeout_given
      mayDiffer == crash_mode_lv3 /\ q # testcase_matrix
  IN  /\ pc = "ret" /\ cal.caller = "dry" /\ HasMatrix
      /\ \/ /\ stop_soon
            /\ pc' = "stop"
            /\ UNCHANGED <<queue, dryVars>>
         \/ /\ ~stop_soon /\ cal.fault # "CRASH" /\ ~skipped
            /\ pc' = "fatal"
            /\ UNCHANGED <<queue, dryVars>>
         \/ /\ ~stop_soon /\ (cal.fault = "CRASH" \/ skipped)
            /\ \E other \in IF mayDiffer THEN BOOLEAN ELSE {FALSE} :
                 queue' = [queue EXCEPT
                   ![q].cal_failed = IF skipped THEN CAL_CHANCES ELSE @,
                   ![q].disabled = @ \/ skipped \/ other]
            /\ cal_failures' = cal_failures + Flag(skipped)
            /\ idx' = idx + 1
            /\ pc' = "dry"
      /\ UNCHANGED <<mapVars, minVars, queued_items, queued_with_cov, testcase_matrix,
                     fault, cal, execs, stop_soon>>

\* Seeds that take part in the search for duplicate traces.
Eligible(q) == ~queue[q].disabled /\ queue[q].cal_failed = 0 /\ queue[q].exec_cksum # NULL

\* Later seeds with the checksum of q, D being disabled already.
Twins(q, D) == {p \in (q + 1)..Seeds : /\ p \notin D /\ Eligible(p)
                                       /\ queue[p].exec_cksum = queue[q].exec_cksum}

\* MUTANT of Dedup: the longer file is kept.
Dedup_Longer(q, D) ==
  LET longer == {p \in Twins(q, D) : SeedLen[p] > SeedLen[q]}
  IN  IF q \in D \/ ~Eligible(q) THEN D
      ELSE IF longer = {} THEN D \cup Twins(q, D)
      ELSE D \cup {q} \cup {p \in Twins(q, D) : p < Min(longer)}

\* q disables its twins one after the other, until a shorter one disables q.
Dedup(q, D) ==
  LET shorter == {p \in Twins(q, D) : SeedLen[p] < SeedLen[q]}
  IN  IF q \in D \/ ~Eligible(q) THEN D
      ELSE IF shorter = {} THEN D \cup Twins(q, D)
      ELSE D \cup {q} \cup {p \in Twins(q, D) : p < Min(shorter)}

\* The seeds disabled after the first q of them went through Dedup.
Duplicates[q \in 0..Seeds] == IF q = 0 THEN {} ELSE Dedup(q, Duplicates[q - 1])

\* The end of the dry run, and the check of main that a seed is left.
DryRunEnd ==
  LET dup  == Duplicates[Seeds]
      left == {q \in 1..Seeds \ dup : ~queue[q].disabled}
  IN  /\ pc = "dry" /\ idx > queued_items
      /\ \/ /\ cal_failures = queued_items
            /\ pc' = "fatal"
            /\ UNCHANGED queue
         \/ /\ cal_failures < queued_items
            /\ queue' = [q \in Ids |-> [queue[q] EXCEPT !.disabled = @ \/ q \in dup]]
            /\ pc' = IF left = {} THEN "fatal" ELSE "idle"
      /\ UNCHANGED <<mapVars, minVars, queued_items, queued_with_cov, testcase_matrix,
                     fault, dryVars, cal, execs, stop_soon>>

----------------------------------------------------------------------------
(* Fuzzing: common_fuzz_stuff, save_if_interesting, and the retry of a     *)
(* failed calibration in fuzz_one.                                         *)

\* One execution of a mutated input.  Bailing out (SIGUSR1, too many timeouts
\* in a row, AFL_IGNORE_TIMEOUTS) leaves only the raw trace behind.
FuzzRun(r) ==
  /\ pc = "idle" /\ ~stop_soon /\ execs < MaxExecs
  /\ execs' = execs + 1
  /\ trace_bits' = r.trace
  /\ fault' = r.fault
  /\ pc' \in {"idle", "save"}
  /\ UNCHANGED <<actual_counts, first_trace, virgin_bits, virgin_tmout, var_bytes, minVars,
                 queueVars, dryVars, cal, stop_soon>>

\* The trace save_if_interesting compares, and its hit counts.  (A schedule
\* from FAST to RARE classifies earlier, with the same result.)
SaveTrace == classify_counts(trace_bits)
SaveCounts == sum_word(trace_bits)

HangBits == FewBits(HasMatrix, simplify_trace(SaveTrace), virgin_tmout, SaveCounts)

\* A timeout: its simplified trace is compared with the hang map, and the
\* input is dropped.  The code after that, which runs the input again and saves
\* it, is never reached: NoHangKept of CovDecreaseProofs.
SaveTmout ==
  /\ pc = "save" /\ fault = "TMOUT"
  /\ Boring(HangBits.ret)
  /\ trace_bits' = simplify_trace(SaveTrace) /\ actual_counts' = SaveCounts
  /\ virgin_tmout' = HangBits.virgin
  /\ pc' = "idle"
  /\ UNCHANGED <<first_trace, virgin_bits, var_bytes, minVars, queueVars, fault, dryVars,
                 cal, execs, stop_soon>>

CrashBits == FewBits(HasMatrix, SaveTrace, virgin_bits, SaveCounts)

\* LV3: another crash site, so the input is dropped before its trace is used.
SaveCrashElsewhere ==
  /\ pc = "save" /\ fault = "CRASH" /\ crash_mode_lv3
  /\ pc' = "idle"
  /\ UNCHANGED <<mapVars, minVars, queueVars, fault, dryVars, cal, execs, stop_soon>>

\* No decrease: the trace stays classified, nothing else changes.
SaveCrashBoring ==
  /\ pc = "save" /\ fault = "CRASH" /\ Boring(CrashBits.ret)
  /\ trace_bits' = SaveTrace /\ actual_counts' = SaveCounts
  /\ virgin_bits' = CrashBits.virgin
  /\ pc' = "idle"
  /\ UNCHANGED <<first_trace, virgin_tmout, var_bytes, minVars, queueVars, fault,
                 dryVars, cal, execs, stop_soon>>

\* A decrease: queue the input and calibrate it.
SaveCrash ==
  LET q   == queued_items + 1
      cov == CovBit(CrashBits.ret)
      new == [NewEntry EXCEPT !.exec_cksum = SaveTrace, !.has_new_cov = cov]
  IN  /\ pc = "save" /\ fault = "CRASH" /\ ~Boring(CrashBits.ret)
      /\ q <= MaxEntries
      /\ trace_bits' = SaveTrace /\ actual_counts' = SaveCounts
      /\ queued_items' = q
      /\ queued_with_cov' = queued_with_cov + Flag(cov)
      /\ CalEnter([queue EXCEPT ![q] = new], HasMatrix, q, "save",
                  SaveTrace, SaveCounts, CrashBits.virgin)
      /\ UNCHANGED <<virgin_tmout, var_bytes, minVars, testcase_matrix, fault, dryVars,
                     execs, stop_soon>>

\* Nothing to save, or the fork server is gone.
SaveOther ==
  /\ pc = "save" /\ fault \in {"OK", "ERROR"}
  /\ pc' = IF fault = "ERROR" THEN "fatal" ELSE "idle"
  /\ UNCHANGED <<mapVars, minVars, queueVars, fault, dryVars, cal, execs, stop_soon>>

\* fuzz_one tries a failed calibration again, from scratch.
FuzzOneRecalibrate(q) ==
  /\ pc = "idle" /\ ~stop_soon /\ q <= queued_items
  /\ ~queue[q].disabled /\ queue[q].cal_failed \in 1..(CAL_CHANCES - 1)
  /\ CalEnter([queue EXCEPT ![q].exec_cksum = NULL], HasMatrix, q, "one",
              trace_bits, actual_counts, virgin_bits)
  /\ UNCHANGED <<trace_bits, actual_counts, virgin_tmout, var_bytes, minVars, queued_items,
                 queued_with_cov, testcase_matrix, fault, dryVars, execs, stop_soon>>

CalReturn ==
  /\ pc = "ret" /\ cal.caller \in {"save", "one"}
  /\ pc' = IF cal.fault = "ERROR" THEN "fatal" ELSE "idle"
  /\ UNCHANGED <<mapVars, minVars, queueVars, fault, dryVars, cal, execs, stop_soon>>

\* handle_stop_sig runs between any two steps.
HandleStopSig ==
  /\ ~stop_soon /\ pc \notin {"stop", "fatal"}
  /\ stop_soon' = TRUE
  /\ UNCHANGED <<mapVars, minVars, queueVars, fault, dryVars, cal, execs, pc>>

Stop ==
  /\ pc = "idle" /\ stop_soon
  /\ pc' = "stop"
  /\ UNCHANGED <<mapVars, minVars, queueVars, fault, dryVars, cal, execs, stop_soon>>

Next ==
  \/ \E r \in Runs : CalRun(r) \/ FuzzRun(r)
  \/ CalEnd \/ DryRunSeed \/ MatrixBirth \/ DryRunResult \/ DryRunEnd
  \/ SaveTmout \/ SaveCrashElsewhere \/ SaveCrashBoring \/ SaveCrash \/ SaveOther
  \/ \E q \in Ids : FuzzOneRecalibrate(q)
  \/ CalReturn \/ HandleStopSig \/ Stop

Spec == Init /\ [][Next]_vars

----------------------------------------------------------------------------
(* Properties                                                              *)

CalLocals == [q : Ids, caller : {"dry", "save", "one"}, new_bits : 0..23, var : BOOLEAN,
              cur : Nat, max : Nat, fault : Fault]

\* Type invariant of the dry run, calibrate_case and save_if_interesting.
TypeOK ==
  /\ queue \in [Ids -> Entry] /\ queued_items \in Seeds..MaxEntries
  /\ queued_with_cov \in Nat /\ testcase_matrix \in 0..MaxEntries
  /\ trace_bits \in Trace /\ first_trace \in Trace /\ actual_counts \in Nat
  /\ virgin_bits \in VirginMap /\ virgin_tmout \in VirginMap /\ var_bytes \subseteq Edges
  /\ min_bitmap_size \in 0..UintMax /\ min_actual_cnts \in 0..UintMax
  /\ cal \in CalLocals /\ fault \in Fault
  /\ idx \in Nat \ {0} /\ cal_failures \in Nat /\ execs \in 0..MaxExecs
  /\ stop_soon \in BOOLEAN
  /\ pc \in {"dry", "cal", "ret", "idle", "save", "stop", "fatal"}

Known(q) == q <= queued_items /\ queue[q].exec_cksum # NULL
Calibrated == {q \in Ids : Known(q) /\ queue[q].cal_failed = 0}

\* Once the matrix is born, an edge that virgin_bits holds as touched, and that
\* calibration has not marked variable, is hit by the recorded trace of every
\* queue entry: has_few_bits forgets an edge as soon as one entry loses it.
TouchedHitByAll ==
  \A q \in Ids : Known(q) =>
    Touched(virgin_bits) \ var_bytes \subseteq HitEdges(queue[q].exec_cksum)

\* After any mix of aborted, repeated and unstable calibrations,
\* min_bitmap_size is the smallest bitmap size of a calibrated entry: no
\* smaller entry slipped by, and no entry that failed calibration lowered it.
MinimumAttained ==
  HasMatrix => min_bitmap_size = Min({UintMax} \cup {queue[q].bitmap_size : q \in Calibrated})

\* Entries that claim a coverage change are paid for: each takes an edge from
\* the touched set, and an edge comes back only when calibration marks it
\* variable, which happens once per edge.  So the queue cannot fill with
\* "-cov" entries for ever.  (With the types.)
CovBudget ==
  /\ TypeOK
  /\ queued_with_cov <= 1 + Cardinality(Edges \ Touched(virgin_bits)) + Cardinality(var_bytes)

\* The dry run ends with exactly one enabled seed per trace, a shortest one,
\* whatever the order and the lengths of the seeds are.
SeedsDeduped ==
  [][pc = "dry" /\ pc' = "idle" =>
       \A q \in {q \in 1..Seeds : Eligible(q)} :
         LET same == {p \in 1..Seeds : Eligible(p) /\ queue[p].exec_cksum = queue[q].exec_cksum}
             kept == {p \in same : ~queue'[p].disabled}
         IN  Cardinality(kept) = 1 /\ \A k \in kept, p \in same : SeedLen[k] <= SeedLen[p]]_vars

\* What the comment on timeouts promises: "we're still obliged to keep a handful
\* of samples", with "the presence of new bits in the hang-specific bitmap as a
\* signal of uniqueness".  So a timeout whose simplified trace has bits the hang
\* map has not seen is not dropped.
NewHangKept ==
  pc = "save" /\ fault = "TMOUT" /\ has_new_bits(simplify_trace(SaveTrace), virgin_tmout).ret # 0
    => ~Boring(HangBits.ret)

=============================================================================
