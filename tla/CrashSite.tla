----------------------------- MODULE CrashSite ------------------------------
(***************************************************************************)
(* The crash site of an input: the call-stack file that the target writes  *)
(* in __asan_on_error, find_crash_site, same_crash_site, and where the dry *)
(* run and save_if_interesting use them.                                   *)
(*                                                                         *)
(* A stack is a sequence of frames, innermost first.  A frame that the     *)
(* symbolizer knows is a crash site.  It stands for its offset in the      *)
(* target (frames of other modules are blocked); the symbolizer may know a *)
(* function for it, or none.  The fields crash_symbol and crash_module are *)
(* pointers to blocks of the heap that find_crash_site allocates and its   *)
(* callers free.                                                           *)
(***************************************************************************)
EXTENDS Integers, Sequences, FiniteSetsExt

CONSTANTS
  BlockedFrames,   \* of another module, or of a sanitizer function
  SiteFrames,      \* of the target, known to the symbolizer (n_sym > 0)
  OtherFrames,     \* of the target, unknown to the symbolizer
  Func,            \* for each known frame its function, NULL if func is null
  target_path,     \* the text of the target's path
  Blocks,          \* the heap
  MaxDepth,        \* bound: frames of a stack
  Seeds,
  MaxEntries,      \* bound: entries the queue may hold
  always_reports,  \* every crash is reported by ASan, hence writes the file
  NULL             \* no site, no stack, no block

Frames == BlockedFrames \cup SiteFrames \cup OtherFrames

ASSUME FramesAssumption ==
  /\ NULL \notin Frames /\ BlockedFrames \cap (SiteFrames \cup OtherFrames) = {}
  /\ SiteFrames \cap OtherFrames = {} /\ BlockedFrames # {}
  /\ DOMAIN Func = SiteFrames /\ target_path # NULL /\ NULL \notin Blocks
  /\ MaxDepth \in Nat \ {0} /\ Seeds \in Nat \ {0} /\ MaxEntries \in Nat
  /\ Seeds <= MaxEntries /\ always_reports \in BOOLEAN

Ids == 1..MaxEntries

\* What the target may write: the printer's own frame is on top of the stack.
\* NULL in a file is a line without @PATH.
Stacks == {s \in UNION {[1..n -> Frames] : n \in 1..MaxDepth} : s[1] \in BlockedFrames}

VARIABLES
  crash_mode_lv3, \* an option: -CCC, else -C or -CC
  file,          \* the call-stack file, <<>> if there is none
  crash,         \* fsrv.crash_symbol, crash_module and crash_offset
  tmp,           \* tmp_sym, tmp_mod and tmp_ofs of same_crash_site
  heap,          \* the text in each block, NULL if the block is free
  same,          \* what same_crash_site returned, TRUE where it is not called
  queued_items,
  disabled,
  detail,        \* for each entry, the lines written to README.txt
  ran,           \* ghost: for each entry, the sites of its reported runs
  matrix,        \* ghost: the site of the matrix at its birth
  fault,         \* result of the run, or of the calibration
  cur, caller, pc

entries == <<crash_mode_lv3, queued_items, disabled, detail>>
fields  == <<crash, tmp, heap, same, matrix>>
vars    == <<entries, fields, file, ran, fault, cur, caller, pc>>

----------------------------------------------------------------------------
(* find_crash_site                                                         *)

\* The site of a stack, stated without the scan: the innermost frame known
\* below every blocked frame.
SiteOf(s) ==
  LET blocked == Max({0} \cup {i \in DOMAIN s : s[i] \in BlockedFrames})
      below   == {i \in DOMAIN s : i > blocked /\ s[i] \in SiteFrames}
  IN  IF below = {} THEN NULL ELSE s[Min(below)]

\* MUTANT of Found: the outermost frame known wins.
Found_Outermost(f, found) ==
  IF f \in BlockedFrames THEN NULL ELSE IF f \in SiteFrames THEN f ELSE found

\* One line: a blocked frame drops what was found above it, and the first
\* frame known after it is kept.
Found(f, found) ==
  IF f \in BlockedFrames THEN NULL
  ELSE IF f \in SiteFrames /\ found = NULL THEN f ELSE found

find_crash_site(lines) ==
  LET scan[n \in 0..Len(lines)] == IF n = 0 THEN NULL ELSE Found(lines[n], scan[n - 1])
  IN  scan[Len(lines)]

\* The flush: one newline over the first byte, which spoils the first line.
Flushed(lines) == IF lines = <<>> THEN <<>> ELSE [lines EXCEPT ![1] = NULL]

\* The three fields, without a site, and the blocks they point to.
NoSite == [symbol |-> NULL, module |-> NULL, offset |-> NULL]
Ptrs(c) == {c.symbol, c.module} \ {NULL}

\* The heap after ck_free of blocks.
Free(h, blocks) == [b \in Blocks |-> IF b \in blocks THEN NULL ELSE h[b]]

\* The texts of a site: its function, if there is one, and its module.
SymbolOf(site) == IF site = NULL THEN NULL ELSE Func[site]
ModuleOf(site) == IF site = NULL THEN NULL ELSE target_path

\* The call of find_crash_site with a heap h: the fields are overwritten, and
\* the texts of what is found copied to free blocks.  (What the scan copies and
\* drops, it frees.)
FindSite(h) ==
  LET found == find_crash_site(file)
  IN  \E s, m \in Blocks :
        /\ s # m /\ h[s] = NULL /\ h[m] = NULL
        /\ heap' = [h EXCEPT ![s] = SymbolOf(found), ![m] = ModuleOf(found)]
        /\ crash' = [symbol |-> IF SymbolOf(found) = NULL THEN NULL ELSE s,
                     module |-> IF found = NULL THEN NULL ELSE m,
                     offset |-> found]

\* The line that write_crash_detail writes for fields c: @ADDR and @FUNC (which
\* -C leaves out).
Line(c, h) == [addr |-> IF c.module = NULL THEN NULL ELSE <<h[c.module], c.offset>>,
               func |-> IF c.symbol = NULL THEN NULL ELSE h[c.symbol]]

\* The line of an entry that crashed at a site.
LineOf(site) == [addr |-> IF site = NULL THEN NULL ELSE <<target_path, site>>,
                 func |-> SymbolOf(site)]

----------------------------------------------------------------------------
(* Runs of the target                                                      *)

Init ==
  /\ crash_mode_lv3 \in BOOLEAN
  /\ file = <<>> /\ crash = NoSite /\ tmp = NoSite /\ heap = [b \in Blocks |-> NULL]
  /\ same = TRUE /\ queued_items = Seeds /\ disabled = {}
  /\ detail = [q \in Ids |-> <<>>] /\ ran = [q \in Ids |-> {}] /\ matrix = NULL
  /\ fault = "CRASH" /\ cur = 1 /\ caller = "matrix" /\ pc = "cal"

\* A run for entry q crashes, or is killed for its time, maybe while it writes
\* the file.  Either may come without a report.
Run(q) ==
  /\ fault' \in {"CRASH", "TMOUT"}
  /\ \/ \E s \in Stacks \cup (IF fault' = "TMOUT" THEN {<<>>} ELSE {}) :
          /\ file' = s
          /\ ran' = [ran EXCEPT ![q] = @ \cup {SiteOf(s)}]
     \/ /\ ~always_reports \/ fault' = "TMOUT"
        /\ UNCHANGED <<file, ran>>

\* calibrate_case: more runs as long as they crash.
CalRun ==
  /\ pc = "cal" /\ Run(cur)
  /\ pc' \in IF fault' = "CRASH" THEN {"cal", "ret"} ELSE {"ret"}
  /\ UNCHANGED <<entries, fields, cur, caller>>

\* An input of a stage runs as if it were the next entry, and crashes or not.
FuzzRun ==
  LET q == queued_items + 1
  IN  /\ pc = "idle" /\ q <= MaxEntries
      /\ Run(q)
      /\ cur' = q /\ caller' = "input"
      /\ pc' = IF fault' = "CRASH" THEN "ret" ELSE "drop"
      /\ UNCHANGED <<entries, fields>>

\* The matrix is born: in LV3 its site is kept for ever, without a flush.
MatrixSite ==
  /\ pc = "ret" /\ caller = "matrix"
  /\ IF crash_mode_lv3 THEN FindSite(heap) /\ matrix' = crash'.offset
                       ELSE UNCHANGED <<crash, heap, matrix>>
  /\ caller' = "seed"
  /\ UNCHANGED <<entries, tmp, same, file, ran, fault, cur, pc>>

----------------------------------------------------------------------------
(* The site of a seed, an input or a new entry                             *)

\* The dry run disables a seed that times out.  (One that runs through ends the
\* fuzzer.)
SeedResult ==
  disabled' = IF caller = "seed" /\ fault = "TMOUT" THEN disabled \cup {cur} ELSE disabled

\* -C and -CC: the fields are freed, and the site of the entry found.
NewSite ==
  /\ pc = "ret" /\ caller \in {"seed", "entry"} /\ ~crash_mode_lv3
  /\ FindSite(Free(heap, Ptrs(crash)))
  /\ file' = Flushed(file) /\ same' = TRUE /\ pc' = "back"
  /\ SeedResult
  /\ UNCHANGED <<crash_mode_lv3, tmp, matrix, queued_items, detail, ran, fault, cur, caller>>

\* same_crash_site, up to the return of find_crash_site.
FindOther ==
  /\ pc = "ret" /\ caller # "matrix" /\ crash_mode_lv3
  /\ tmp' = crash /\ FindSite(heap)
  /\ file' = Flushed(file) /\ pc' = "cmp"
  /\ SeedResult
  /\ UNCHANGED <<crash_mode_lv3, same, matrix, queued_items, detail, ran, fault, cur, caller>>

SameSite ==
  /\ tmp.offset = crash.offset
  /\ (tmp.module = NULL) = (crash.module = NULL)
  /\ tmp.module # NULL => heap[tmp.module] = heap[crash.module]

\* MUTANT of Restored: the offset is not restored.
Restored_Pointers == [tmp EXCEPT !.offset = crash.offset]

\* The fields after a difference.
Restored == tmp

\* MUTANT of Dropped: after a difference the symbol is not freed.
Dropped_Module == IF SameSite THEN Ptrs(tmp) ELSE {crash.module} \ {NULL}

\* The blocks that are freed: those of the old fields, or after a difference
\* those of the new.
Dropped == IF SameSite THEN Ptrs(tmp) ELSE Ptrs(crash)

\* The rest of same_crash_site.  After a difference it writes the detail of a
\* seed or an entry, and discards a seed.  (For an input q is NULL.)
CompareSite ==
  /\ pc = "cmp"
  /\ same' = SameSite
  /\ crash' = IF SameSite THEN crash ELSE Restored
  /\ heap' = Free(heap, Dropped)
  /\ detail' = IF ~SameSite /\ caller # "input"
               THEN [detail EXCEPT ![cur] = Append(@, Line(crash, heap))] ELSE detail
  /\ disabled' = IF ~SameSite /\ caller = "seed" THEN disabled \cup {cur} ELSE disabled
  /\ tmp' = NoSite /\ pc' = "back"
  /\ UNCHANGED <<crash_mode_lv3, file, matrix, queued_items, ran, fault, cur, caller>>

----------------------------------------------------------------------------
(* The callers                                                             *)

\* MUTANT of CallerWrites: the detail is written in any case.
CallerWrites_Always == TRUE

\* The caller writes the detail that same_crash_site has not written
\* (crash_detail_saved).
CallerWrites == same

Written == IF CallerWrites THEN [detail EXCEPT ![cur] = Append(@, Line(crash, heap))] ELSE detail

\* perform_dry_run: the end of a seed.
SeedDetail ==
  /\ pc = "back" /\ caller = "seed"
  /\ detail' = Written
  /\ cur' = cur + 1 /\ pc' = IF cur < Seeds THEN "cal" ELSE "idle"
  /\ UNCHANGED <<crash_mode_lv3, queued_items, disabled, fields, file, ran, fault, caller>>

\* MUTANT of MayQueue: the site does not matter.
MayQueue_Always == TRUE

MayQueue == crash_mode_lv3 => same

\* save_if_interesting: an input with a decrease (a choice here) is queued and
\* calibrated, in LV3 if the site is the same.
SaveCrash ==
  /\ caller = "input" /\ pc = IF crash_mode_lv3 THEN "back" ELSE "ret"
  /\ \/ pc' = "drop" /\ UNCHANGED <<queued_items, caller>>
     \/ /\ MayQueue
        /\ queued_items' = cur /\ caller' = "entry" /\ pc' = "cal"
  /\ UNCHANGED <<crash_mode_lv3, disabled, detail, fields, file, ran, fault, cur>>

\* The input is gone (and its ghost with it).
Drop ==
  /\ pc = "drop"
  /\ ran' = [ran EXCEPT ![cur] = {}] /\ pc' = "idle"
  /\ UNCHANGED <<entries, fields, file, fault, cur, caller>>

\* save_if_interesting: the end of a new entry, after the calibration and, in
\* LV3, a second comparison.
EntryDetail ==
  /\ pc = "back" /\ caller = "entry"
  /\ detail' = Written /\ pc' = "idle"
  /\ UNCHANGED <<crash_mode_lv3, queued_items, disabled, fields, file, ran, fault, cur, caller>>

\* main leaves, and frees the fields.
Leave ==
  /\ pc = "idle" /\ pc' = "ended"
  /\ heap' = Free(heap, Ptrs(crash))
  /\ UNCHANGED <<entries, crash, tmp, same, matrix, file, ran, fault, cur, caller>>

Next ==
  \/ CalRun \/ FuzzRun \/ MatrixSite \/ NewSite \/ FindOther \/ CompareSite
  \/ SeedDetail \/ SaveCrash \/ Drop \/ EntryDetail \/ Leave

Spec == Init /\ [][Next]_vars

----------------------------------------------------------------------------
(* Properties                                                              *)

Sited == SiteFrames \cup {NULL}
Pointers == Blocks \cup {NULL}
Fields == [symbol : Pointers, module : Pointers, offset : Sited]

\* Type invariant of the crash site.
TypeOK ==
  /\ crash_mode_lv3 \in BOOLEAN /\ same \in BOOLEAN
  /\ file \in {<<>>} \cup Stacks \cup {Flushed(s) : s \in Stacks}
  /\ crash \in Fields /\ tmp \in Fields /\ matrix \in Sited
  /\ heap \in [Blocks -> {NULL, target_path} \cup {Func[f] : f \in SiteFrames}]
  /\ queued_items \in Seeds..MaxEntries /\ disabled \subseteq Ids
  /\ \A q \in Ids : \A i \in DOMAIN detail[q] : detail[q][i] \in {LineOf(f) : f \in Sited}
  /\ ran \in [Ids -> SUBSET Sited]
  /\ fault \in {"CRASH", "TMOUT"} /\ cur \in 1..(MaxEntries + 1)
  /\ caller \in {"matrix", "seed", "input", "entry"}
  /\ pc \in {"cal", "ret", "cmp", "back", "drop", "idle", "ended"}

\* The scan of the file finds the innermost frame known below every blocked
\* frame: "stack frames on and on the top of a blocked function all shouldn't
\* be crash site".
InnermostBelowBlocked == find_crash_site(file) = SiteOf(file)

\* In LV3 the site of the matrix is kept for ever.  Every comparison overwrites
\* the fields it is in, but what they hold, or tmp until the fields are restored,
\* still is the offset of the matrix and reads as its module and function, in
\* blocks that no comparison has freed.
MatrixSiteKept ==
  LET kept == IF pc = "cmp" THEN tmp ELSE crash
  IN  crash_mode_lv3 /\ caller # "matrix" /\ pc # "ended" =>
        kept.offset = matrix /\ Line(kept, heap) = LineOf(matrix)

\* The blocks of the heap are those that the fields, and tmp in same_crash_site,
\* point to, each from one place: the copies that find_crash_site makes are
\* freed once, by whoever drops them, and none is left when main leaves.
BlocksOwned ==
  LET held == IF pc = "ended" THEN {} ELSE Ptrs(crash) \cup Ptrs(tmp)
  IN  /\ {b \in Blocks : heap[b] # NULL} = held
      /\ Ptrs(crash) \cap Ptrs(tmp) = {}
      /\ crash.symbol = NULL \/ crash.symbol # crash.module

\* Every entry gets one line in README.txt, and when all crashes are reported
\* it names the module, offset and function of a site at which a run of that
\* entry crashed (a seed that only timed out may have none).
DetailOwn ==
  pc = "idle" /\ always_reports =>
    \A q \in 1..queued_items :
      /\ Len(detail[q]) = 1
      /\ q \notin disabled => detail[q][1] \in {LineOf(f) : f \in ran[q]}

\* When all crashes are reported, LV3 queues only inputs that crashed at the
\* site of the matrix, and leaves only such seeds enabled.  (With the types.)
QueueAtMatrixSite ==
  /\ TypeOK
  /\ crash_mode_lv3 /\ always_reports /\ pc = "idle" =>
       \A q \in 1..queued_items \ disabled : matrix \in ran[q]

=============================================================================
