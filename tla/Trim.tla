-------------------------------- MODULE Trim --------------------------------
(***************************************************************************)
(* Trimming of one queue entry, as fuzz_one calls it: trim_case, or        *)
(* trim_case_custom when a custom mutator trims, and the writing of the    *)
(* trimmed file with ck_write or, under AFL_NO_UNLINK, with a loop of its  *)
(* own.  A write may be cut short or fail.                                 *)
(*                                                                         *)
(* A byte of the entry is its position in the original file.  The trace of *)
(* a run is "own" when its checksum is the entry's exec_cksum; that needs  *)
(* the bytes in need, and may fail even so (an unstable target, a timeout).*)
(***************************************************************************)
EXTENDS Integers, Sequences, FiniteSets, SequencesExt

CONSTANTS
  Lengths,           \* lengths the entry may have
  TRIM_MIN_BYTES, TRIM_START_STEPS, TRIM_END_STEPS,
  MaxStage,          \* bound: steps of a custom trimmer
  MaxShort,          \* bound: writes that are cut short
  write_may_fail     \* write may return -1

ASSUME LengthsAssumption == Lengths \subseteq Nat \ {0}
ASSUME TrimAssumption ==
  /\ TRIM_MIN_BYTES \in Nat \ {0} /\ TRIM_START_STEPS \in Nat \ {0}
  /\ TRIM_END_STEPS \in Nat \ {0}
  /\ MaxStage \in Nat /\ MaxShort \in Nat /\ write_may_fail \in BOOLEAN

VARIABLES
  orig_len, need,     \* the entry: its length, and the bytes its trace needs
  no_unlink, custom,  \* AFL_NO_UNLINK; a custom mutator trims
  in_buf,             \* the buffer fuzz_one got from the test case cache
  len,                \* q->len
  len_p2, remove_len, remove_pos,
  stage_cur, stage_max, out_buf,       \* of trim_case_custom
  fault, trace_bits, clean_trace,
  scored,             \* trace that update_bitmap_score was called with
  file,               \* the file on disk: there or not, and its bytes
  w,                  \* the locals of the writing loop
  short, failed,      \* writes cut short so far; a write has failed
  accepted,           \* the input of the last run with the entry's checksum
  stop_soon, pc

entryVars == <<orig_len, need, no_unlink, custom>>
trimVars  == <<len_p2, remove_len, remove_pos>>
stageVars == <<stage_cur, stage_max, out_buf>>
fileVars  == <<file, w, short, failed>>
vars == <<entryVars, in_buf, len, trimVars, stageVars, fault, trace_bits, clean_trace, scored,
          fileVars, accepted, stop_soon, pc>>

Original == [i \in 1..orig_len |-> i]
Larger(a, b) == IF a >= b THEN a ELSE b
Smaller(a, b) == IF a <= b THEN a ELSE b

\* Powers of two.
Pow2[k \in Nat] == IF k = 0 THEN 1 ELSE 2 * Pow2[k - 1]

\* The smallest power of two that is not below n.
next_pow2(n) == CHOOSE p \in {Pow2[k] : k \in 0..n} : p >= n /\ (p = 1 \/ p \div 2 < n)

NoWrite == [buf |-> <<>>, off |-> 0, len |-> 0, written |-> 0]

Init ==
  /\ orig_len \in Lengths /\ need \in SUBSET (1..orig_len)
  /\ no_unlink \in BOOLEAN /\ custom \in BOOLEAN
  /\ in_buf = Original /\ len = orig_len
  /\ len_p2 = 0 /\ remove_len = 0 /\ remove_pos = 0
  /\ stage_cur = 0 /\ stage_max = 0 /\ out_buf = <<>>
  /\ fault = "RAN" /\ trace_bits = "other" /\ clean_trace = "none" /\ scored = "none"
  /\ file = [there |-> TRUE, bytes |-> Original] /\ w = NoWrite
  /\ short = 0 /\ failed = FALSE /\ accepted = Original
  /\ stop_soon = FALSE /\ pc = "enter"

----------------------------------------------------------------------------
(* One execution                                                           *)

\* The target runs on input: it leaves a trace, and a status that the trimmers
\* look at only for ERROR ("RAN" is a crash, a clean exit or a timeout).
Run(input, t, f) ==
  /\ t \in {"own", "other"} /\ f \in {"RAN", "ERROR"}
  /\ t = "own" => need \subseteq Range(input) /\ f # "ERROR"
  /\ trace_bits' = t /\ fault' = f

\* abort_trimming
Aborts(f) == stop_soon \/ f = "ERROR"

----------------------------------------------------------------------------
(* trim_case                                                               *)

Enter ==
  /\ pc = "enter" /\ ~custom
  /\ IF len < 5
     THEN pc' = "leave" /\ UNCHANGED trimVars
     ELSE /\ len_p2' = next_pow2(len)
          /\ remove_len' = Larger(len_p2' \div TRIM_START_STEPS, TRIM_MIN_BYTES)
          /\ remove_pos' = 0
          /\ pc' = "round"
  /\ UNCHANGED <<entryVars, in_buf, len, stageVars, fault, trace_bits, clean_trace, scored,
                 fileVars, accepted, stop_soon>>

FirstPos == remove_len

\* MUTANT of NextLen: the chunks do not get smaller.
NextLen_Same == remove_len

NextLen == remove_len \div 2

\* The head of the outer loop.
Round ==
  /\ pc = "round"
  /\ IF remove_len >= Larger(len_p2 \div TRIM_END_STEPS, TRIM_MIN_BYTES)
     THEN remove_pos' = FirstPos /\ pc' = "exec"
     ELSE UNCHANGED remove_pos /\ pc' = IF clean_trace = "none" THEN "leave" ELSE "open"
  /\ UNCHANGED <<entryVars, in_buf, len, len_p2, remove_len, stageVars, fault, trace_bits,
                 clean_trace, scored, fileVars, accepted, stop_soon>>

\* What write_with_gap hands to the target.
WithGap(pos, n) == SubSeq(in_buf, 1, pos) \o SubSeq(in_buf, pos + n + 1, len)

\* MUTANT of Moved: the last byte of the tail is forgotten.
Moved_Short(pos, n) ==
  [i \in 1..Len(in_buf) |-> IF i > pos /\ i <= len - n - 1 THEN in_buf[i + n] ELSE in_buf[i]]

\* The memmove: the tail moves down, what is behind it stays.
Moved(pos, n) ==
  [i \in 1..Len(in_buf) |-> IF i > pos /\ i <= len - n THEN in_buf[i + n] ELSE in_buf[i]]

TrimExec(t, f) ==
  LET n == Smaller(remove_len, len - remove_pos)
  IN  /\ pc = "exec" /\ remove_pos < len
      /\ Run(WithGap(remove_pos, n), t, f)
      /\ \/ /\ Aborts(f)
            /\ pc' = "leave"
            /\ UNCHANGED <<in_buf, len, len_p2, remove_pos, clean_trace, accepted>>
         \/ /\ ~Aborts(f) /\ t = "own"
            /\ in_buf' = Moved(remove_pos, n) /\ len' = len - n
            /\ len_p2' = next_pow2(len')
            /\ clean_trace' = IF clean_trace = "none" THEN t ELSE clean_trace
            /\ accepted' = WithGap(remove_pos, n)
            /\ UNCHANGED <<remove_pos, pc>>
         \/ /\ ~Aborts(f) /\ t # "own"
            /\ remove_pos' = remove_pos + remove_len
            /\ UNCHANGED <<in_buf, len, len_p2, clean_trace, accepted, pc>>
      /\ UNCHANGED <<entryVars, remove_len, stageVars, scored, fileVars, stop_soon>>

RoundEnd ==
  /\ pc = "exec" /\ remove_pos >= len
  /\ remove_len' = NextLen
  /\ pc' = "round"
  /\ UNCHANGED <<entryVars, in_buf, len, len_p2, remove_pos, stageVars, fault, trace_bits,
                 clean_trace, scored, fileVars, accepted, stop_soon>>

----------------------------------------------------------------------------
(* trim_case_custom                                                        *)

\* What afl_custom_trim may return: part of the entry, nothing, or more.
Candidates == {SubSeq(Original, a, orig_len) : a \in 1..orig_len}
              \cup {SubSeq(Original, 1, b) : b \in 0..orig_len}
              \cup {Append(Original, 1)}

EnterCustom ==
  /\ pc = "enter" /\ custom
  /\ stage_max' \in 0..MaxStage
  /\ pc' = "custom"
  /\ UNCHANGED <<entryVars, in_buf, len, trimVars, stage_cur, out_buf, fault, trace_bits,
                 clean_trace, scored, fileVars, accepted, stop_soon>>

\* An empty candidate is not run, and counts as a failure.
CustomEmpty ==
  /\ pc = "custom" /\ stage_cur < stage_max
  /\ stage_cur' \in (stage_cur + 1)..stage_max
  /\ UNCHANGED <<entryVars, in_buf, len, trimVars, stage_max, out_buf, fault, trace_bits,
                 clean_trace, scored, fileVars, accepted, stop_soon, pc>>

CustomExec(c, t, f) ==
  /\ pc = "custom" /\ stage_cur < stage_max /\ c # <<>>
  /\ Run(c, t, f)
  /\ \/ /\ Aborts(f)
        /\ pc' = "leave"
        /\ UNCHANGED <<stage_cur, out_buf, clean_trace, accepted>>
     \/ /\ ~Aborts(f)
        /\ stage_cur' \in (stage_cur + 1)..stage_max
        /\ out_buf' = IF t = "own" THEN c ELSE out_buf
        /\ accepted' = IF t = "own" THEN c ELSE accepted
        /\ clean_trace' = IF t = "own" /\ clean_trace = "none" THEN t ELSE clean_trace
        /\ UNCHANGED pc
  /\ UNCHANGED <<entryVars, in_buf, len, trimVars, stage_max, scored, fileVars, stop_soon>>

CustomEnd ==
  /\ pc = "custom" /\ stage_cur >= stage_max
  /\ pc' = IF out_buf = <<>> THEN "leave" ELSE "open"
  /\ UNCHANGED <<entryVars, in_buf, len, trimVars, stageVars, fault, trace_bits, clean_trace,
                 scored, fileVars, accepted, stop_soon>>

----------------------------------------------------------------------------
(* Writing the trimmed file                                                *)

\* AFL_NO_UNLINK truncates the file in place, but not in the custom trimmer.
InPlace == no_unlink /\ ~custom

Trimmed == IF custom THEN out_buf ELSE SubSeq(in_buf, 1, len)

StartWrite == [buf |-> Trimmed, off |-> 0, len |-> Len(Trimmed), written |-> 0]

Open ==
  /\ pc = "open"
  /\ \/ /\ InPlace
        /\ file' = [there |-> TRUE, bytes |-> <<>>] /\ w' = StartWrite /\ pc' = "write"
     \/ /\ ~InPlace /\ file.there
        /\ file' = [there |-> FALSE, bytes |-> <<>>]
        /\ UNCHANGED <<w, pc>>
     \/ /\ ~InPlace /\ ~file.there
        /\ file' = [there |-> TRUE, bytes |-> <<>>] /\ w' = StartWrite /\ pc' = "write"
  /\ UNCHANGED <<entryVars, in_buf, len, trimVars, stageVars, fault, trace_bits, clean_trace,
                 scored, short, failed, accepted, stop_soon>>

\* Where in the buffer the next write starts: the loop of AFL_NO_UNLINK does
\* not move on.
WriteFrom == IF InPlace THEN 0 ELSE w.off

\* MUTANT of WritesOn: ck_write stops after the first write.
WritesOn_Once(res) == InPlace /\ w.written + res < Len(w.buf)

\* Whether another write follows one that returned res.  ck_write compares
\* with the length that is left, and goes on only after a write that did
\* something: its call of RPFATAL is never reached.
WritesOn(res) ==
  IF InPlace THEN w.written + (IF res > 0 THEN res ELSE 0) < Len(w.buf)
  ELSE res # w.len /\ res > 0 /\ w.written + res # w.len

\* write returns res; it may fail any number of times.
Write(res) ==
  LET n == IF res > 0 THEN res ELSE 0
  IN  /\ pc = "write"
      /\ res \in 1..w.len \/ (res = -1 /\ write_may_fail)
      /\ res \in 1..(w.len - 1) => short < MaxShort
      /\ short' = IF res \in 1..(w.len - 1) THEN short + 1 ELSE short
      /\ failed' = (failed \/ res = -1)
      /\ file' = [file EXCEPT !.bytes = @ \o SubSeq(w.buf, WriteFrom + 1, WriteFrom + n)]
      /\ IF WritesOn(res)
         THEN /\ w' = [w EXCEPT !.written = @ + n, !.off = @ + n, !.len = @ - n]
              /\ UNCHANGED pc
         ELSE w' = NoWrite /\ pc' = "close"
      /\ UNCHANGED <<entryVars, in_buf, len, trimVars, stageVars, fault, trace_bits,
                     clean_trace, scored, accepted, stop_soon>>

\* MUTANT of Rescored: the trace of the last run is scored.
Rescored_Last == trace_bits

\* The trace put back for update_bitmap_score.
Rescored == clean_trace

\* Close the file, score the entry, and bring the cached copy up to date: from
\* memory, or after a custom trim from the file, where a short read is fatal.
Close ==
  /\ pc = "close"
  /\ trace_bits' = Rescored /\ scored' = Rescored
  /\ len' = Len(Trimmed)
  /\ IF custom
     THEN IF Len(file.bytes) < len'
          THEN pc' = "fatal" /\ UNCHANGED in_buf
          ELSE pc' = "leave" /\ in_buf' = SubSeq(file.bytes, 1, len')
     ELSE pc' = "leave" /\ in_buf' = Trimmed
  /\ UNCHANGED <<entryVars, trimVars, stageVars, fault, clean_trace, fileVars, accepted,
                 stop_soon>>

\* Back in fuzz_one.
Leave ==
  /\ pc = "leave"
  /\ pc' = IF fault = "ERROR" THEN "fatal" ELSE IF stop_soon THEN "stopped" ELSE "done"
  /\ UNCHANGED <<entryVars, in_buf, len, trimVars, stageVars, fault, trace_bits, clean_trace,
                 scored, fileVars, accepted, stop_soon>>

HandleStopSig ==
  /\ ~stop_soon /\ pc \notin {"done", "stopped", "fatal"}
  /\ stop_soon' = TRUE
  /\ UNCHANGED <<entryVars, in_buf, len, trimVars, stageVars, fault, trace_bits, clean_trace,
                 scored, fileVars, accepted, pc>>

\* What happens by itself.
Step ==
  \/ Enter \/ Round \/ RoundEnd \/ EnterCustom \/ CustomEmpty \/ CustomEnd
  \/ \E t \in {"own", "other"}, f \in {"RAN", "ERROR"} :
       TrimExec(t, f) \/ \E c \in Candidates : CustomExec(c, t, f)
  \/ Open \/ Close \/ Leave
  \/ \E res \in -1..(orig_len + 1) : Write(res)

Next == Step \/ HandleStopSig

\* The loop of AFL_NO_UNLINK tries again what has failed.  No write of it need
\* ever succeed from then on: the disk may stay full.
Retrying == pc = "write" /\ InPlace /\ failed

\* Every execution and every write returns, with success or not.
Fairness == WF_vars(Step /\ ~Retrying)

Spec == Init /\ [][Next]_vars /\ Fairness

----------------------------------------------------------------------------
(* Properties                                                              *)

Bytes == Seq(1..orig_len)

\* Type invariant of the trimmers.
TypeOK ==
  /\ in_buf \in Bytes /\ out_buf \in Bytes /\ accepted \in Bytes /\ file.bytes \in Bytes
  /\ len \in 1..(orig_len + 1) /\ remove_pos \in Nat /\ remove_len \in Nat /\ len_p2 \in Nat
  /\ trace_bits \in {"own", "other"} /\ {clean_trace, scored} \subseteq {"none", "own", "other"}
  /\ fault \in {"RAN", "ERROR"}
  /\ stage_cur \in 0..MaxStage /\ stage_max \in 0..MaxStage
  /\ w.len \in 0..(orig_len + 1) /\ w.off \in Nat /\ w.written \in Nat
  /\ short \in 0..MaxShort /\ {failed, stop_soon} \subseteq BOOLEAN
  /\ pc \in {"enter", "round", "exec", "custom", "open", "write", "close", "leave",
             "done", "stopped", "fatal"}

\* What is kept is what ran: after any number of deletions the first q->len
\* bytes of the buffer are exactly the input whose checksum was last found
\* equal, although that input was put together from two pieces of the buffer
\* before the buffer was changed.  And its first bytes survive every round, so
\* no entry is ever trimmed to nothing.  (With the types.)
KeptIsAccepted ==
  /\ TypeOK
  /\ ~custom =>
       /\ SubSeq(in_buf, 1, len) = accepted
       /\ SubSeq(in_buf, 1, Smaller(len, TRIM_MIN_BYTES))
            = SubSeq(Original, 1, Smaller(orig_len, TRIM_MIN_BYTES))

\* A trimmed entry is scored with a trace of its own, whatever the last of the
\* trimming runs did, and an entry that was not changed is not scored again.
ScoredOwn == scored \in {"none", "own"} /\ (scored # "none" => clean_trace = "own")

\* When trimming is over, file, cached copy and length agree and are the
\* accepted input; an aborted trim has not touched the file.  (As long as no
\* write fails, and without AFL_NO_UNLINK also when one is cut short: after a
\* second short one ck_write may take what is left for what was written.)
FileWhole ==
  /\ pc = "done" /\ ~failed /\ short <= (IF InPlace THEN 0 ELSE 1) =>
       file = [there |-> TRUE, bytes |-> accepted] /\ SubSeq(in_buf, 1, len) = accepted
  /\ pc \in {"stopped", "fatal"} /\ scored = "none" =>
       file = [there |-> TRUE, bytes |-> Original]

\* Trimming ends, however the runs turn out, and also when a write fails; unless
\* it is the loop of AFL_NO_UNLINK whose writes fail for ever (a full disk),
\* which nothing ends, not even stop_soon.
TrimEnds == <>(pc \in {"done", "stopped", "fatal"}) \/ <>[]Retrying

=============================================================================
