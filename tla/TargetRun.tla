----------------------------- MODULE TargetRun -----------------------------
(***************************************************************************)
(* What afl_fsrv_run_target promises to the rest of afl-fuzz: one run at a *)
(* time, whose result is true of that run and of no other, and a map that  *)
(* only this run has written since it was cleared and that stays as it is  *)
(* until the next.  Nothing is promised once the fuzzer is being stopped   *)
(* or has failed.                                                          *)
(***************************************************************************)
EXTENDS Integers

VARIABLES
  phase,     \* no run, a run, or the fuzzer has ended
  runs,      \* number of the last run
  result,    \* what it returned
  crashed,   \* the target has crashed in it
  hits,      \* the runs that wrote to trace_bits since it was cleared
  stopping   \* the stop signal has come

vars == <<phase, runs, result, crashed, hits, stopping>>

Init ==
  /\ phase = "idle" /\ runs = 0 /\ result = "none"
  /\ crashed = FALSE /\ hits = {} /\ stopping = FALSE

Begin ==
  /\ phase = "idle" /\ phase' = "busy"
  /\ runs' = runs + 1 /\ result' = "none" /\ crashed' = FALSE /\ hits' = {}
  /\ UNCHANGED stopping

\* The target leaves its mark: only in a run, or when nobody looks any more.
TargetRuns ==
  /\ phase # "idle" \/ stopping
  /\ \/ hits' = hits \cup {runs} /\ UNCHANGED crashed
     \/ crashed' = TRUE /\ UNCHANGED hits
  /\ UNCHANGED <<phase, runs, result, stopping>>

\* A run may be too slow whatever it did; otherwise the result tells.
End ==
  /\ phase = "busy" /\ phase' = "idle"
  /\ \/ result' = "TMOUT"
     \/ result' = IF crashed THEN "CRASH" ELSE "OK"
  /\ UNCHANGED <<runs, crashed, hits, stopping>>

\* A run cannot be made, or the fuzzer ends.
Fail ==
  /\ phase # "over"
  /\ phase' = "over" \/ (stopping /\ phase' = "idle")
  /\ result' \in {result, "none"} /\ hits' \in {hits, {}}
  /\ UNCHANGED <<runs, crashed, stopping>>

Stop ==
  /\ stopping' = TRUE
  /\ UNCHANGED <<phase, runs, result, crashed, hits>>

Next == Begin \/ TargetRuns \/ End \/ Fail \/ Stop

Spec == Init /\ [][Next]_vars

=============================================================================
