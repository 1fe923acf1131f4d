----------------------------- MODULE ForkServer -----------------------------
(***************************************************************************)
(* One run of the target after another: afl_fsrv_run_target in the fuzzer, *)
(* the loop of __afl_start_forkserver in the server, __afl_persistent_loop *)
(* in the child, and the stop signal.  The three are processes; they share *)
(* two pipes, signals and the trace map.  The target does what it likes:   *)
(* it may exit, crash, finish an iteration or hang.                        *)
(*                                                                         *)
(* Runs are numbered.  The number travels with messages and traces as a    *)
(* ghost: no decision reads it.  A crash stands for every status that      *)
(* afl_fsrv_run_target takes for one.  EXEC_FAIL_SIG, which only a failed  *)
(* execv writes, does not occur.  What comes before the runs (the          *)
(* handshake) and after them (the end of afl-fuzz) is in Session.          *)
(***************************************************************************)
EXTENDS Integers, Sequences

CONSTANTS
  MaxRuns,            \* bound: runs of the target
  is_persistent,      \* the target loops, stopping itself after each run
  max_cnt,            \* __AFL_LOOP(max_cnt)
  child_kill_signal,  \* SIGKILL, or SIGTERM by AFL_KILL_SIGNAL=15
  server_may_die      \* the server may be killed from outside (OOM)

ASSUME ForkServerAssumption ==
  /\ MaxRuns \in Nat /\ max_cnt \in Nat \ {0}
  /\ is_persistent \in BOOLEAN /\ server_may_die \in BOOLEAN
  /\ child_kill_signal \in {"SIGKILL", "SIGTERM"}

Pids == 1..MaxRuns
RunNo == 0..MaxRuns

VARIABLES
  \* the fuzzer
  fpc, run, child_pid, last_run_timed_out, stop_soon,
  handler,       \* the stop handler: not run, waiting for the server, done
  result, got,   \* what the last run returned, and the status it read
  \* the server
  spc, srv_child, child_stopped, was_killed, status,
  forked,        \* what fork returned, not yet in child_pid
  srv_sigterm,   \* SIGTERM is pending
  srv_run,       \* the run requested last
  \* shared
  ctl, st,       \* the two pipes
  proc,          \* the children
  trace          \* runs that wrote to trace_bits since the memset

fuzzerVars == <<fpc, run, child_pid, last_run_timed_out, stop_soon, handler, result, got>>
serverVars == <<spc, srv_child, child_stopped, was_killed, status, forked, srv_sigterm, srv_run>>
vars == <<fuzzerVars, serverVars, ctl, st, proc, trace>>

\* state: running, stopped, a zombie to be waited for, or gone.  term: SIGTERM
\* is pending while stopped.  left: iterations left (cycle_cnt).
Process == [state : {"none", "running", "stopped", "zombie", "gone"}, term : BOOLEAN,
            cause : {"none", "exit", "crash", "signal"}, run : RunNo, left : 0..max_cnt]

NoProcess == [state |-> "none", term |-> FALSE, cause |-> "none", run |-> 0, left |-> 0]

\* A wait status: exit, crash, signal (killed by the fuzzer) or stop.
Status(c, r) == [cause |-> c, run |-> r]
NoStatus == Status("none", 0)

\* No run has been asked for yet.
NoRuns ==
  /\ run = 0 /\ child_pid = 0
  /\ last_run_timed_out = FALSE /\ stop_soon = FALSE /\ handler = "none"
  /\ result = "none" /\ got = NoStatus
  /\ srv_child = 0 /\ child_stopped = FALSE /\ was_killed = FALSE
  /\ status = NoStatus /\ forked = 0 /\ srv_sigterm = FALSE /\ srv_run = 0
  /\ ctl = <<>> /\ st = <<>>
  /\ proc = [p \in Pids |-> NoProcess]
  /\ trace = {}

Init == fpc = "idle" /\ spc = "read" /\ NoRuns

----------------------------------------------------------------------------
(* Signals and waitpid                                                     *)

Die(c, cause) == [c EXCEPT !.state = "zombie", !.term = FALSE, !.cause = cause]

\* MUTANT of Signalled: the signal goes to nobody.
Signalled_Lost(c, sig) == c

\* The effect of a signal on a child.  Only SIGKILL ends a stopped one.
Signalled(c, sig) ==
  IF c.state = "running" \/ (c.state = "stopped" /\ sig = "SIGKILL") THEN Die(c, "signal")
  ELSE IF c.state = "stopped" THEN [c EXCEPT !.term = TRUE]
  ELSE c

\* SIGCONT: the child goes on, with run r, or dies of a pending SIGTERM.
Continued(c, r) ==
  IF c.state # "stopped" THEN c
  ELSE IF c.term THEN Die([c EXCEPT !.run = r], "signal")
  ELSE [c EXCEPT !.state = "running", !.run = r]

Signal(p, sig) ==
  proc' = IF p > 0 THEN [proc EXCEPT ![p] = Signalled(@, sig)] ELSE proc

----------------------------------------------------------------------------
(* afl_fsrv_run_target                                                     *)

\* The server has left on SIGTERM, or was killed: its ends of the pipes are closed.
Gone == spc \in {"exit", "dead"}

Eof == Gone /\ st = <<>>

\* The end of a run that failed: when stopping, a 0 that no caller looks at,
\* else RPFATAL.
Failed ==
  /\ fpc' = IF stop_soon THEN "idle" ELSE "fatal"
  /\ result' = "none"

\* MUTANT of Finish: a status is looked at for a timeout only.
Finish_Unsignalled(s) ==
  /\ fpc' = "idle" /\ got' = s
  /\ child_pid' = IF s.cause = "stop" THEN child_pid ELSE 0
  /\ result' = IF last_run_timed_out THEN "TMOUT" ELSE "OK"

\* The end of a run with status s.
Finish(s) ==
  /\ fpc' = "idle" /\ got' = s
  /\ child_pid' = IF s.cause = "stop" THEN child_pid ELSE 0
  /\ result' = IF last_run_timed_out THEN "TMOUT"
               ELSE IF s.cause \in {"crash", "signal"} THEN "CRASH" ELSE "OK"

\* What the fuzzer writes to the control pipe; options only in the handshake.
Request(r) == [was_killed |-> last_run_timed_out, run |-> r, opts |-> {}]

\* Clear the map and ask for a run; a dead server fails the write.
RunTarget ==
  /\ fpc = "idle" /\ handler # "wait" /\ run < MaxRuns
  /\ trace' = {}
  /\ \/ /\ ~Gone
        /\ run' = run + 1
        /\ ctl' = Append(ctl, Request(run'))
        /\ last_run_timed_out' = FALSE
        /\ fpc' = "pid" /\ result' = "none" /\ got' = NoStatus
     \/ /\ Gone
        /\ Failed
        /\ UNCHANGED <<run, ctl, last_run_timed_out, got>>
  /\ UNCHANGED <<child_pid, stop_soon, handler, serverVars, st, proc>>

\* The blocking read of the pid.
ReadPid ==
  /\ fpc = "pid" /\ handler # "wait"
  /\ \/ /\ st # <<>>
        /\ child_pid' = Head(st).pid /\ st' = Tail(st)
        /\ fpc' = "wait" /\ UNCHANGED result
     \/ /\ Eof /\ Failed /\ UNCHANGED <<child_pid, st>>
  /\ UNCHANGED <<run, last_run_timed_out, stop_soon, handler, got, serverVars, ctl, proc, trace>>

\* read_s32_timed: the status is there in time, or the pipe is closed.  When
\* stopping, it is not read.
ReadStatus ==
  /\ fpc = "wait" /\ handler # "wait"
  /\ \/ /\ st # <<>> /\ ~stop_soon
        /\ Finish(Head(st).status) /\ st' = Tail(st)
     \/ /\ Eof \/ (st # <<>> /\ stop_soon)
        /\ Failed /\ UNCHANGED <<child_pid, got, st>>
  /\ UNCHANGED <<run, last_run_timed_out, stop_soon, handler, serverVars, ctl, proc, trace>>

\* The time is up and nothing is there to read.
Timeout ==
  /\ fpc = "wait" /\ handler # "wait" /\ st = <<>> /\ ~Eof
  /\ fpc' = "kill"
  /\ UNCHANGED <<run, child_pid, last_run_timed_out, stop_soon, handler, result, got,
                 serverVars, ctl, st, proc, trace>>

KillChild ==
  /\ fpc = "kill" /\ handler # "wait"
  /\ Signal(child_pid, child_kill_signal)
  /\ child_pid' = 0 /\ last_run_timed_out' = TRUE
  /\ fpc' = "late"
  /\ UNCHANGED <<run, stop_soon, handler, result, got, serverVars, ctl, st, trace>>

\* MUTANT of LateStatus: the status of the killed child is not waited for.
LateStatus_Skipped == Finish(Status("signal", run)) /\ UNCHANGED st

\* The blocking read that follows the kill.
LateStatus ==
  \/ st # <<>> /\ Finish(Head(st).status) /\ st' = Tail(st)
  \/ Eof /\ Failed /\ UNCHANGED <<child_pid, got, st>>

ReadLate ==
  /\ fpc = "late" /\ handler # "wait"
  /\ LateStatus
  /\ UNCHANGED <<run, last_run_timed_out, stop_soon, handler, serverVars, ctl, proc, trace>>

----------------------------------------------------------------------------
(* The stop signal: afl_states_stop, and the end of main                   *)

\* exit was called, has been left for good, or SIGKILL came first.
Ending == {"fatal", "exit", "ended", "killed"}

\* MUTANT of HandleStopSig: the server is waited for but not signalled.
HandleStopSig_ChildOnly ==
  /\ handler = "none" /\ fpc \notin Ending
  /\ stop_soon' = TRUE /\ handler' = "wait"
  /\ Signal(child_pid, child_kill_signal)
  /\ UNCHANGED <<fpc, run, child_pid, last_run_timed_out, result, got, serverVars, ctl, st,
                 trace>>

HandleStopSig ==
  /\ handler = "none" /\ fpc \notin Ending
  /\ stop_soon' = TRUE /\ handler' = "wait"
  /\ Signal(child_pid, child_kill_signal)
  /\ srv_sigterm' = TRUE
  /\ UNCHANGED <<fpc, run, child_pid, last_run_timed_out, result, got, spc, srv_child,
                 child_stopped, was_killed, status, forked, srv_run, ctl, st, trace>>

\* waitpid(fsrv_pid) returns and the interrupted code goes on.
HandlerReturns ==
  /\ handler = "wait" /\ Gone /\ fpc \notin Ending
  /\ handler' = "done"
  /\ UNCHANGED <<fpc, run, child_pid, last_run_timed_out, stop_soon, result, got,
                 serverVars, ctl, st, proc, trace>>

\* The main loop ends and afl_fsrv_kill runs once more.
FuzzerExit ==
  /\ fpc = "idle" /\ handler = "done"
  /\ Signal(child_pid, child_kill_signal)
  /\ child_pid' = 0 /\ fpc' = "exit"
  /\ UNCHANGED <<run, last_run_timed_out, stop_soon, handler, result, got, serverVars,
                 ctl, st, trace>>

----------------------------------------------------------------------------
(* The fork server                                                         *)

\* afl-fuzz is no more: a read finds the end of the control pipe, and a write
\* ends in SIGPIPE.
FuzzerGone == fpc \in {"ended", "killed"}

\* MUTANT of PipeFails: a read that fails is tried again.
PipeFails_Write == spc \in {"start", "dict", "pid", "status"}

PipeFails ==
  \/ spc \in {"read", "opts"} /\ ctl = <<>>
  \/ spc \in {"start", "dict", "pid", "status"}

SrvPipeClosed ==
  /\ FuzzerGone /\ PipeFails
  /\ spc' = "dead"
  /\ UNCHANGED <<fuzzerVars, srv_child, child_stopped, was_killed, status, forked, srv_sigterm,
                 srv_run, ctl, st, proc, trace>>

SrvRead ==
  /\ spc = "read" /\ ctl # <<>>
  /\ was_killed' = Head(ctl).was_killed /\ srv_run' = Head(ctl).run
  /\ ctl' = Tail(ctl)
  /\ spc' = "check"
  /\ UNCHANGED <<fuzzerVars, srv_child, child_stopped, status, forked, srv_sigterm, st, proc, trace>>

\* The child stopped and was then killed by the fuzzer.
WriteOff == child_stopped /\ was_killed

\* Write off the old process: waitpid blocks until it is dead.
SrvWriteOff ==
  /\ spc = "check" /\ WriteOff
  /\ proc[srv_child].state = "zombie"
  /\ proc' = [proc EXCEPT ![srv_child].state = "gone"]
  /\ child_stopped' = FALSE
  /\ UNCHANGED <<fuzzerVars, spc, srv_child, was_killed, status, forked, srv_sigterm, srv_run,
                 ctl, st, trace>>

\* fork returns; its result is not in child_pid yet.
SrvFork ==
  /\ spc = "check" /\ ~child_stopped
  /\ \E p \in Pids :
       /\ proc[p] = NoProcess /\ \A o \in 1..(p - 1) : proc[o] # NoProcess
       /\ forked' = p
       /\ proc' = [proc EXCEPT ![p] = [NoProcess EXCEPT
                     !.state = "running", !.run = srv_run, !.left = max_cnt]]
  /\ spc' = "forked"
  /\ UNCHANGED <<fuzzerVars, srv_child, child_stopped, was_killed, status, srv_sigterm, srv_run,
                 ctl, st, trace>>

SrvForked ==
  /\ spc = "forked"
  /\ srv_child' = forked /\ forked' = 0
  /\ spc' = "pid"
  /\ UNCHANGED <<fuzzerVars, child_stopped, was_killed, status, srv_sigterm, srv_run,
                 ctl, st, proc, trace>>

SrvContinue ==
  /\ spc = "check" /\ child_stopped /\ ~WriteOff
  /\ proc' = [proc EXCEPT ![srv_child] = Continued(@, srv_run)]
  /\ child_stopped' = FALSE
  /\ spc' = "pid"
  /\ UNCHANGED <<fuzzerVars, srv_child, was_killed, status, forked, srv_sigterm, srv_run,
                 ctl, st, trace>>

SrvWritePid ==
  /\ spc = "pid" /\ ~FuzzerGone
  /\ st' = Append(st, [pid |-> srv_child, status |-> NoStatus])
  /\ spc' = "wait"
  /\ UNCHANGED <<fuzzerVars, srv_child, child_stopped, was_killed, status, forked, srv_sigterm,
                 srv_run, ctl, proc, trace>>

\* MUTANT of StopReported: WCONTINUED is given as well.
StopReported_Continued(c) == is_persistent /\ c.state \in {"stopped", "running"}

\* WUNTRACED
StopReported(c) == is_persistent /\ c.state = "stopped"

\* waitpid: the child is dead or, in persistent mode, stopped.
SrvWait ==
  LET c == proc[srv_child]
  IN  /\ spc = "wait"
      /\ \/ /\ c.state = "zombie"
            /\ proc' = [proc EXCEPT ![srv_child].state = "gone"]
            /\ status' = Status(c.cause, c.run)
            /\ UNCHANGED child_stopped
         \/ /\ StopReported(c)
            /\ status' = Status("stop", c.run)
            /\ child_stopped' = TRUE
            /\ UNCHANGED proc
      /\ spc' = "status"
      /\ UNCHANGED <<fuzzerVars, srv_child, was_killed, forked, srv_sigterm, srv_run,
                     ctl, st, trace>>

\* The status goes to the pipe (read as a pid, it is some number).
SrvWriteStatus ==
  /\ spc = "status" /\ ~FuzzerGone
  /\ st' = Append(st, [pid |-> srv_child, status |-> status])
  /\ spc' = "read"
  /\ UNCHANGED <<fuzzerVars, srv_child, child_stopped, was_killed, status, forked, srv_sigterm,
                 srv_run, ctl, proc, trace>>

\* The child that child_pid names is killed and waited for.
AtExit ==
  proc' = IF srv_child > 0 THEN [proc EXCEPT ![srv_child].state = "gone"] ELSE proc

\* SIGTERM reaches the server, between any two of its steps.
SrvAtExit ==
  /\ srv_sigterm /\ ~Gone
  /\ AtExit
  /\ spc' = "exit"
  /\ UNCHANGED <<fuzzerVars, srv_child, child_stopped, was_killed, status, forked, srv_sigterm,
                 srv_run, ctl, st, trace>>

\* The server is killed from outside.
SrvDies ==
  /\ server_may_die /\ ~Gone
  /\ spc' = "dead"
  /\ UNCHANGED <<fuzzerVars, srv_child, child_stopped, was_killed, status, forked, srv_sigterm,
                 srv_run, ctl, st, proc, trace>>

----------------------------------------------------------------------------
(* The child                                                               *)

\* It covers an edge, unless it has left the persistent loop for good.
ChildHits(p) ==
  /\ proc[p].state = "running" /\ proc[p].left > 0
  /\ trace' = trace \cup {proc[p].run}
  /\ UNCHANGED <<fuzzerVars, serverVars, ctl, st, proc>>

\* __afl_persistent_loop at the end of an iteration: stop, or leave the loop.
ChildLoops(p) ==
  /\ is_persistent /\ proc[p].state = "running" /\ proc[p].left > 0
  /\ proc' = [proc EXCEPT ![p].left = @ - 1,
                          ![p].state = IF proc[p].left > 1 THEN "stopped" ELSE @]
  /\ UNCHANGED <<fuzzerVars, serverVars, ctl, st, trace>>

\* It exits or crashes.
ChildEnds(p) ==
  /\ proc[p].state = "running"
  /\ \E cause \in {"exit", "crash"} : proc' = [proc EXCEPT ![p] = Die(@, cause)]
  /\ UNCHANGED <<fuzzerVars, serverVars, ctl, st, trace>>

Fuzzer == RunTarget \/ ReadPid \/ ReadStatus \/ Timeout \/ KillChild \/ ReadLate
          \/ HandlerReturns \/ FuzzerExit
Server == SrvRead \/ SrvWriteOff \/ SrvFork \/ SrvForked \/ SrvContinue \/ SrvWritePid
          \/ SrvWait \/ SrvWriteStatus \/ SrvAtExit \/ SrvPipeClosed
Child == \E p \in Pids : ChildHits(p) \/ ChildLoops(p) \/ ChildEnds(p)

Running == Fuzzer \/ Server \/ Child \/ SrvDies

Next == Running \/ HandleStopSig

\* The fuzzer's and the server's code goes on when it can; the timer of select
\* is part of the fuzzer.  The target may hang: no fairness for the child.
Fairness == WF_vars(Fuzzer) /\ WF_vars(Server)

Spec == Init /\ [][Next]_vars /\ Fairness

----------------------------------------------------------------------------
(* Properties                                                              *)

\* Type invariant of fuzzer, server, pipes and children.
TypeOK ==
  /\ fpc \in {"start", "reply", "dict", "up", "idle", "pid", "wait", "kill", "late"} \cup Ending
  /\ run \in RunNo /\ child_pid \in {0} \cup Pids
  /\ last_run_timed_out \in BOOLEAN /\ stop_soon \in BOOLEAN
  /\ handler \in {"none", "wait", "done"}
  /\ result \in {"none", "OK", "TMOUT", "CRASH"} /\ got.run \in RunNo
  /\ spc \in {"start", "opts", "dict", "read", "check", "forked", "pid", "wait", "status",
              "exit", "dead"}
  /\ srv_child \in {0} \cup Pids /\ forked \in {0} \cup Pids
  /\ child_stopped \in BOOLEAN /\ was_killed \in BOOLEAN /\ srv_sigterm \in BOOLEAN
  /\ status.run \in RunNo /\ srv_run \in RunNo
  /\ Len(ctl) <= 2 /\ Len(st) <= 2
  /\ proc \in [Pids -> Process] /\ trace \subseteq RunNo

\* A run that returns a result returns its own: the status is that of this
\* run, not one left in the pipe by a run that timed out, only this run wrote
\* to trace_bits, and a crash is the target's own: the kill that ended a run
\* too slow is never taken for the crash of the run after it.
OwnResult ==
  /\ result # "none" => got.run = run /\ trace \subseteq {run}
  /\ result = "CRASH" => got.cause = "crash"

\* Past the end of a run trace_bits "behave very normally": no child is left
\* that could write to it, whichever way the run ended.
MapAtRest ==
  fpc = "idle" /\ ~stop_soon /\ ~Gone => \A p \in Pids : proc[p].state # "running"

\* Every run ends, also when the target hangs, when it stops itself just as
\* its time is up, when the server dies, and when the user stops the fuzzer
\* in the middle: neither of the blocking reads waits for ever.  Nor does
\* afl_fsrv_start, for no combination of options: neither side waits for a
\* message the other one does not send.
RunReturns == fpc \in {"start", "pid"} ~> fpc = "idle" \/ fpc \in Ending

=============================================================================
