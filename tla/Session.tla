------------------------------ MODULE Session ------------------------------
(***************************************************************************)
(* The life of a fork server around its runs (ForkServer): the handshake   *)
(* of afl_fsrv_start with __afl_start_forkserver, the restart for a larger *)
(* map, the exit handler of afl-fuzz, and the worker of the console that   *)
(* starts afl-fuzz, stops it with SIGTERM and, if that is not enough, with *)
(* SIGKILL.                                                                *)
(*                                                                         *)
(* A target asks for shared memory test cases only when the variable that  *)
(* setup_testcase_shmem sets is there, so that request is always granted.  *)
(* A target without options says hello with an empty set.                  *)
(***************************************************************************)
EXTENDS ForkServer

CONSTANT
  add_extra_func  \* FALSE for the server of cmplog and of afl-analyze

ASSUME SessionAssumption == add_extra_func \in BOOLEAN

VARIABLES
  target,           \* options of the target; LARGE: more than the first map
  ignore_autodict,  \* AFL_NO_AUTODICT
  restarted,        \* the maps have been enlarged
  use_shmem_fuzz,   \* the fuzzer passes test cases in shared memory
  fuzz_ptr,         \* the target takes them from there (__afl_fuzz_ptr)
  loaded,           \* times the target's dictionary was loaded
  job               \* the worker: waiting, stopping, or its result

sessionVars == <<target, ignore_autodict, restarted, use_shmem_fuzz, fuzz_ptr, loaded, job>>

Options == {"AUTODICT", "SHDMEM", "LARGE"}

SessionInit ==
  /\ fpc = "start" /\ spc = "start" /\ NoRuns
  /\ target \in SUBSET Options /\ ignore_autodict \in BOOLEAN
  /\ restarted = FALSE /\ use_shmem_fuzz = FALSE /\ fuzz_ptr = FALSE
  /\ loaded = 0 /\ job = "fuzzing"

----------------------------------------------------------------------------
(* afl_fsrv_start                                                          *)

fuzzerRest == <<run, child_pid, last_run_timed_out, stop_soon, handler, result, got>>
serverRest == <<srv_child, child_stopped, was_killed, status, forked, srv_sigterm, srv_run>>

Hello(opts) == [hello |-> opts]

\* The hello is read.  When stopping it is not; an error, the end of the pipe
\* and the stop are all FATAL, once the server is killed.
ReadHello ==
  /\ fpc = "start" /\ handler # "wait"
  /\ \/ /\ st # <<>> /\ ~stop_soon /\ "ERROR" \notin Head(st).hello
        /\ use_shmem_fuzz' = ("SHDMEM" \in Head(st).hello)
        /\ st' = Tail(st) /\ fpc' = "reply"
        /\ UNCHANGED spc
     \/ /\ Eof \/ (st # <<>> /\ (stop_soon \/ "ERROR" \in Head(st).hello))
        /\ fpc' = "fatal" /\ spc' = IF Gone THEN spc ELSE "dead"
        /\ UNCHANGED <<st, use_shmem_fuzz>>
  /\ UNCHANGED <<fuzzerRest, serverRest, ctl, proc, trace, target, ignore_autodict,
                 restarted, fuzz_ptr, loaded, job>>

\* init_tmout has passed.
InitTimeout ==
  /\ fpc = "start" /\ handler # "wait" /\ st = <<>> /\ ~Eof
  /\ fpc' = "fatal" /\ spc' = "dead"
  /\ UNCHANGED <<fuzzerRest, serverRest, ctl, st, proc, trace, sessionVars>>

WantsDict == "AUTODICT" \in target /\ ~ignore_autodict

\* The options the fuzzer takes up; nothing is written when there are none.
Reply ==
  {o \in {"SHDMEM"} : use_shmem_fuzz} \cup
  {o \in {"AUTODICT"} : WantsDict /\ add_extra_func}

\* MUTANT of Replies: a dictionary that is ignored still keeps the reply back.
Replies_Late == (use_shmem_fuzz /\ "AUTODICT" \notin target) \/ WantsDict

Replies == use_shmem_fuzz \/ WantsDict

\* The reply, if there is one to give.
SendReply ==
  /\ fpc = "reply" /\ handler # "wait"
  /\ \/ Replies /\ Gone /\ fpc' = "fatal" /\ UNCHANGED ctl
     \/ /\ Replies /\ ~Gone
        /\ ctl' = Append(ctl, [was_killed |-> TRUE, run |-> 0, opts |-> Reply])
        /\ fpc' = IF "AUTODICT" \in Reply THEN "dict" ELSE "up"
     \/ ~Replies /\ fpc' = "up" /\ UNCHANGED ctl
  /\ UNCHANGED <<fuzzerRest, serverVars, st, proc, trace, sessionVars>>

\* The dictionary is read to its end and its tokens are added.
ReadDict ==
  /\ fpc = "dict" /\ handler # "wait"
  /\ \/ st # <<>> /\ fpc' = "up" /\ st' = Tail(st) /\ loaded' = loaded + 1
     \/ Eof /\ fpc' = "fatal" /\ UNCHANGED <<st, loaded>>
  /\ UNCHANGED <<fuzzerRest, serverVars, ctl, proc, trace, target, ignore_autodict, restarted,
                 use_shmem_fuzz, fuzz_ptr, job>>

\* The maps are large enough: on to the runs.  Nobody looks at the options
\* again, so they are forgotten.
Started ==
  /\ fpc = "up" /\ handler # "wait" /\ ("LARGE" \notin target \/ restarted)
  /\ fpc' = "idle"
  /\ target' = {} /\ ignore_autodict' = FALSE /\ restarted' = FALSE
  /\ UNCHANGED <<fuzzerRest, serverVars, ctl, st, proc, trace, use_shmem_fuzz, fuzz_ptr,
                 loaded, job>>

\* setenv("AFL_NO_AUTODICT"): "loaded already".
NoAutodict == TRUE

\* The target's map is larger than the first one: the server is killed and,
\* with new pipes and maps, another one started.
Restart ==
  /\ fpc = "up" /\ handler # "wait" /\ "LARGE" \in target /\ ~restarted
  /\ IF Gone THEN UNCHANGED proc ELSE AtExit
  /\ restarted' = TRUE /\ ignore_autodict' = NoAutodict
  /\ fpc' = "start" /\ spc' = "start" /\ fuzz_ptr' = FALSE
  /\ srv_child' = 0 /\ forked' = 0 /\ srv_sigterm' = FALSE
  /\ ctl' = <<>> /\ st' = <<>>
  /\ UNCHANGED <<fuzzerRest, child_stopped, was_killed, status, srv_run, trace, target,
                 use_shmem_fuzz, loaded, job>>

----------------------------------------------------------------------------
(* __afl_start_forkserver up to its loop                                   *)

\* The target gets as far as its hello, or finds that it cannot attach.
SrvHello ==
  /\ spc = "start" /\ ~FuzzerGone
  /\ \/ /\ st' = Append(st, Hello(target))
        /\ spc' = IF target \cap {"AUTODICT", "SHDMEM"} = {} THEN "read" ELSE "opts"
     \/ /\ st' = Append(st, Hello({"ERROR"}))
        /\ spc' = "dead"
  /\ UNCHANGED <<fuzzerVars, serverRest, ctl, proc, trace, sessionVars>>

\* A fuzzer that does not reply has sent its first request.
AlreadyReadFirst(opts) == "AUTODICT" \notin opts /\ "SHDMEM" \notin opts

\* The reply, or what is taken for one.
SrvOptions ==
  LET r == Head(ctl)
  IN  /\ spc = "opts" /\ ctl # <<>>
      /\ ctl' = Tail(ctl)
      /\ fuzz_ptr' = ("SHDMEM" \in r.opts)
      /\ was_killed' = r.was_killed /\ srv_run' = r.run
      /\ spc' = IF "AUTODICT" \in r.opts THEN "dict"
                ELSE IF AlreadyReadFirst(r.opts) THEN "check" ELSE "read"
      /\ UNCHANGED <<fuzzerVars, srv_child, child_stopped, status, forked, srv_sigterm,
                     st, proc, trace, target, ignore_autodict, restarted, use_shmem_fuzz,
                     loaded, job>>

SrvDict ==
  /\ spc = "dict" /\ ~FuzzerGone
  /\ st' = Append(st, [dict |-> TRUE])
  /\ spc' = "read"
  /\ UNCHANGED <<fuzzerVars, serverRest, ctl, proc, trace, sessionVars>>

----------------------------------------------------------------------------
(* The end of afl-fuzz and the worker                                      *)

\* MUTANT of KillGroup: the exit handler only signals the server itself.
KillGroup_Server == proc

\* killpg with SIGTERM and then with the kill signal: children live in the
\* process group of the server.
KillGroup == [p \in Pids |-> Signalled(Signalled(proc[p], "SIGTERM"), child_kill_signal)]

\* at_exit: the group is found through the server's pid, unless the stop
\* handler has waited for the server, and so has freed its pid.
FuzzerAtExit ==
  /\ fpc \in {"fatal", "exit"}
  /\ fpc' = "ended"
  /\ IF handler = "done"
     THEN UNCHANGED <<proc, spc, srv_sigterm>>
     ELSE /\ proc' = KillGroup /\ srv_sigterm' = TRUE
          /\ spc' = IF Gone \/ child_kill_signal = "SIGTERM" THEN spc ELSE "dead"
  /\ UNCHANGED <<fuzzerRest, srv_child, child_stopped, was_killed, status, forked, srv_run,
                 ctl, st, trace, sessionVars>>

\* job_function: after fuzzing_sec, SIGTERM.
JobTerminate ==
  /\ job = "fuzzing" /\ HandleStopSig
  /\ job' = "stopping"
  /\ UNCHANGED <<target, ignore_autodict, restarted, use_shmem_fuzz, fuzz_ptr, loaded>>

\* After timeout_sec more, SIGKILL.
JobKill ==
  /\ job = "stopping" /\ fpc # "ended"
  /\ job' = "FAIL_FUZZING" /\ fpc' = "killed"
  /\ UNCHANGED <<fuzzerRest, serverVars, ctl, st, proc, trace, target, ignore_autodict,
                 restarted, use_shmem_fuzz, fuzz_ptr, loaded>>

JobReturns ==
  /\ job \in {"fuzzing", "stopping"} /\ fpc = "ended"
  /\ job' = IF job = "fuzzing" THEN "returncode" ELSE "STOP_FUZZING"
  /\ UNCHANGED <<vars, target, ignore_autodict, restarted, use_shmem_fuzz, fuzz_ptr, loaded>>

----------------------------------------------------------------------------

Handshake == ReadHello \/ InitTimeout \/ SendReply \/ ReadDict \/ Started \/ Restart
SrvHandshake == SrvOptions \/ SrvDict
Job == JobTerminate \/ JobKill \/ JobReturns

SessionNext ==
  \/ Handshake \/ SrvHello \/ SrvHandshake \/ FuzzerAtExit \/ Job
  \/ Running /\ UNCHANGED sessionVars

\* As in ForkServer.  Before its hello the target's own code runs and may hang.
\* A stopped fuzzer leaves its loop: every caller of a run looks at stop_soon.
SessionFairness ==
  /\ WF_<<vars, sessionVars>>(Handshake \/ (Fuzzer /\ UNCHANGED sessionVars) \/ FuzzerAtExit)
  /\ WF_<<vars, sessionVars>>(SrvHandshake \/ (Server /\ UNCHANGED sessionVars))
  /\ WF_<<vars, sessionVars>>(FuzzerExit /\ UNCHANGED sessionVars)

SessionSpec == SessionInit /\ [][SessionNext]_<<vars, sessionVars>> /\ SessionFairness

----------------------------------------------------------------------------
(* Properties                                                              *)

\* Type invariant of the session, with that of the runs.
SessionTypeOK ==
  /\ TypeOK
  /\ target \subseteq Options /\ loaded \in 0..2
  /\ {ignore_autodict, restarted, use_shmem_fuzz, fuzz_ptr} \subseteq BOOLEAN
  /\ job \in {"fuzzing", "stopping", "returncode", "STOP_FUZZING", "FAIL_FUZZING"}

\* When the target runs, both sides agree on where its input is, whatever the
\* target offered and the fuzzer was told to ignore: a child never waits for
\* stdin while the test case is in shared memory, or the other way round.  And
\* whenever a server is up, the dictionary of the target has been loaded, unless
\* the user does not want it, and the restart does not load it again.  (With
\* the types.)
HandshakeAgreed ==
  /\ SessionTypeOK
  /\ (\E p \in Pids : proc[p].state = "running") /\ ~stop_soon => fuzz_ptr = use_shmem_fuzz
  /\ fpc = "up" => loaded <= 1 /\ ("AUTODICT" \in target /\ ~ignore_autodict => loaded = 1)

\* "Once woken up, create a clone of our process": the server runs the target
\* only for a run that the fuzzer has asked for.
RequestedRun == \A p \in Pids : proc[p].state = "running" => proc[p].run > 0

\* When afl-fuzz has ended, stopped or by FATAL, no child lives on, and the
\* worker's job leaves nothing behind.  Three exceptions: a child forked as
\* SIGTERM reached the server; the child of a server that something else
\* killed before the stop handler waited for it; and, with AFL_KILL_SIGNAL=15,
\* the stopped child of such a server, for which SIGTERM stays pending.
NoOrphans ==
  fpc = "ended" =>
    /\ Gone
    /\ \A p \in Pids : proc[p].state \in {"running", "stopped"} =>
         \/ p = forked
         \/ spc = "dead" /\ stop_soon
         \/ spc = "dead" /\ child_kill_signal = "SIGTERM" /\ proc[p].state = "stopped"

\* After the stop signal afl-fuzz ends, in the handshake as in a run.
StopEnds == stop_soon ~> fpc \in {"ended", "killed"}

\* Also when afl-fuzz was killed the server leaves, unless it waits for a
\* target that hangs.
ServerLeaves == FuzzerGone ~> Gone \/ (spc = "wait" /\ proc[srv_child].state = "running")

\* The fork server with its handshake and its end implements TargetRun.
TR == INSTANCE TargetRun WITH
  phase <- IF fpc \in Ending THEN "over"
           ELSE IF fpc \in {"pid", "wait", "kill", "late"} THEN "busy" ELSE "idle",
  runs <- run,
  crashed <- \E p \in Pids : proc[p].cause = "crash" /\ proc[p].run = run,
  hits <- trace,
  stopping <- stop_soon

Implements == TR!Spec

=============================================================================
