--------------------------- MODULE SessionProofs ---------------------------
(***************************************************************************)
(* Proofs about the fork server and its session, for any number of runs,   *)
(* either kind of target and either kill signal, with the server killed or *)
(* not: every result is that of its own run, the map is at rest between    *)
(* runs, both sides agree on the options, nothing lives on, and the        *)
(* session implements TargetRun.                                           *)
(*                                                                         *)
(* They are about the server of afl-fuzz itself: add_extra_func holds.     *)
(* Without it the reply may be taken for a request, see RequestedRun.      *)
(***************************************************************************)
EXTENDS Session, SequenceTheorems, TLAPS

\* The messages on the control pipe: a request for run r, with the flag of the
\* run before, and a reply with options.
RequestMsg(b, r) == [was_killed |-> b, run |-> r, opts |-> {}]
ReplyMsg(o) == [was_killed |-> TRUE, run |-> 0, opts |-> o]

Replyable == {{"SHDMEM"}, {"AUTODICT"}, {"SHDMEM", "AUTODICT"}}

\* What a control pipe can hold: a request, a reply, or one after the other.
IsReq(c, r) == \E b \in BOOLEAN : c = <<RequestMsg(b, r)>>
IsRep(c) == \E o \in Replyable : c = <<ReplyMsg(o)>>
IsShmem(c) == c = <<ReplyMsg({"SHDMEM"})>>
IsRepReq(c, r) == \E b \in BOOLEAN : c = <<ReplyMsg({"SHDMEM"}), RequestMsg(b, r)>>

\* The flag of the request on the pipe.
Killed(c) == c[Len(c)].was_killed

\* What a status pipe can hold during a run: a pid, a status, or both.
Msg(p, s) == [pid |-> p, status |-> s]
StatusSet == [cause : {"exit", "crash", "signal", "stop"}, run : RunNo]

IsPid(s) == \E p \in Pids : s = <<Msg(p, NoStatus)>>
IsStatus(s) == \E p \in Pids, x \in StatusSet : s = <<Msg(p, x)>>
IsPidStatus(s) == \E p, q \in Pids, x \in StatusSet : s = <<Msg(q, NoStatus), Msg(p, x)>>

\* The status on the pipe.
StatusOf(s) == s[Len(s)].status

Setup == {"start", "reply", "dict", "up"}
Busy == {"pid", "wait", "kill", "late"}
Working == {"check", "forked", "pid", "wait", "status"}

Live(p) == proc[p].state \in {"running", "stopped", "zombie"}
NoneRuns == \A p \in Pids : proc[p].state # "running"

\* A fuzzer that is being stopped takes no status any more, unless it has
\* already killed the child and waits for it.
Void == stop_soon /\ fpc \notin {"kill", "late"}

----------------------------------------------------------------------------
(* The inductive invariant                                                 *)

Types ==
  /\ fpc \in Setup \cup {"idle"} \cup Busy \cup Ending
  /\ run \in RunNo /\ child_pid \in {0} \cup Pids
  /\ last_run_timed_out \in BOOLEAN /\ stop_soon \in BOOLEAN
  /\ handler \in {"none", "wait", "done"}
  /\ result \in {"none", "OK", "TMOUT", "CRASH"}
  /\ got \in StatusSet \cup {NoStatus} /\ status \in StatusSet \cup {NoStatus}
  /\ spc \in {"start", "opts", "dict", "read", "exit", "dead"} \cup Working
  /\ srv_child \in {0} \cup Pids /\ forked \in {0} \cup Pids
  /\ child_stopped \in BOOLEAN /\ was_killed \in BOOLEAN /\ srv_sigterm \in BOOLEAN
  /\ srv_run \in RunNo
  /\ trace \in SUBSET RunNo
  /\ target \in SUBSET Options /\ loaded \in {0, 1}
  /\ ignore_autodict \in BOOLEAN /\ restarted \in BOOLEAN
  /\ use_shmem_fuzz \in BOOLEAN /\ fuzz_ptr \in BOOLEAN
  /\ job \in {"fuzzing", "stopping", "returncode", "STOP_FUZZING", "FAIL_FUZZING"}

\* The stop signal and the end.
Stops ==
  /\ stop_soon <=> handler # "none"
  /\ job \in {"stopping", "STOP_FUZZING", "FAIL_FUZZING"} <=> stop_soon
  /\ fpc = "killed" => stop_soon
  /\ fpc \in {"fatal", "exit", "ended"} => Gone /\ handler # "wait"
  /\ handler = "done" /\ fpc \notin {"start", "killed"} => Gone

\* Before the first run nothing has been forked.
Fresh ==
  /\ fpc \in Setup => run = 0
  /\ fpc \in Busy => run # 0
  /\ run = 0 => /\ \A p \in Pids : proc[p] = NoProcess
                /\ srv_child = 0 /\ forked = 0 /\ ~child_stopped
                /\ ~last_run_timed_out /\ result = "none" /\ trace = {}

\* What is on the control pipe.
Control ==
  /\ ctl = <<>> \/ IsReq(ctl, run) \/ IsRep(ctl) \/ IsRepReq(ctl, run)
  /\ IsReq(ctl, run) => run > 0 /\ (Gone \/ spc \in {"opts", "read"})
  /\ IsRep(ctl) => Gone \/ spc = "opts"
  /\ IsRepReq(ctl, run) => run > 0 /\ (Gone \/ spc = "opts")
  /\ spc \in Working => srv_run = run /\ run > 0

\* A target without options to reply to.
Plain == target \cap {"AUTODICT", "SHDMEM"} = {}

\* Where the two sides are in the dialogue, while the fuzzer takes part in it.
Dialogue ==
  /\ Len(st) \in {0, 1, 2}
  /\ fpc = "start" =>
       /\ ctl = <<>>
       /\ \/ st = <<>> /\ (spc = "start" \/ Gone)
          \/ /\ st = <<Hello(target)>>
             /\ (spc = "read" /\ Plain) \/ spc = "opts" \/ Gone
          \/ st = <<Hello({"ERROR"})>> /\ Gone
  /\ fpc = "reply" =>
       /\ ctl = <<>> /\ st = <<>>
       /\ (spc = "read" /\ Plain) \/ spc = "opts" \/ Gone
       /\ use_shmem_fuzz <=> "SHDMEM" \in target
  /\ fpc = "dict" =>
       \/ st = <<>> /\ (Gone \/ (spc = "opts" /\ IsRep(ctl)) \/ (spc = "dict" /\ ctl = <<>>))
       \/ st = <<[dict |-> TRUE]>> /\ ctl = <<>> /\ (Gone \/ spc = "read")
  /\ fpc \in {"up", "idle"} /\ ~Gone =>
       /\ st = <<>>
       /\ \/ spc = "opts" /\ (ctl = <<>> \/ IsShmem(ctl))
          \/ spc = "read" /\ ctl = <<>>
  /\ fpc = "pid" =>
       \/ st = <<>> /\ (Gone \/ (spc \in {"opts", "read"} /\ IsReq(ctl, run))
                             \/ (spc = "opts" /\ IsRepReq(ctl, run))
                             \/ spc \in {"check", "forked", "pid"})
       \/ IsPid(st) /\ ctl = <<>> /\ (Gone \/ spc \in {"wait", "status"})
       \/ IsPidStatus(st) /\ ctl = <<>> /\ (Gone \/ spc = "read")
  /\ fpc \in {"wait", "kill", "late"} =>
       /\ ctl = <<>>
       /\ \/ st = <<>> /\ (Gone \/ spc \in {"wait", "status"})
          \/ IsStatus(st) /\ (Gone \/ spc = "read")

Procs == proc \in [Pids -> Process]

\* The children: one at most is alive, the server's or the one just forked.
Children ==
  /\ \A p \in Pids :
       /\ proc[p].state = "none" => proc[p] = NoProcess
       /\ proc[p].state \in {"running", "stopped"} => proc[p].cause = "none"
       /\ proc[p].state = "zombie" => proc[p].cause # "none"
       /\ proc[p].run <= run
       /\ Live(p) => p = srv_child \/ p = forked
       /\ proc[p].state = "running" => proc[p].run = run
  /\ forked # 0 => spc = "forked" \/ Gone
  /\ spc = "forked" => forked # 0 /\ Live(forked) /\ (srv_child # 0 => ~Live(srv_child))
  /\ srv_child # 0 => proc[srv_child].state # "none"
  /\ spc = "exit" /\ srv_child # 0 => ~Live(srv_child)

\* When the server is not busy with a child, none runs, and one that is alive
\* has been seen to stop.
Rest ==
  /\ spc \in {"start", "opts", "dict", "read", "check", "status"} =>
       NoneRuns /\ (srv_child # 0 /\ Live(srv_child) => child_stopped)
  /\ spc \in {"forked", "pid", "wait"} => ~child_stopped
  /\ spc \in {"pid", "wait"} => srv_child # 0 /\ Live(srv_child)
  /\ spc = "status" => status \in StatusSet /\ srv_child # 0
  /\ child_stopped => srv_child # 0 /\ (Live(srv_child) \/ Gone)
  /\ fpc = "idle" /\ ~stop_soon => NoneRuns
  /\ fpc = "pid" /\ IsPidStatus(st) => NoneRuns
  /\ fpc \in {"wait", "kill", "late"} /\ IsStatus(st) => NoneRuns

\* s is the status of this run.
OwnStatus(s) ==
  /\ s.run = run
  /\ s.cause = "crash" <=> \E p \in Pids : proc[p].cause = "crash" /\ proc[p].run = run

\* The status that is on its way is that of the current run.
Statuses ==
  /\ spc = "check" \/ IsReq(ctl, run) \/ IsRepReq(ctl, run) => \A p \in Pids : proc[p].run < run
  /\ spc = "forked" => proc[forked].run = run /\ \A p \in Pids : p # forked => proc[p].run < run
  /\ spc \in {"pid", "wait"} => \A p \in Pids : p # srv_child => proc[p].run < run
  /\ ~Void => /\ spc \in {"pid", "wait"} => proc[srv_child].run = run
              /\ spc = "status" => OwnStatus(status)
              /\ fpc = "pid" /\ IsPidStatus(st) => OwnStatus(StatusOf(st))
              /\ fpc \in {"wait", "kill", "late"} /\ IsStatus(st) => OwnStatus(StatusOf(st))

\* The child waits to go on, unless it is going to be written off.
Tame == proc[srv_child].state = "stopped" /\ ~proc[srv_child].term
WrittenOff ==
  \/ spc = "check" /\ was_killed
  \/ (IsReq(ctl, run) \/ IsRepReq(ctl, run)) /\ Killed(ctl)

\* As long as nobody has asked to stop and the time is not up, no child is
\* killed or going to be, but one of the run before.
Innocent ==
  /\ fpc = "late" => last_run_timed_out
  /\ fpc \in {"pid", "wait", "kill"} => ~last_run_timed_out
  /\ ~stop_soon /\ ~Gone /\ fpc \in {"idle", "pid", "wait", "kill"} /\ ~last_run_timed_out
       /\ child_stopped => Tame \/ WrittenOff
  /\ ~stop_soon /\ fpc \in {"pid", "wait", "kill"} =>
       /\ spc = "forked" => proc[forked].cause # "signal" /\ ~proc[forked].term
       /\ spc \in {"pid", "wait"} => proc[srv_child].cause # "signal" /\ ~proc[srv_child].term
       /\ spc = "status" => status.cause # "signal"
       /\ fpc = "pid" /\ IsPidStatus(st) => StatusOf(st).cause # "signal"
       /\ fpc \in {"wait", "kill"} /\ IsStatus(st) => StatusOf(st).cause # "signal"

\* What was returned.
Returned ==
  /\ result # "none" => fpc \in {"idle"} \cup Ending /\ got.run = run
  /\ result = "CRASH" => got.cause = "crash"
  /\ trace \subseteq {run}

\* The two sides agree on the shared memory test case.
Agreed ==
  /\ ~Gone /\ spc \in {"start", "opts"} => ~fuzz_ptr
  /\ fpc = "start" /\ spc = "read" => ~fuzz_ptr
  /\ fpc = "reply" /\ spc = "read" => ~fuzz_ptr
  /\ fpc = "dict" /\ IsRep(ctl) =>
       "AUTODICT" \in Head(ctl).opts /\ ("SHDMEM" \in Head(ctl).opts <=> use_shmem_fuzz)
  /\ fpc \in {"up", "idle", "pid"} /\ spc = "opts" => (use_shmem_fuzz <=> IsRep(ctl) \/ IsRepReq(ctl, run))
  /\ fpc \notin {"start", "reply", "killed"} /\ (spc \in {"dict", "read"} \cup Working) =>
       (fuzz_ptr <=> use_shmem_fuzz)
  /\ ~stop_soon /\ ~NoneRuns => (fuzz_ptr <=> use_shmem_fuzz)

\* The dictionary is loaded once.
Dictionary ==
  /\ fpc \in {"start", "reply", "dict"} /\ ~ignore_autodict => loaded = 0
  /\ fpc = "dict" => ~ignore_autodict
  /\ fpc = "up" /\ "AUTODICT" \in target /\ ~ignore_autodict => loaded = 1

\* What afl-fuzz leaves behind.
Orphans ==
  fpc = "ended" =>
    \A p \in Pids : proc[p].state \in {"running", "stopped"} =>
      \/ p = forked
      \/ spc = "dead" /\ stop_soon
      \/ spc = "dead" /\ child_kill_signal = "SIGTERM" /\ proc[p].state = "stopped"

IInv ==
  /\ Types /\ Procs /\ Stops /\ Fresh /\ Control /\ Dialogue /\ Children /\ Rest /\ Statuses
  /\ Innocent /\ Returned /\ Agreed /\ Dictionary /\ Orphans

----------------------------------------------------------------------------
(* Pipes and messages                                                      *)

\* Sequences of up to two messages.
LEMMA Tuples ==
  ASSUME NEW a, NEW b
  PROVE  /\ <<a>> # <<>> /\ <<a, b>> # <<>>
         /\ Head(<<a>>) = a /\ Tail(<<a>>) = <<>>
         /\ Head(<<a, b>>) = a /\ Tail(<<a, b>>) = <<b>>
         /\ Append(<<>>, a) = <<a>> /\ Append(<<a>>, b) = <<a, b>>
         /\ Len(<<>>) = 0 /\ Len(<<a>>) = 1 /\ Len(<<a, b>>) = 2
<1>1. <<a>> # <<>> /\ <<a, b>> # <<>>
  OBVIOUS
<1>2. Head(<<a>>) = a /\ Head(<<a, b>>) = a
  OBVIOUS
<1>3. Tail(<<a>>) = <<>>
  OBVIOUS
<1>4. Tail(<<a, b>>) = <<b>>
  OBVIOUS
<1>5. Append(<<>>, a) = <<a>>
  OBVIOUS
<1>6. Append(<<a>>, b) = <<a, b>>
  <2> DEFINE S == {a, b}
             s == Append(<<a>>, b)
             t == <<a, b>>
  <2>1. <<a>> \in Seq(S) /\ b \in S /\ Len(<<a>>) = 1 /\ <<a>>[1] = a
    OBVIOUS
  <2>2. t \in Seq(S) /\ Len(t) = 2 /\ t[1] = a /\ t[2] = b
    OBVIOUS
  <2>3. s \in Seq(S) /\ Len(s) = 2 /\ s[1] = a /\ s[2] = b
    <3> HIDE DEF S
    <3> QED BY <2>1, AppendProperties
  <2>4. \A i \in 1..Len(s) : s[i] = t[i]
    BY <2>2, <2>3
  <2> HIDE DEF S, s, t
  <2>5. s = t
    BY <2>2, <2>3, <2>4, SeqEqual
  <2> QED BY <2>5 DEF s, t
<1>7. Len(<<>>) = 0 /\ Len(<<a>>) = 1 /\ Len(<<a, b>>) = 2
  OBVIOUS
<1> QED BY <1>1, <1>2, <1>3, <1>4, <1>5, <1>6, <1>7

\* The empty pipe.
LEMMA EmptyLen == Len(<<>>) = 0
OBVIOUS

\* Equal sequences hold equal messages.
LEMMA SameTuples ==
  /\ \A a, b : <<a>> = <<b>> => a = b
  /\ \A a, b, c, d : <<a, b>> = <<c, d>> => a = c /\ b = d
  /\ \A a, b, c : <<a>> # <<b, c>>
OBVIOUS

\* The fields of a message.
LEMMA Fields ==
  /\ \A b, r : RequestMsg(b, r).was_killed = b /\ RequestMsg(b, r).run = r /\ RequestMsg(b, r).opts = {}
  /\ \A o : ReplyMsg(o).was_killed = TRUE /\ ReplyMsg(o).run = 0 /\ ReplyMsg(o).opts = o
  /\ \A p, x : Msg(p, x).pid = p /\ Msg(p, x).status = x
BY DEF RequestMsg, ReplyMsg, Msg

\* The last of one or two messages.
LEMMA Lasts ==
  ASSUME NEW a, NEW b
  PROVE  /\ <<a>>[Len(<<a>>)] = a
         /\ <<a, b>>[Len(<<a, b>>)] = b
OBVIOUS

\* The control pipe: its shapes exclude each other, and what its reader and its
\* writer make of them.
LEMMA ControlPipe ==
  ASSUME NEW c, NEW r
  PROVE  /\ c = <<>> => ~IsReq(c, r) /\ ~IsRep(c) /\ ~IsRepReq(c, r)
         /\ IsReq(c, r) => ~IsRep(c) /\ ~IsRepReq(c, r)
         /\ IsRep(c) => ~IsRepReq(c, r)
         /\ IsShmem(c) => IsRep(c) /\ Head(c).opts = {"SHDMEM"}
         /\ IsReq(c, r) => /\ Len(c) = 1 /\ Tail(c) = <<>> /\ Killed(c) \in BOOLEAN
                           /\ Head(c).was_killed = Killed(c) /\ Head(c).run = r /\ Head(c).opts = {}
         /\ IsRep(c) => Len(c) = 1 /\ Tail(c) = <<>> /\ Head(c).opts \in Replyable
                        /\ Head(c).run = 0 /\ Head(c).was_killed = TRUE
         /\ IsRepReq(c, r) => /\ Len(c) = 2 /\ IsReq(Tail(c), r) /\ Killed(Tail(c)) = Killed(c)
                              /\ Head(c).opts = {"SHDMEM"}
                              /\ Head(c).run = 0 /\ Head(c).was_killed = TRUE
<1>1. c = <<>> => ~IsReq(c, r) /\ ~IsRep(c) /\ ~IsRepReq(c, r)
  BY DEF IsReq, IsRep, IsRepReq
<1>2. IsReq(c, r) => ~IsRep(c) /\ ~IsRepReq(c, r)
  <2>1. \A b : \A o \in Replyable : RequestMsg(b, r) # ReplyMsg(o)
    BY Fields DEF Replyable
  <2> QED BY <2>1, SameTuples DEF IsReq, IsRep, IsRepReq
<1>3. IsRep(c) => ~IsRepReq(c, r)
  BY SameTuples DEF IsRep, IsRepReq
<1>4. IsShmem(c) => IsRep(c) /\ Head(c).opts = {"SHDMEM"}
  BY Tuples, Fields DEF IsShmem, IsRep, Replyable
<1>5. ASSUME IsReq(c, r)
      PROVE  /\ Len(c) = 1 /\ Tail(c) = <<>> /\ Killed(c) \in BOOLEAN
             /\ Head(c).was_killed = Killed(c) /\ Head(c).run = r /\ Head(c).opts = {}
  <2>1. PICK b \in BOOLEAN : c = <<RequestMsg(b, r)>>
    BY <1>5 DEF IsReq
  <2>2. Killed(c) = b
    BY <2>1, Lasts, Fields DEF Killed
  <2>3. Head(c) = RequestMsg(b, r) /\ Tail(c) = <<>> /\ Len(c) = 1
    BY <2>1, Tuples
  <2> QED BY <2>2, <2>3, Fields
<1>6. IsRep(c) => Len(c) = 1 /\ Tail(c) = <<>> /\ Head(c).opts \in Replyable
                  /\ Head(c).run = 0 /\ Head(c).was_killed = TRUE
  BY Tuples, Fields DEF IsRep
<1>7. ASSUME IsRepReq(c, r)
      PROVE  /\ Len(c) = 2 /\ IsReq(Tail(c), r) /\ Killed(Tail(c)) = Killed(c)
             /\ Head(c).opts = {"SHDMEM"} /\ Head(c).run = 0 /\ Head(c).was_killed = TRUE
  <2>1. PICK b \in BOOLEAN : c = <<ReplyMsg({"SHDMEM"}), RequestMsg(b, r)>>
    BY <1>7 DEF IsRepReq
  <2>2. Head(c) = ReplyMsg({"SHDMEM"}) /\ Tail(c) = <<RequestMsg(b, r)>> /\ Len(c) = 2
    BY <2>1, Tuples
  <2>3. Killed(c) = b /\ Killed(Tail(c)) = b
    BY <2>1, <2>2, Lasts, Fields DEF Killed
  <2> QED BY <2>2, <2>3, Fields DEF IsReq
<1> QED BY <1>1, <1>2, <1>3, <1>4, <1>5, <1>6, <1>7

\* Writing to the control pipe.
LEMMA ControlWrites ==
  /\ \A r : \A b \in BOOLEAN :
       IsReq(Append(<<>>, RequestMsg(b, r)), r) /\ Killed(Append(<<>>, RequestMsg(b, r))) = b
  /\ \A c, r : \A b \in BOOLEAN :
       IsShmem(c) => /\ IsRepReq(Append(c, RequestMsg(b, r)), r)
                     /\ Killed(Append(c, RequestMsg(b, r))) = b
  /\ \A o \in Replyable : IsRep(Append(<<>>, ReplyMsg(o))) /\ Head(Append(<<>>, ReplyMsg(o))) = ReplyMsg(o)
  /\ IsShmem(Append(<<>>, ReplyMsg({"SHDMEM"})))
<1>1. ASSUME NEW b \in BOOLEAN, NEW r
      PROVE  /\ IsReq(Append(<<>>, RequestMsg(b, r)), r)
             /\ Killed(Append(<<>>, RequestMsg(b, r))) = b
  <2>1. Append(<<>>, RequestMsg(b, r)) = <<RequestMsg(b, r)>>
    BY Tuples
  <2>2. Killed(<<RequestMsg(b, r)>>) = b
    BY Lasts, Fields DEF Killed
  <2> QED BY <2>1, <2>2 DEF IsReq
<1>2. ASSUME NEW c, NEW r, NEW b \in BOOLEAN, IsShmem(c)
      PROVE  /\ IsRepReq(Append(c, RequestMsg(b, r)), r)
             /\ Killed(Append(c, RequestMsg(b, r))) = b
  <2>1. Append(c, RequestMsg(b, r)) = <<ReplyMsg({"SHDMEM"}), RequestMsg(b, r)>>
    BY <1>2, Tuples DEF IsShmem
  <2>2. Killed(<<ReplyMsg({"SHDMEM"}), RequestMsg(b, r)>>) = b
    BY Lasts, Fields DEF Killed
  <2> QED BY <2>1, <2>2 DEF IsRepReq
<1>3. ASSUME NEW o
      PROVE  Append(<<>>, ReplyMsg(o)) = <<ReplyMsg(o)>>
             /\ Head(Append(<<>>, ReplyMsg(o))) = ReplyMsg(o)
  BY Tuples
<1> QED BY <1>1, <1>2, <1>3 DEF IsRep, IsShmem

\* The status pipe during a run.
LEMMA StatusPipe ==
  ASSUME NEW s
  PROVE  /\ s = <<>> => ~IsPid(s) /\ ~IsStatus(s) /\ ~IsPidStatus(s)
         /\ IsPid(s) => ~IsPidStatus(s) /\ ~IsStatus(s)
         /\ IsPid(s) => Len(s) = 1 /\ Tail(s) = <<>> /\ Head(s).pid \in Pids
         /\ IsStatus(s) => /\ Len(s) = 1 /\ Tail(s) = <<>>
                           /\ StatusOf(s) \in StatusSet /\ Head(s).status = StatusOf(s)
         /\ IsPidStatus(s) => /\ Len(s) = 2 /\ Head(s).pid \in Pids
                              /\ IsStatus(Tail(s)) /\ StatusOf(Tail(s)) = StatusOf(s)
<1>1. s = <<>> => ~IsPid(s) /\ ~IsStatus(s) /\ ~IsPidStatus(s)
  BY DEF IsPid, IsStatus, IsPidStatus
<1>2. IsPid(s) => ~IsPidStatus(s) /\ ~IsStatus(s)
  <2>1. \A x \in StatusSet : x # NoStatus
    BY DEF StatusSet, NoStatus, Status
  <2>2. \A p, q \in Pids, x \in StatusSet : Msg(p, x) # Msg(q, NoStatus)
    BY <2>1, Fields
  <2> QED BY <2>2, SameTuples DEF IsPid, IsPidStatus, IsStatus
<1>3. IsPid(s) => Len(s) = 1 /\ Tail(s) = <<>> /\ Head(s).pid \in Pids
  BY Tuples, Fields DEF IsPid
<1>4. ASSUME IsStatus(s)
      PROVE  /\ Len(s) = 1 /\ Tail(s) = <<>>
             /\ StatusOf(s) \in StatusSet /\ Head(s).status = StatusOf(s)
  <2>1. PICK p \in Pids, x \in StatusSet : s = <<Msg(p, x)>>
    BY <1>4 DEF IsStatus
  <2>2. StatusOf(s) = x
    BY <2>1, Lasts, Fields DEF StatusOf
  <2> QED BY <2>1, <2>2, Tuples, Fields
<1>5. ASSUME IsPidStatus(s)
      PROVE  /\ Len(s) = 2 /\ Head(s).pid \in Pids
             /\ IsStatus(Tail(s)) /\ StatusOf(Tail(s)) = StatusOf(s)
  <2>1. PICK p \in Pids, q \in Pids, x \in StatusSet : s = <<Msg(q, NoStatus), Msg(p, x)>>
    BY <1>5 DEF IsPidStatus
  <2>2. Tail(s) = <<Msg(p, x)>> /\ Len(s) = 2 /\ Head(s) = Msg(q, NoStatus)
    BY <2>1, Tuples
  <2>3. StatusOf(s) = x /\ StatusOf(Tail(s)) = x
    BY <2>1, <2>2, Lasts, Fields DEF StatusOf
  <2> QED BY <2>2, <2>3, Fields DEF IsStatus
<1> QED BY <1>1, <1>2, <1>3, <1>4, <1>5

\* Writing to the status pipe.
LEMMA StatusWrites ==
  ASSUME NEW p \in Pids
  PROVE  /\ IsPid(Append(<<>>, Msg(p, NoStatus)))
         /\ \A x \in StatusSet : /\ IsStatus(Append(<<>>, Msg(p, x)))
                                 /\ StatusOf(Append(<<>>, Msg(p, x))) = x
         /\ \A s : \A x \in StatusSet :
              IsPid(s) => /\ IsPidStatus(Append(s, Msg(p, x)))
                          /\ StatusOf(Append(s, Msg(p, x))) = x
<1>1. IsPid(Append(<<>>, Msg(p, NoStatus)))
  BY Tuples DEF IsPid
<1>2. ASSUME NEW x \in StatusSet
      PROVE  IsStatus(Append(<<>>, Msg(p, x))) /\ StatusOf(Append(<<>>, Msg(p, x))) = x
  <2>1. Append(<<>>, Msg(p, x)) = <<Msg(p, x)>>
    BY Tuples
  <2>2. StatusOf(<<Msg(p, x)>>) = x
    BY Lasts, Fields DEF StatusOf
  <2> QED BY <2>1, <2>2 DEF IsStatus
<1>3. ASSUME NEW s, NEW x \in StatusSet, IsPid(s)
      PROVE  IsPidStatus(Append(s, Msg(p, x))) /\ StatusOf(Append(s, Msg(p, x))) = x
  <2>1. PICK q \in Pids : s = <<Msg(q, NoStatus)>>
    BY <1>3 DEF IsPid
  <2>2. Append(s, Msg(p, x)) = <<Msg(q, NoStatus), Msg(p, x)>>
    BY <2>1, Tuples
  <2>3. StatusOf(<<Msg(q, NoStatus), Msg(p, x)>>) = x
    BY Lasts, Fields DEF StatusOf
  <2> QED BY <2>2, <2>3 DEF IsPidStatus
<1> QED BY <1>1, <1>2, <1>3

----------------------------------------------------------------------------
(* Processes                                                               *)

\* A process that dies.
LEMMA DieIs ==
  ASSUME NEW c \in Process, NEW x \in {"exit", "crash", "signal"}
  PROVE  /\ Die(c, x) \in Process
         /\ Die(c, x).state = "zombie" /\ Die(c, x).term = FALSE
         /\ Die(c, x).cause = x /\ Die(c, x).run = c.run
BY DEF Die, Process

\* A process that is signalled does not run, and keeps its run.
LEMMA SignalledIs ==
  ASSUME NEW c \in Process, NEW sig
  PROVE  /\ Signalled(c, sig) \in Process
         /\ Signalled(c, sig).run = c.run
         /\ Signalled(c, sig).state # "running"
         /\ \/ Signalled(c, sig).state = c.state /\ Signalled(c, sig).cause = c.cause
            \/ /\ c.state \in {"running", "stopped"}
               /\ Signalled(c, sig).state = "zombie" /\ Signalled(c, sig).cause = "signal"
         /\ c.state \notin {"running", "stopped"} => Signalled(c, sig) = c
<1>1. CASE c.state = "running" \/ (c.state = "stopped" /\ sig = "SIGKILL")
  <2>1. Signalled(c, sig) = Die(c, "signal")
    BY <1>1 DEF Signalled
  <2>2. /\ Die(c, "signal") \in Process /\ Die(c, "signal").state = "zombie"
        /\ Die(c, "signal").cause = "signal" /\ Die(c, "signal").run = c.run
    BY DieIs
  <2> QED BY <1>1, <2>1, <2>2
<1>2. CASE c.state = "stopped" /\ sig # "SIGKILL"
  <2>1. Signalled(c, sig) = [c EXCEPT !.term = TRUE]
    BY <1>2 DEF Signalled
  <2> QED BY <1>2, <2>1 DEF Process
<1>3. CASE c.state \notin {"running", "stopped"}
  BY <1>3 DEF Signalled
<1> QED BY <1>1, <1>2, <1>3

\* A process that is continued takes up the new run, unless a SIGTERM waits.
LEMMA ContinuedIs ==
  ASSUME NEW c \in Process, NEW r \in RunNo
  PROVE  /\ Continued(c, r) \in Process
         /\ c.state # "stopped" => Continued(c, r) = c
         /\ c.state = "stopped" =>
              /\ Continued(c, r).run = r
              /\ \/ Continued(c, r).state = "running" /\ Continued(c, r).cause = c.cause
                 \/ Continued(c, r).state = "zombie" /\ Continued(c, r).cause = "signal"
              /\ ~c.term => /\ Continued(c, r).state = "running" /\ ~Continued(c, r).term
                            /\ Continued(c, r).cause = c.cause
<1>1. CASE c.state # "stopped"
  BY <1>1 DEF Continued
<1>2. CASE c.state = "stopped" /\ c.term
  <2> DEFINE d == [c EXCEPT !.run = r]
  <2>1. d \in Process /\ d.run = r
    BY DEF Process
  <2>2. Continued(c, r) = Die(d, "signal")
    BY <1>2 DEF Continued
  <2> HIDE DEF d
  <2>3. /\ Die(d, "signal") \in Process /\ Die(d, "signal").state = "zombie"
        /\ Die(d, "signal").cause = "signal" /\ Die(d, "signal").run = d.run
    BY <2>1, DieIs
  <2> QED BY <1>2, <2>1, <2>2, <2>3
<1>3. CASE c.state = "stopped" /\ ~c.term
  <2>1. Continued(c, r) = [c EXCEPT !.state = "running", !.run = r]
    BY <1>3 DEF Continued
  <2> QED BY <1>3, <2>1 DEF Process
<1> QED BY <1>1, <1>2, <1>3

\* One process changes.
LEMMA ProcUpdate ==
  ASSUME Procs, NEW p \in Pids, NEW c \in Process, proc' = [proc EXCEPT ![p] = c]
  PROVE  Procs' /\ proc'[p] = c /\ \A o \in Pids : o # p => proc'[o] = proc[o]
BY DEF Procs

\* What a signal makes of process c: if it lived, it does not run any more.
Quieted(c, d) ==
  \/ d = c
  \/ /\ c.state \in {"running", "stopped"} /\ d.state # "running" /\ d.run = c.run
     /\ \/ d.state = c.state /\ d.cause = c.cause
        \/ d.state = "zombie" /\ d.cause = "signal"

\* A signal changes one process or none.
LEMMA SignalIs ==
  ASSUME Procs, NEW p \in {0} \cup Pids, NEW sig, Signal(p, sig)
  PROVE  Procs' /\ \A o \in Pids : Quieted(proc[o], proc'[o])
<1>1. CASE p = 0
  BY <1>1 DEF Signal, Procs, Quieted
<1>2. CASE p # 0
  <2>1. p \in Pids /\ p > 0
    BY <1>2, ForkServerAssumption DEF Pids
  <2>2. proc' = [proc EXCEPT ![p] = Signalled(proc[p], sig)]
    BY <2>1 DEF Signal
  <2>3. proc[p] \in Process
    BY <2>1 DEF Procs
  <2>4. Signalled(proc[p], sig) \in Process /\ Quieted(proc[p], Signalled(proc[p], sig))
    BY <2>3, SignalledIs DEF Quieted
  <2>5. \A o \in Pids : o # p => Quieted(proc[o], proc[o])
    BY DEF Quieted
  <2> QED BY <2>1, <2>2, <2>4, <2>5, ProcUpdate
<1> QED BY <1>1, <1>2

\* The exit handler of afl-fuzz quiets all, and leaves none that lives but a
\* stopped one, when the kill signal is SIGTERM.
LEMMA KillGroupIs ==
  ASSUME Procs, proc' = KillGroup
  PROVE  /\ Procs' /\ \A o \in Pids : Quieted(proc[o], proc'[o])
         /\ \A o \in Pids : proc'[o].state \in {"running", "stopped"} =>
              child_kill_signal = "SIGTERM" /\ proc'[o].state = "stopped"
<1>1. ASSUME NEW o \in Pids
      PROVE  /\ proc'[o] \in Process /\ Quieted(proc[o], proc'[o])
             /\ proc'[o].state \in {"running", "stopped"} =>
                  child_kill_signal = "SIGTERM" /\ proc'[o].state = "stopped"
  <2> DEFINE c == Signalled(proc[o], "SIGTERM")
             d == Signalled(c, child_kill_signal)
  <2>1. proc[o] \in Process /\ proc'[o] = d
    BY DEF Procs, KillGroup
  <2>2. /\ c \in Process /\ c.run = proc[o].run /\ c.state # "running"
        /\ \/ c.state = proc[o].state /\ c.cause = proc[o].cause
           \/ proc[o].state \in {"running", "stopped"} /\ c.state = "zombie" /\ c.cause = "signal"
        /\ proc[o].state \notin {"running", "stopped"} => c = proc[o]
    BY <2>1, SignalledIs
  <2> HIDE DEF c
  <2>3. /\ d \in Process /\ d.run = c.run /\ d.state # "running"
        /\ \/ d.state = c.state /\ d.cause = c.cause
           \/ c.state \in {"running", "stopped"} /\ d.state = "zombie" /\ d.cause = "signal"
        /\ c.state \notin {"running", "stopped"} => d = c
    BY <2>2, SignalledIs
  <2>4. d.state = "stopped" => child_kill_signal = "SIGTERM"
    <3> SUFFICES ASSUME child_kill_signal = "SIGKILL" PROVE d.state # "stopped"
      BY ForkServerAssumption
    <3>1. CASE c.state = "stopped"
      <4>1. d = Die(c, "signal")
        BY <3>1 DEF Signalled
      <4> QED BY <4>1, <2>2, DieIs
    <3>2. CASE c.state # "stopped"
      BY <2>2, <2>3, <3>2
    <3> QED BY <3>1, <3>2
  <2> HIDE DEF d
  <2> QED BY <2>1, <2>2, <2>3, <2>4 DEF Quieted
<1>2. DOMAIN proc' = Pids /\ proc' = [o \in Pids |-> proc'[o]]
  BY DEF KillGroup
<1> QED BY <1>1, <1>2 DEF Procs

\* What waiting for process c, or killing it for good, makes of it.
Reaped(c, d) == d.state = "gone" /\ d.run = c.run /\ d.cause = c.cause

\* A process is waited for.
LEMMA ReapedIs ==
  ASSUME Procs, NEW p \in Pids, proc' = [proc EXCEPT ![p].state = "gone"]
  PROVE  Procs' /\ Reaped(proc[p], proc'[p]) /\ \A o \in Pids : o # p => proc'[o] = proc[o]
<1> DEFINE d == [proc[p] EXCEPT !.state = "gone"]
<1>1. proc[p] \in Process
  BY DEF Procs
<1>2. d \in Process /\ Reaped(proc[p], d)
  BY <1>1 DEF Process, Reaped
<1>3. proc' = [proc EXCEPT ![p] = d]
  BY DEF Procs
<1> HIDE DEF d
<1> QED BY <1>2, <1>3, ProcUpdate

\* The exit handler of the server takes its child with it.
LEMMA AtExitIs ==
  ASSUME Procs, srv_child \in {0} \cup Pids, AtExit
  PROVE  /\ Procs'
         /\ \A o \in Pids : IF o = srv_child THEN Reaped(proc[o], proc'[o]) ELSE proc'[o] = proc[o]
<1>1. CASE srv_child = 0
  BY <1>1, ForkServerAssumption DEF AtExit, Procs, Pids
<1>2. CASE srv_child # 0
  <2>1. srv_child \in Pids /\ srv_child > 0
    BY <1>2, ForkServerAssumption DEF Pids
  <2>2. proc' = [proc EXCEPT ![srv_child].state = "gone"]
    BY <2>1 DEF AtExit
  <2> QED BY <2>1, <2>2, ReapedIs
<1> QED BY <1>1, <1>2

\* What signals leave as it was.
LEMMA QuietedIs ==
  ASSUME Children, \A o \in Pids : Quieted(proc[o], proc'[o])
  PROVE  \A o \in Pids :
           /\ proc'[o].run = proc[o].run
           /\ proc'[o].cause = "crash" <=> proc[o].cause = "crash"
           /\ Live(o)' <=> Live(o)
           /\ proc'[o].state = "running" => proc[o].state = "running"
           /\ proc'[o].state \in {"running", "stopped"} =>
                proc'[o].cause = "none" /\ proc[o].state \in {"running", "stopped"}
           /\ proc'[o].state = "zombie" => proc'[o].cause # "none"
           /\ proc'[o].state = "none" => proc'[o] = NoProcess
           /\ proc[o].state \notin {"running", "stopped"} => proc'[o] = proc[o]
BY DEF Children, Quieted, Live

----------------------------------------------------------------------------
(* Every step keeps the invariant                                          *)

\* A run is asked for.
LEMMA KeepRunTarget ==
  ASSUME add_extra_func, IInv, RunTarget, UNCHANGED sessionVars
  PROVE  IInv'
<1>0. Types /\ Procs /\ Stops /\ Fresh /\ Control /\ Dialogue /\ Children /\ Rest /\ Statuses
      /\ Innocent /\ Returned /\ Agreed /\ Dictionary /\ Orphans
  BY DEF IInv
<1>a. /\ fpc = "idle" /\ handler # "wait" /\ trace' = {}
      /\ \/ ~Gone /\ run' = run + 1 /\ run' \in RunNo /\ last_run_timed_out' = FALSE
            /\ fpc' = "pid" /\ result' = "none" /\ got' = NoStatus
         \/ Gone /\ UNCHANGED <<run, ctl, last_run_timed_out, got>>
            /\ fpc' = (IF stop_soon THEN "idle" ELSE "fatal") /\ result' = "none"
      /\ UNCHANGED <<child_pid, stop_soon, handler, serverVars, st, proc, sessionVars>>
  BY <1>0, ForkServerAssumption DEF RunTarget, Failed, Types, RunNo
<1>b. ~Gone => ctl' = Append(ctl, RequestMsg(last_run_timed_out, run'))
  BY DEF RunTarget, Request, RequestMsg
<1>c. ~Gone => /\ st = <<>>
               /\ \/ spc = "opts" /\ ctl = <<>> /\ ~use_shmem_fuzz
                  \/ spc = "opts" /\ IsShmem(ctl) /\ use_shmem_fuzz
                  \/ spc = "read" /\ ctl = <<>>
  BY <1>0, <1>a, ControlPipe DEF Dialogue, Agreed
<1>d. ~Gone => \/ /\ spc \in {"opts", "read"} /\ (spc = "opts" => ~use_shmem_fuzz)
                  /\ IsReq(ctl', run') /\ ~IsRep(ctl') /\ ~IsRepReq(ctl', run')
                  /\ Killed(ctl') = last_run_timed_out
               \/ /\ spc = "opts" /\ use_shmem_fuzz
                  /\ IsRepReq(ctl', run') /\ ~IsReq(ctl', run') /\ ~IsRep(ctl')
                  /\ Killed(ctl') = last_run_timed_out
  <2>1. last_run_timed_out \in BOOLEAN
    BY <1>0 DEF Types
  <2>2. CASE ~Gone /\ ctl = <<>>
    <3>1. IsReq(ctl', run') /\ Killed(ctl') = last_run_timed_out
      BY <1>b, <2>1, <2>2, ControlWrites
    <3> QED BY <1>c, <2>2, <3>1, ControlPipe
  <2>3. CASE ~Gone /\ IsShmem(ctl)
    <3>1. IsRepReq(ctl', run') /\ Killed(ctl') = last_run_timed_out
      BY <1>b, <2>1, <2>3, ControlWrites
    <3> QED BY <1>c, <2>3, <3>1, ControlPipe
  <2> QED BY <1>c, <2>2, <2>3
<1>Types. Types'
  <2>1. /\ last_run_timed_out' \in BOOLEAN /\ run' \in RunNo /\ trace' \in SUBSET RunNo
        /\ result' \in {"none", "OK", "TMOUT", "CRASH"} /\ got' \in StatusSet \cup {NoStatus}
    BY <1>0, <1>a DEF Types
  <2>2. fpc' \in Setup \cup {"idle"} \cup Busy \cup Ending
    BY <1>a DEF Busy, Ending
  <2> QED BY <1>0, <1>a, <2>1, <2>2 DEF Types, serverVars, sessionVars
<1>Control. Control'
  <2>1. run' > 0 \/ Gone
    BY <1>0, <1>a, ForkServerAssumption DEF Types, RunNo
  <2>2. CASE Gone
    BY <1>0, <1>a, <2>2 DEF Control, Gone, Working, serverVars
  <2>3. CASE ~Gone
    BY <1>a, <1>c, <1>d, <2>1, <2>3 DEF Control, Gone, Working, serverVars
  <2> QED BY <2>2, <2>3
<1>Dialogue. Dialogue'
  <2>1. CASE Gone
    BY <1>0, <1>a, <2>1 DEF Dialogue, Gone, serverVars
  <2>2. CASE ~Gone
    BY <1>0, <1>a, <1>c, <1>d, <2>2 DEF Dialogue, Gone, serverVars
  <2> QED BY <2>1, <2>2
<1>Statuses. Statuses'
  <2>1. CASE Gone
    BY <1>0, <1>a, <2>1 DEF Statuses, Gone, serverVars, Void, OwnStatus
  <2>2. CASE ~Gone
    <3>1. \A p \in Pids : proc'[p].run < run'
      <4>1. \A p \in Pids : proc[p].run \in Nat /\ proc[p].run <= run
        BY <1>0, ForkServerAssumption DEF Children, Procs, Process, RunNo
      <4> QED BY <1>0, <1>a, <2>2, <4>1, ForkServerAssumption DEF Types, RunNo
    <3>2. spc' \in {"opts", "read"} /\ ~IsPidStatus(st') /\ fpc' = "pid"
      BY <1>a, <1>c, <2>2, StatusPipe DEF serverVars
    <3> QED BY <3>1, <3>2 DEF Statuses
  <2> QED BY <2>1, <2>2
<1>Innocent. Innocent'
  <2>1. CASE Gone
    BY <1>0, <1>a, <2>1 DEF Innocent, Gone, serverVars
  <2>2. CASE ~Gone
    <3>1. spc' \in {"opts", "read"} /\ spc' = spc /\ ~IsPidStatus(st') /\ fpc' = "pid"
      BY <1>a, <1>c, <2>2, StatusPipe DEF serverVars
    <3>2. ~stop_soon /\ child_stopped => Tame \/ last_run_timed_out
      <4>1. ctl = <<>> \/ IsShmem(ctl)
        BY <1>c, <2>2
      <4>2. ~WrittenOff
        BY <1>c, <2>2, <4>1, ControlPipe DEF WrittenOff
      <4> QED BY <1>0, <1>a, <2>2, <4>2 DEF Innocent
    <3>3. last_run_timed_out => WrittenOff'
      BY <1>d, <2>2 DEF WrittenOff
    <3>4. Tame => Tame'
      BY <1>a DEF Tame, serverVars
    <3>5. ~last_run_timed_out'
      BY <1>a, <2>2
    <3> QED BY <1>a, <3>1, <3>2, <3>3, <3>4, <3>5 DEF Innocent, serverVars
  <2> QED BY <2>1, <2>2
<1>Agreed. Agreed'
  <2>1. NoneRuns' <=> NoneRuns
    BY <1>a DEF NoneRuns
  <2>2. CASE Gone
    BY <1>0, <1>a, <2>1, <2>2 DEF Agreed, Gone, serverVars, sessionVars, Working
  <2>3. CASE ~Gone
    BY <1>0, <1>a, <1>c, <1>d, <2>1, <2>3 DEF Agreed, Gone, serverVars, sessionVars, Working
  <2> QED BY <2>2, <2>3
<1>Procs. Procs'
  BY <1>0, <1>a, <1>b, <1>c, <1>d DEF serverVars, sessionVars, Gone, Procs
<1>Stops. Stops'
  BY <1>0, <1>a, <1>b, <1>c, <1>d DEF serverVars, sessionVars, Gone, Stops, Ending
<1>Fresh. Fresh'
  BY <1>0, <1>a, <1>b, <1>c, <1>d DEF serverVars, sessionVars, Gone, Fresh, Setup, Busy, Types, Ending, Working, RunNo, Stops
<1>Children. Children'
  BY <1>0, <1>a, <1>b, <1>c, <1>d DEF serverVars, sessionVars, Gone, Children, Live, Types, Setup, Busy, Ending, Working, RunNo, Rest, NoneRuns, Process, Procs
<1>Rest. Rest'
  BY <1>0, <1>a, <1>b, <1>c, <1>d DEF serverVars, sessionVars, Gone, Rest, NoneRuns, Live
<1>Returned. Returned'
  BY <1>0, <1>a, <1>b, <1>c, <1>d DEF serverVars, sessionVars, Gone, Returned, Ending
<1>Dictionary. Dictionary'
  BY <1>0, <1>a, <1>b, <1>c, <1>d DEF serverVars, sessionVars, Gone, Dictionary
<1>Orphans. Orphans'
  BY <1>0, <1>a, <1>b, <1>c, <1>d DEF serverVars, sessionVars, Gone, Orphans
<1> QED BY <1>Types, <1>Procs, <1>Stops, <1>Fresh, <1>Control, <1>Dialogue, <1>Children, <1>Rest, <1>Statuses, <1>Innocent, <1>Returned, <1>Agreed, <1>Dictionary, <1>Orphans DEF IInv

\* The pid is read.
LEMMA KeepReadPid ==
  ASSUME add_extra_func, IInv, ReadPid, UNCHANGED sessionVars
  PROVE  IInv'
<1>0. Types /\ Procs /\ Stops /\ Fresh /\ Control /\ Dialogue /\ Children /\ Rest /\ Statuses
      /\ Innocent /\ Returned /\ Agreed /\ Dictionary /\ Orphans
  BY DEF IInv
<1>a. /\ fpc = "pid" /\ handler # "wait"
      /\ \/ st # <<>> /\ child_pid' = Head(st).pid /\ st' = Tail(st) /\ fpc' = "wait"
            /\ UNCHANGED result
         \/ Gone /\ st = <<>> /\ UNCHANGED <<child_pid, st>> /\ result' = "none"
            /\ fpc' = (IF stop_soon THEN "idle" ELSE "fatal")
      /\ UNCHANGED <<run, last_run_timed_out, stop_soon, handler, got, serverVars, ctl, proc, trace, sessionVars>>
  BY DEF ReadPid, Failed, Eof
<1>b. st # <<>> => \/ IsPid(st) /\ ctl = <<>> /\ (Gone \/ spc \in {"wait", "status"}) /\ st' = <<>>
                   \/ /\ IsPidStatus(st) /\ ctl = <<>> /\ (Gone \/ spc = "read")
                      /\ IsStatus(st') /\ StatusOf(st') = StatusOf(st)
  BY <1>0, <1>a, StatusPipe DEF Dialogue
<1>c. child_pid' \in {0} \cup Pids
  BY <1>0, <1>a, <1>b, StatusPipe DEF Types
<1>Types. Types'
  BY <1>0, <1>a, <1>b, <1>c, StatusPipe DEF serverVars, sessionVars, Gone, Types, Setup, Busy, Ending, Working, RunNo
<1>Procs. Procs'
  BY <1>0, <1>a, <1>b, <1>c, StatusPipe DEF serverVars, sessionVars, Gone, Procs
<1>Stops. Stops'
  BY <1>0, <1>a, <1>b, <1>c, StatusPipe DEF serverVars, sessionVars, Gone, Stops, Ending
<1>Fresh. Fresh'
  BY <1>0, <1>a, <1>b, <1>c, StatusPipe DEF serverVars, sessionVars, Gone, Fresh, Setup, Busy
<1>Control. Control'
  BY <1>0, <1>a, <1>b, <1>c, StatusPipe DEF serverVars, sessionVars, Gone, Control, Working
<1>Dialogue. Dialogue'
  BY <1>0, <1>a, <1>b, <1>c, StatusPipe DEF serverVars, sessionVars, Gone, Dialogue, Plain
<1>Children. Children'
  BY <1>0, <1>a, <1>b, <1>c, StatusPipe DEF serverVars, sessionVars, Gone, Children, Live
<1>Rest. Rest'
  BY <1>0, <1>a, <1>b, <1>c, StatusPipe DEF serverVars, sessionVars, Gone, Rest, NoneRuns, Live
<1>Statuses. Statuses'
  BY <1>0, <1>a, <1>b, <1>c, StatusPipe DEF serverVars, sessionVars, Gone, Statuses, Void, OwnStatus
<1>Innocent. Innocent'
  BY <1>0, <1>a, <1>b, <1>c, StatusPipe DEF serverVars, sessionVars, Gone, Innocent, Tame, WrittenOff
<1>Returned. Returned'
  BY <1>0, <1>a, <1>b, <1>c, StatusPipe DEF serverVars, sessionVars, Gone, Returned, Ending
<1>Agreed. Agreed'
  BY <1>0, <1>a, <1>b, <1>c, StatusPipe DEF serverVars, sessionVars, Gone, Agreed, NoneRuns, Working
<1>Dictionary. Dictionary'
  BY <1>0, <1>a, <1>b, <1>c, StatusPipe DEF serverVars, sessionVars, Gone, Dictionary
<1>Orphans. Orphans'
  BY <1>0, <1>a, <1>b, <1>c, StatusPipe DEF serverVars, sessionVars, Gone, Orphans
<1> QED BY <1>Types, <1>Procs, <1>Stops, <1>Fresh, <1>Control, <1>Dialogue, <1>Children, <1>Rest, <1>Statuses, <1>Innocent, <1>Returned, <1>Agreed, <1>Dictionary, <1>Orphans DEF IInv

\* The status is read in time.
LEMMA KeepReadStatus ==
  ASSUME add_extra_func, IInv, ReadStatus, UNCHANGED sessionVars
  PROVE  IInv'
<1>0. Types /\ Procs /\ Stops /\ Fresh /\ Control /\ Dialogue /\ Children /\ Rest /\ Statuses
      /\ Innocent /\ Returned /\ Agreed /\ Dictionary /\ Orphans
  BY DEF IInv
<1>a. /\ fpc = "wait" /\ handler # "wait"
      /\ \/ st # <<>> /\ ~stop_soon /\ Finish(Head(st).status) /\ st' = Tail(st)
         \/ ((Gone /\ st = <<>>) \/ (st # <<>> /\ stop_soon)) /\ result' = "none"
            /\ fpc' = (IF stop_soon THEN "idle" ELSE "fatal")
            /\ UNCHANGED <<child_pid, got, st>>
      /\ UNCHANGED <<run, last_run_timed_out, stop_soon, handler, serverVars, ctl, proc, trace, sessionVars>>
  BY DEF ReadStatus, Failed, Eof
<1>b. st # <<>> => /\ IsStatus(st) /\ ctl = <<>> /\ (Gone \/ spc = "read")
                   /\ Head(st).status = StatusOf(st) /\ StatusOf(st) \in StatusSet
                   /\ Tail(st) = <<>>
  BY <1>0, <1>a, StatusPipe DEF Dialogue
<1>c. child_pid' \in {0} \cup Pids /\ got' \in StatusSet \cup {NoStatus}
      /\ result' \in {"none", "OK", "TMOUT", "CRASH"} /\ fpc' \in {"idle", "fatal"}
  BY <1>0, <1>a, <1>b DEF Types, Finish
<1>Stops. Stops'
  <2>1. fpc' = "fatal" => Gone /\ ~stop_soon
    BY <1>0, <1>a DEF Finish
  <2>2. fpc' # "killed" /\ fpc' # "ended" /\ fpc' # "exit"
    BY <1>c
  <2> QED BY <1>0, <1>a, <1>c, <2>1, <2>2 DEF Stops, Gone, serverVars, sessionVars
<1>Returned. Returned'
  <2>1. trace' \subseteq {run'}
    BY <1>0, <1>a DEF Returned
  <2>2. CASE result' = "none"
    BY <2>1, <2>2 DEF Returned
  <2>3. CASE result' # "none"
    <3>1. /\ fpc' = "idle" /\ got' = StatusOf(st) /\ IsStatus(st) /\ ~stop_soon
          /\ result' = "CRASH" => StatusOf(st).cause \in {"crash", "signal"}
      BY <1>a, <1>b, <2>3 DEF Finish
    <3>2. StatusOf(st).run = run /\ StatusOf(st).cause # "signal"
      BY <1>0, <1>a, <3>1 DEF Statuses, Innocent, Void, OwnStatus
    <3> QED BY <1>a, <2>1, <3>1, <3>2 DEF Returned
  <2> QED BY <2>2, <2>3
<1>Dialogue. Dialogue'
  <2>1. CASE st = <<>>
    <3>1. Gone' /\ st' = <<>> /\ fpc' \in {"idle", "fatal"}
      BY <1>a, <1>c, <2>1 DEF Gone, serverVars
    <3>2. Len(st') = 0
      BY <3>1, EmptyLen
    <3> QED BY <3>1, <3>2 DEF Dialogue
  <2>2. CASE st # <<>> /\ ~stop_soon
    <3>1. st' = <<>> /\ fpc' = "idle" /\ ctl' = <<>> /\ spc' = spc /\ (Gone \/ spc = "read")
      BY <1>a, <1>b, <2>2 DEF Finish, serverVars
    <3>2. Len(st') = 0
      BY <3>1, EmptyLen
    <3> QED BY <3>1, <3>2 DEF Dialogue, Gone
  <2>3. CASE st # <<>> /\ stop_soon
    <3>1. Gone
      BY <1>0, <1>a, <2>3 DEF Stops, Types
    <3>2. Gone' /\ st' = st /\ fpc' = "idle"
      BY <1>a, <2>3, <3>1 DEF Gone, serverVars
    <3>3. Len(st') \in {0, 1, 2}
      BY <1>0, <3>2 DEF Dialogue
    <3> QED BY <3>2, <3>3 DEF Dialogue
  <2>4. stop_soon \in BOOLEAN
    BY <1>0 DEF Types
  <2> QED BY <2>1, <2>2, <2>3, <2>4
<1>Types. Types'
  BY <1>0, <1>a, <1>b, <1>c, StatusPipe DEF serverVars, sessionVars, Gone, Types, Setup, Busy, Ending, Working, RunNo
<1>Procs. Procs'
  BY <1>0, <1>a, <1>b, <1>c, StatusPipe DEF serverVars, sessionVars, Gone, Procs
<1>Fresh. Fresh'
  BY <1>0, <1>a, <1>b, <1>c, StatusPipe DEF serverVars, sessionVars, Gone, Fresh, Setup, Busy
<1>Control. Control'
  BY <1>0, <1>a, <1>b, <1>c, StatusPipe DEF serverVars, sessionVars, Gone, Control, Working
<1>Children. Children'
  BY <1>0, <1>a, <1>b, <1>c, StatusPipe DEF serverVars, sessionVars, Gone, Children, Live
<1>Rest. Rest'
  BY <1>0, <1>a, <1>b, <1>c, StatusPipe DEF serverVars, sessionVars, Gone, Rest, NoneRuns, Live
<1>Statuses. Statuses'
  BY <1>0, <1>a, <1>b, <1>c, StatusPipe DEF serverVars, sessionVars, Gone, Statuses, Void, OwnStatus
<1>Innocent. Innocent'
  BY <1>0, <1>a, <1>b, <1>c, StatusPipe DEF serverVars, sessionVars, Gone, Innocent, Tame, WrittenOff
<1>Agreed. Agreed'
  BY <1>0, <1>a, <1>b, <1>c, StatusPipe DEF serverVars, sessionVars, Gone, Agreed, NoneRuns, Working
<1>Dictionary. Dictionary'
  BY <1>0, <1>a, <1>b, <1>c, StatusPipe DEF serverVars, sessionVars, Gone, Dictionary
<1>Orphans. Orphans'
  BY <1>0, <1>a, <1>b, <1>c, StatusPipe DEF serverVars, sessionVars, Gone, Orphans
<1> QED BY <1>Types, <1>Procs, <1>Stops, <1>Fresh, <1>Control, <1>Dialogue, <1>Children, <1>Rest, <1>Statuses, <1>Innocent, <1>Returned, <1>Agreed, <1>Dictionary, <1>Orphans DEF IInv

\* The time is up.
LEMMA KeepTimeout ==
  ASSUME add_extra_func, IInv, Timeout, UNCHANGED sessionVars
  PROVE  IInv'
<1>0. Types /\ Procs /\ Stops /\ Fresh /\ Control /\ Dialogue /\ Children /\ Rest /\ Statuses
      /\ Innocent /\ Returned /\ Agreed /\ Dictionary /\ Orphans
  BY DEF IInv
<1>a. /\ fpc = "wait" /\ handler # "wait" /\ st = <<>> /\ ~Gone /\ fpc' = "kill"
      /\ UNCHANGED <<run, child_pid, last_run_timed_out, stop_soon, handler, result, got,
                     serverVars, ctl, st, proc, trace, sessionVars>>
  BY DEF Timeout, Eof
<1>b. ~stop_soon
  BY <1>0, <1>a DEF Stops, Types
<1>Types. Types'
  BY <1>0, <1>a, <1>b, StatusPipe DEF serverVars, sessionVars, Gone, Types, Setup, Busy, Ending, Working, RunNo
<1>Procs. Procs'
  BY <1>0, <1>a, <1>b, StatusPipe DEF serverVars, sessionVars, Gone, Procs
<1>Stops. Stops'
  BY <1>0, <1>a, <1>b, StatusPipe DEF serverVars, sessionVars, Gone, Stops, Ending
<1>Fresh. Fresh'
  BY <1>0, <1>a, <1>b, StatusPipe DEF serverVars, sessionVars, Gone, Fresh, Setup, Busy
<1>Control. Control'
  BY <1>0, <1>a, <1>b, StatusPipe DEF serverVars, sessionVars, Gone, Control, Working
<1>Dialogue. Dialogue'
  BY <1>0, <1>a, <1>b, StatusPipe DEF serverVars, sessionVars, Gone, Dialogue, Plain
<1>Children. Children'
  BY <1>0, <1>a, <1>b, StatusPipe DEF serverVars, sessionVars, Gone, Children, Live
<1>Rest. Rest'
  BY <1>0, <1>a, <1>b, StatusPipe DEF serverVars, sessionVars, Gone, Rest, NoneRuns, Live
<1>Statuses. Statuses'
  BY <1>0, <1>a, <1>b, StatusPipe DEF serverVars, sessionVars, Gone, Statuses, Void, OwnStatus
<1>Innocent. Innocent'
  BY <1>0, <1>a, <1>b, StatusPipe DEF serverVars, sessionVars, Gone, Innocent, Tame, WrittenOff
<1>Returned. Returned'
  BY <1>0, <1>a, <1>b, StatusPipe DEF serverVars, sessionVars, Gone, Returned, Ending
<1>Agreed. Agreed'
  BY <1>0, <1>a, <1>b, StatusPipe DEF serverVars, sessionVars, Gone, Agreed, NoneRuns, Working
<1>Dictionary. Dictionary'
  BY <1>0, <1>a, <1>b, StatusPipe DEF serverVars, sessionVars, Gone, Dictionary
<1>Orphans. Orphans'
  BY <1>0, <1>a, <1>b, StatusPipe DEF serverVars, sessionVars, Gone, Orphans
<1> QED BY <1>Types, <1>Procs, <1>Stops, <1>Fresh, <1>Control, <1>Dialogue, <1>Children, <1>Rest, <1>Statuses, <1>Innocent, <1>Returned, <1>Agreed, <1>Dictionary, <1>Orphans DEF IInv

\* The child is killed.
LEMMA KeepKillChild ==
  ASSUME add_extra_func, IInv, KillChild, UNCHANGED sessionVars
  PROVE  IInv'
<1>0. Types /\ Procs /\ Stops /\ Fresh /\ Control /\ Dialogue /\ Children /\ Rest /\ Statuses
      /\ Innocent /\ Returned /\ Agreed /\ Dictionary /\ Orphans
  BY DEF IInv
<1>a. /\ fpc = "kill" /\ handler # "wait" /\ fpc' = "late"
      /\ child_pid' = 0 /\ last_run_timed_out' = TRUE
      /\ UNCHANGED <<run, stop_soon, handler, result, got, serverVars, ctl, st, trace, sessionVars>>
  BY DEF KillChild
<1>b. Procs' /\ \A o \in Pids : Quieted(proc[o], proc'[o])
  BY <1>0, SignalIs DEF KillChild, Types
<1>c. run # 0
  BY <1>0, <1>a DEF Fresh, Busy
<1>q. \A o \in Pids :
        /\ proc'[o].run = proc[o].run
        /\ proc'[o].cause = "crash" <=> proc[o].cause = "crash"
        /\ Live(o)' <=> Live(o)
        /\ proc'[o].state = "running" => proc[o].state = "running"
        /\ proc'[o].state \in {"running", "stopped"} =>
             proc'[o].cause = "none" /\ proc[o].state \in {"running", "stopped"}
        /\ proc'[o].state = "zombie" => proc'[o].cause # "none"
        /\ proc'[o].state = "none" => proc'[o] = NoProcess
        /\ proc[o].state \notin {"running", "stopped"} => proc'[o] = proc[o]
  BY <1>0, <1>b, QuietedIs
<1>Children. Children'
  <2>1. srv_child \in {0} \cup Pids /\ forked \in {0} \cup Pids
    BY <1>0 DEF Types
  <2>2. srv_child # 0 => (Live(srv_child)' <=> Live(srv_child))
    BY <1>a, <1>q, <2>1 DEF serverVars, Live
  <2>3. forked # 0 => (Live(forked)' <=> Live(forked))
    BY <1>a, <1>q, <2>1 DEF serverVars, Live
  <2> QED BY <1>0, <1>a, <1>q, <2>1, <2>2, <2>3 DEF Children, Gone, serverVars, Live
<1>Rest. Rest'
  <2>1. NoneRuns => NoneRuns'
    BY <1>q DEF NoneRuns
  <2>2. srv_child # 0 => (Live(srv_child)' <=> Live(srv_child))
    BY <1>0, <1>a, <1>q DEF serverVars, Live, Types
  <2> QED BY <1>0, <1>a, <2>1, <2>2 DEF Rest, Gone, serverVars
<1>Statuses. Statuses'
  <2>1. \A s : OwnStatus(s) => OwnStatus(s)'
    BY <1>a, <1>q DEF OwnStatus
  <2>2. srv_child \in {0} \cup Pids /\ forked \in {0} \cup Pids
    BY <1>0 DEF Types
  <2>3. ~Void' => ~Void
    BY <1>a DEF Void
  <2>4. /\ srv_child # 0 => proc'[srv_child].run = proc[srv_child].run
        /\ forked # 0 => proc'[forked].run = proc[forked].run
    BY <1>q, <2>2
  <2>5. /\ spc \in {"pid", "wait"} => srv_child # 0
        /\ spc = "forked" => forked # 0
    BY <1>0 DEF Rest, Children
  <2> QED BY <1>0, <1>a, <1>q, <2>1, <2>3, <2>4, <2>5 DEF Statuses, serverVars
<1>Fresh. Fresh'
  BY <1>0, <1>a, <1>c DEF Fresh, Setup, Busy
<1>Types. Types'
  BY <1>0, <1>a, <1>b, <1>c, <1>q DEF serverVars, sessionVars, Gone, Quieted, Types, Setup, Busy, Ending, Working, RunNo
<1>Procs. Procs'
  BY <1>0, <1>a, <1>b, <1>c, <1>q DEF serverVars, sessionVars, Gone, Quieted, Procs
<1>Stops. Stops'
  BY <1>0, <1>a, <1>b, <1>c, <1>q DEF serverVars, sessionVars, Gone, Quieted, Stops, Ending
<1>Control. Control'
  BY <1>0, <1>a, <1>b, <1>c, <1>q DEF serverVars, sessionVars, Gone, Quieted, Control, Working
<1>Dialogue. Dialogue'
  BY <1>0, <1>a, <1>b, <1>c, <1>q DEF serverVars, sessionVars, Gone, Quieted, Dialogue, Plain
<1>Innocent. Innocent'
  BY <1>0, <1>a, <1>b, <1>c, <1>q DEF serverVars, sessionVars, Gone, Quieted, Innocent, Tame, WrittenOff
<1>Returned. Returned'
  BY <1>0, <1>a, <1>b, <1>c, <1>q DEF serverVars, sessionVars, Gone, Quieted, Returned, Ending
<1>Agreed. Agreed'
  BY <1>0, <1>a, <1>b, <1>c, <1>q DEF serverVars, sessionVars, Gone, Quieted, Agreed, NoneRuns, Working
<1>Dictionary. Dictionary'
  BY <1>0, <1>a, <1>b, <1>c, <1>q DEF serverVars, sessionVars, Gone, Quieted, Dictionary
<1>Orphans. Orphans'
  BY <1>0, <1>a, <1>b, <1>c, <1>q DEF serverVars, sessionVars, Gone, Quieted, Orphans
<1> QED BY <1>Types, <1>Procs, <1>Stops, <1>Fresh, <1>Control, <1>Dialogue, <1>Children, <1>Rest, <1>Statuses, <1>Innocent, <1>Returned, <1>Agreed, <1>Dictionary, <1>Orphans DEF IInv

\* The status is read after the kill.
LEMMA KeepReadLate ==
  ASSUME add_extra_func, IInv, ReadLate, UNCHANGED sessionVars
  PROVE  IInv'
<1>0. Types /\ Procs /\ Stops /\ Fresh /\ Control /\ Dialogue /\ Children /\ Rest /\ Statuses
      /\ Innocent /\ Returned /\ Agreed /\ Dictionary /\ Orphans
  BY DEF IInv
<1>a. /\ fpc = "late" /\ handler # "wait"
      /\ \/ st # <<>> /\ Finish(Head(st).status) /\ st' = Tail(st)
         \/ Gone /\ st = <<>> /\ result' = "none"
            /\ fpc' = (IF stop_soon THEN "idle" ELSE "fatal")
            /\ UNCHANGED <<child_pid, got, st>>
      /\ UNCHANGED <<run, last_run_timed_out, stop_soon, handler, serverVars, ctl, proc, trace, sessionVars>>
  BY DEF ReadLate, LateStatus, Failed, Eof
<1>b. st # <<>> => /\ IsStatus(st) /\ ctl = <<>> /\ (Gone \/ spc = "read")
                   /\ Head(st).status = StatusOf(st) /\ StatusOf(st) \in StatusSet
                   /\ Tail(st) = <<>>
  BY <1>0, <1>a, StatusPipe DEF Dialogue
<1>c. child_pid' \in {0} \cup Pids /\ got' \in StatusSet \cup {NoStatus}
      /\ result' \in {"none", "OK", "TMOUT", "CRASH"} /\ fpc' \in {"idle", "fatal"}
  BY <1>0, <1>a, <1>b DEF Types, Finish
<1>Stops. Stops'
  <2>1. fpc' = "fatal" => Gone /\ ~stop_soon
    BY <1>0, <1>a DEF Finish
  <2>2. fpc' # "killed" /\ fpc' # "ended" /\ fpc' # "exit"
    BY <1>c
  <2> QED BY <1>0, <1>a, <1>c, <2>1, <2>2 DEF Stops, Gone, serverVars, sessionVars
<1>Returned. Returned'
  <2>1. trace' \subseteq {run'}
    BY <1>0, <1>a DEF Returned
  <2>2. CASE result' = "none"
    BY <2>1, <2>2 DEF Returned
  <2>3. CASE result' # "none"
    <3>1. fpc' = "idle" /\ got' = StatusOf(st) /\ IsStatus(st) /\ result' = "TMOUT"
      BY <1>0, <1>a, <1>b, <2>3 DEF Finish, Innocent
    <3>2. StatusOf(st).run = run
      BY <1>0, <1>a, <3>1 DEF Statuses, Void, OwnStatus
    <3> QED BY <1>a, <2>1, <3>1, <3>2 DEF Returned
  <2> QED BY <2>2, <2>3
<1>Dialogue. Dialogue'
  <2>1. CASE st = <<>>
    <3>1. Gone' /\ st' = <<>> /\ fpc' \in {"idle", "fatal"}
      BY <1>a, <1>c, <2>1 DEF Gone, serverVars
    <3>2. Len(st') = 0
      BY <3>1, EmptyLen
    <3> QED BY <3>1, <3>2 DEF Dialogue
  <2>2. CASE st # <<>>
    <3>1. st' = <<>> /\ fpc' = "idle" /\ ctl' = <<>> /\ spc' = spc /\ (Gone \/ spc = "read")
      BY <1>a, <1>b, <2>2 DEF Finish, serverVars
    <3>2. Len(st') = 0
      BY <3>1, EmptyLen
    <3> QED BY <3>1, <3>2 DEF Dialogue, Gone
  <2> QED BY <2>1, <2>2
<1>Types. Types'
  BY <1>0, <1>a, <1>b, <1>c, StatusPipe DEF serverVars, sessionVars, Gone, Types, Setup, Busy, Ending, Working, RunNo
<1>Procs. Procs'
  BY <1>0, <1>a, <1>b, <1>c, StatusPipe DEF serverVars, sessionVars, Gone, Procs
<1>Fresh. Fresh'
  BY <1>0, <1>a, <1>b, <1>c, StatusPipe DEF serverVars, sessionVars, Gone, Fresh, Setup, Busy
<1>Control. Control'
  BY <1>0, <1>a, <1>b, <1>c, StatusPipe DEF serverVars, sessionVars, Gone, Control, Working
<1>Children. Children'
  BY <1>0, <1>a, <1>b, <1>c, StatusPipe DEF serverVars, sessionVars, Gone, Children, Live
<1>Rest. Rest'
  BY <1>0, <1>a, <1>b, <1>c, StatusPipe DEF serverVars, sessionVars, Gone, Rest, NoneRuns, Live
<1>Statuses. Statuses'
  BY <1>0, <1>a, <1>b, <1>c, StatusPipe DEF serverVars, sessionVars, Gone, Statuses, Void, OwnStatus
<1>Innocent. Innocent'
  BY <1>0, <1>a, <1>b, <1>c, StatusPipe DEF serverVars, sessionVars, Gone, Innocent, Tame, WrittenOff
<1>Agreed. Agreed'
  BY <1>0, <1>a, <1>b, <1>c, StatusPipe DEF serverVars, sessionVars, Gone, Agreed, NoneRuns, Working
<1>Dictionary. Dictionary'
  BY <1>0, <1>a, <1>b, <1>c, StatusPipe DEF serverVars, sessionVars, Gone, Dictionary
<1>Orphans. Orphans'
  BY <1>0, <1>a, <1>b, <1>c, StatusPipe DEF serverVars, sessionVars, Gone, Orphans
<1> QED BY <1>Types, <1>Procs, <1>Stops, <1>Fresh, <1>Control, <1>Dialogue, <1>Children, <1>Rest, <1>Statuses, <1>Innocent, <1>Returned, <1>Agreed, <1>Dictionary, <1>Orphans DEF IInv

\* The stop handler returns.
LEMMA KeepHandlerReturns ==
  ASSUME add_extra_func, IInv, HandlerReturns, UNCHANGED sessionVars
  PROVE  IInv'
<1>0. Types /\ Procs /\ Stops /\ Fresh /\ Control /\ Dialogue /\ Children /\ Rest /\ Statuses
      /\ Innocent /\ Returned /\ Agreed /\ Dictionary /\ Orphans
  BY DEF IInv
<1>Types. Types'
  BY <1>0 DEF fuzzerVars, serverVars, sessionVars, HandlerReturns, Gone, Types, Setup, Busy, Ending, Working, RunNo
<1>Procs. Procs'
  BY <1>0 DEF fuzzerVars, serverVars, sessionVars, HandlerReturns, Gone, Procs
<1>Stops. Stops'
  BY <1>0 DEF fuzzerVars, serverVars, sessionVars, HandlerReturns, Gone, Stops, Ending
<1>Fresh. Fresh'
  BY <1>0 DEF fuzzerVars, serverVars, sessionVars, HandlerReturns, Gone, Fresh, Setup, Busy
<1>Control. Control'
  BY <1>0 DEF fuzzerVars, serverVars, sessionVars, HandlerReturns, Gone, Control, Working
<1>Dialogue. Dialogue'
  BY <1>0 DEF fuzzerVars, serverVars, sessionVars, HandlerReturns, Gone, Dialogue, Plain
<1>Children. Children'
  BY <1>0 DEF fuzzerVars, serverVars, sessionVars, HandlerReturns, Gone, Children, Live
<1>Rest. Rest'
  BY <1>0 DEF fuzzerVars, serverVars, sessionVars, HandlerReturns, Gone, Rest, NoneRuns, Live
<1>Statuses. Statuses'
  BY <1>0 DEF fuzzerVars, serverVars, sessionVars, HandlerReturns, Gone, Statuses, Void, OwnStatus
<1>Innocent. Innocent'
  BY <1>0 DEF fuzzerVars, serverVars, sessionVars, HandlerReturns, Gone, Innocent, Tame, WrittenOff
<1>Returned. Returned'
  BY <1>0 DEF fuzzerVars, serverVars, sessionVars, HandlerReturns, Gone, Returned, Ending
<1>Agreed. Agreed'
  BY <1>0 DEF fuzzerVars, serverVars, sessionVars, HandlerReturns, Gone, Agreed, NoneRuns, Working
<1>Dictionary. Dictionary'
  BY <1>0 DEF fuzzerVars, serverVars, sessionVars, HandlerReturns, Gone, Dictionary
<1>Orphans. Orphans'
  BY <1>0 DEF fuzzerVars, serverVars, sessionVars, HandlerReturns, Gone, Orphans
<1> QED BY <1>Types, <1>Procs, <1>Stops, <1>Fresh, <1>Control, <1>Dialogue, <1>Children, <1>Rest, <1>Statuses, <1>Innocent, <1>Returned, <1>Agreed, <1>Dictionary, <1>Orphans DEF IInv

\* The main loop ends.
LEMMA KeepFuzzerExit ==
  ASSUME add_extra_func, IInv, FuzzerExit, UNCHANGED sessionVars
  PROVE  IInv'
<1>0. Types /\ Procs /\ Stops /\ Fresh /\ Control /\ Dialogue /\ Children /\ Rest /\ Statuses
      /\ Innocent /\ Returned /\ Agreed /\ Dictionary /\ Orphans
  BY DEF IInv
<1>a. /\ fpc = "idle" /\ handler = "done" /\ fpc' = "exit" /\ child_pid' = 0
      /\ UNCHANGED <<run, last_run_timed_out, stop_soon, handler, result, got, serverVars,
                     ctl, st, trace, sessionVars>>
  BY DEF FuzzerExit
<1>b. Procs' /\ \A o \in Pids : Quieted(proc[o], proc'[o])
  BY <1>0, SignalIs DEF FuzzerExit, Types
<1>q. \A o \in Pids :
        /\ proc'[o].run = proc[o].run
        /\ proc'[o].cause = "crash" <=> proc[o].cause = "crash"
        /\ Live(o)' <=> Live(o)
        /\ proc'[o].state = "running" => proc[o].state = "running"
        /\ proc'[o].state \in {"running", "stopped"} =>
             proc'[o].cause = "none" /\ proc[o].state \in {"running", "stopped"}
        /\ proc'[o].state = "zombie" => proc'[o].cause # "none"
        /\ proc'[o].state = "none" => proc'[o] = NoProcess
        /\ proc[o].state \notin {"running", "stopped"} => proc'[o] = proc[o]
  BY <1>0, <1>b, QuietedIs
<1>Children. Children'
  <2>1. srv_child \in {0} \cup Pids /\ forked \in {0} \cup Pids
    BY <1>0 DEF Types
  <2>2. srv_child # 0 => (Live(srv_child)' <=> Live(srv_child))
    BY <1>a, <1>q, <2>1 DEF serverVars, Live
  <2>3. forked # 0 => (Live(forked)' <=> Live(forked))
    BY <1>a, <1>q, <2>1 DEF serverVars, Live
  <2> QED BY <1>0, <1>a, <1>q, <2>1, <2>2, <2>3 DEF Children, Gone, serverVars, Live
<1>Rest. Rest'
  <2>1. NoneRuns => NoneRuns'
    BY <1>q DEF NoneRuns
  <2>2. srv_child # 0 => (Live(srv_child)' <=> Live(srv_child))
    BY <1>0, <1>a, <1>q DEF serverVars, Live, Types
  <2> QED BY <1>0, <1>a, <2>1, <2>2 DEF Rest, Gone, serverVars
<1>Statuses. Statuses'
  <2>1. \A s : OwnStatus(s) => OwnStatus(s)'
    BY <1>a, <1>q DEF OwnStatus
  <2>2. srv_child \in {0} \cup Pids /\ forked \in {0} \cup Pids
    BY <1>0 DEF Types
  <2>3. ~Void' => ~Void
    BY <1>a DEF Void
  <2>4. /\ srv_child # 0 => proc'[srv_child].run = proc[srv_child].run
        /\ forked # 0 => proc'[forked].run = proc[forked].run
    BY <1>q, <2>2
  <2>5. /\ spc \in {"pid", "wait"} => srv_child # 0
        /\ spc = "forked" => forked # 0
    BY <1>0 DEF Rest, Children
  <2> QED BY <1>0, <1>a, <1>q, <2>1, <2>3, <2>4, <2>5 DEF Statuses, serverVars
<1>Fresh. Fresh'
  BY <1>0, <1>a, <1>q DEF Fresh, Setup, Busy, NoProcess, serverVars, Ending
<1>Types. Types'
  BY <1>0, <1>a, <1>b, <1>q DEF serverVars, sessionVars, Gone, Quieted, Types, Setup, Busy, Ending, Working, RunNo
<1>Procs. Procs'
  BY <1>0, <1>a, <1>b, <1>q DEF serverVars, sessionVars, Gone, Quieted, Procs
<1>Stops. Stops'
  BY <1>0, <1>a, <1>b, <1>q DEF serverVars, sessionVars, Gone, Quieted, Stops, Ending
<1>Control. Control'
  BY <1>0, <1>a, <1>b, <1>q DEF serverVars, sessionVars, Gone, Quieted, Control, Working
<1>Dialogue. Dialogue'
  BY <1>0, <1>a, <1>b, <1>q DEF serverVars, sessionVars, Gone, Quieted, Dialogue, Plain
<1>Innocent. Innocent'
  BY <1>0, <1>a, <1>b, <1>q DEF serverVars, sessionVars, Gone, Quieted, Innocent, Tame, WrittenOff
<1>Returned. Returned'
  BY <1>0, <1>a, <1>b, <1>q DEF serverVars, sessionVars, Gone, Quieted, Returned, Ending
<1>Agreed. Agreed'
  BY <1>0, <1>a, <1>b, <1>q DEF serverVars, sessionVars, Gone, Quieted, Agreed, NoneRuns, Working
<1>Dictionary. Dictionary'
  BY <1>0, <1>a, <1>b, <1>q DEF serverVars, sessionVars, Gone, Quieted, Dictionary
<1>Orphans. Orphans'
  BY <1>0, <1>a, <1>b, <1>q DEF serverVars, sessionVars, Gone, Quieted, Orphans
<1> QED BY <1>Types, <1>Procs, <1>Stops, <1>Fresh, <1>Control, <1>Dialogue, <1>Children, <1>Rest, <1>Statuses, <1>Innocent, <1>Returned, <1>Agreed, <1>Dictionary, <1>Orphans DEF IInv

\* The server reads a request.
LEMMA KeepSrvRead ==
  ASSUME add_extra_func, IInv, SrvRead, UNCHANGED sessionVars
  PROVE  IInv'
<1>0. Types /\ Procs /\ Stops /\ Fresh /\ Control /\ Dialogue /\ Children /\ Rest /\ Statuses
      /\ Innocent /\ Returned /\ Agreed /\ Dictionary /\ Orphans
  BY DEF IInv
<1>a. /\ spc = "read" /\ spc' = "check" /\ ctl # <<>>
      /\ UNCHANGED <<fuzzerVars, srv_child, child_stopped, status, forked, srv_sigterm, st, proc, trace, sessionVars>>
  BY DEF SrvRead
<1>b. /\ IsReq(ctl, run) /\ run > 0 /\ ctl' = <<>> /\ srv_run' = run
      /\ was_killed' = Killed(ctl) /\ was_killed' \in BOOLEAN
  BY <1>0, <1>a, ControlPipe DEF SrvRead, Control, Gone
<1>c. ~Gone /\ ~Gone'
  BY <1>a DEF Gone
<1>Control. Control'
  BY <1>a, <1>b, ControlPipe DEF Control, Working, Gone, fuzzerVars
<1>Types. Types'
  BY <1>0, <1>a, <1>b, <1>c, ControlPipe DEF fuzzerVars, sessionVars, Types, Setup, Busy, Ending, Working, RunNo
<1>Procs. Procs'
  BY <1>0, <1>a, <1>b, <1>c, ControlPipe DEF fuzzerVars, sessionVars, Procs
<1>Stops. Stops'
  BY <1>0, <1>a, <1>b, <1>c, ControlPipe DEF fuzzerVars, sessionVars, Stops, Ending, Gone
<1>Fresh. Fresh'
  BY <1>0, <1>a, <1>b, <1>c, ControlPipe DEF fuzzerVars, sessionVars, Fresh, Setup, Busy
<1>Dialogue. Dialogue'
  BY <1>0, <1>a, <1>b, <1>c, ControlPipe DEF fuzzerVars, sessionVars, Dialogue, Plain, Gone
<1>Children. Children'
  BY <1>0, <1>a, <1>b, <1>c, ControlPipe DEF fuzzerVars, sessionVars, Children, Live, Gone
<1>Rest. Rest'
  BY <1>0, <1>a, <1>b, <1>c, ControlPipe DEF fuzzerVars, sessionVars, Rest, NoneRuns, Live, Gone
<1>Statuses. Statuses'
  BY <1>0, <1>a, <1>b, <1>c, ControlPipe DEF fuzzerVars, sessionVars, Statuses, Void, OwnStatus
<1>Innocent. Innocent'
  BY <1>0, <1>a, <1>b, <1>c, ControlPipe DEF fuzzerVars, sessionVars, Innocent, Tame, WrittenOff, Gone
<1>Returned. Returned'
  BY <1>0, <1>a, <1>b, <1>c, ControlPipe DEF fuzzerVars, sessionVars, Returned, Ending
<1>Agreed. Agreed'
  BY <1>0, <1>a, <1>b, <1>c, ControlPipe DEF fuzzerVars, sessionVars, Agreed, NoneRuns, Gone, Working, Types, Setup, Busy, Ending, RunNo, Stops, Fresh, NoProcess
<1>Dictionary. Dictionary'
  BY <1>0, <1>a, <1>b, <1>c, ControlPipe DEF fuzzerVars, sessionVars, Dictionary
<1>Orphans. Orphans'
  BY <1>0, <1>a, <1>b, <1>c, ControlPipe DEF fuzzerVars, sessionVars, Orphans
<1> QED BY <1>Types, <1>Procs, <1>Stops, <1>Fresh, <1>Control, <1>Dialogue, <1>Children, <1>Rest, <1>Statuses, <1>Innocent, <1>Returned, <1>Agreed, <1>Dictionary, <1>Orphans DEF IInv

\* The server writes off a child.
LEMMA KeepSrvWriteOff ==
  ASSUME add_extra_func, IInv, SrvWriteOff, UNCHANGED sessionVars
  PROVE  IInv'
<1>0. Types /\ Procs /\ Stops /\ Fresh /\ Control /\ Dialogue /\ Children /\ Rest /\ Statuses
      /\ Innocent /\ Returned /\ Agreed /\ Dictionary /\ Orphans
  BY DEF IInv
<1>a. /\ spc = "check" /\ child_stopped /\ was_killed /\ child_stopped' = FALSE
      /\ UNCHANGED <<fuzzerVars, spc, srv_child, was_killed, status, forked, srv_sigterm, srv_run,
                     ctl, st, trace, sessionVars>>
  BY DEF SrvWriteOff, WriteOff
<1>b. srv_child \in Pids
  BY <1>0, <1>a DEF Types, Rest
<1>c. Procs' /\ Reaped(proc[srv_child], proc'[srv_child]) /\ \A o \in Pids : o # srv_child => proc'[o] = proc[o]
  BY <1>0, <1>b, ReapedIs DEF SrvWriteOff
<1>Types. Types'
  <2>1. child_stopped' \in BOOLEAN
    BY <1>a
  <2> QED BY <1>0, <1>a, <2>1 DEF Types, fuzzerVars, sessionVars
<1>Procs. Procs'
  BY <1>0, <1>a, <1>b, <1>c DEF fuzzerVars, sessionVars, Reaped, Procs
<1>Stops. Stops'
  BY <1>0, <1>a, <1>b, <1>c DEF fuzzerVars, sessionVars, Reaped, Stops, Ending, Gone
<1>Fresh. Fresh'
  BY <1>0, <1>a, <1>b, <1>c DEF fuzzerVars, sessionVars, Reaped, Fresh, Setup, Busy
<1>Control. Control'
  BY <1>0, <1>a, <1>b, <1>c DEF fuzzerVars, sessionVars, Reaped, Control, Gone, Working
<1>Dialogue. Dialogue'
  BY <1>0, <1>a, <1>b, <1>c DEF fuzzerVars, sessionVars, Reaped, Dialogue, Plain, Gone
<1>Children. Children'
  BY <1>0, <1>a, <1>b, <1>c DEF fuzzerVars, sessionVars, Reaped, Children, Live, Gone
<1>Rest. Rest'
  BY <1>0, <1>a, <1>b, <1>c DEF fuzzerVars, sessionVars, Reaped, Rest, NoneRuns, Live, Gone
<1>Statuses. Statuses'
  BY <1>0, <1>a, <1>b, <1>c DEF fuzzerVars, sessionVars, Reaped, Statuses, Void, OwnStatus
<1>Innocent. Innocent'
  BY <1>0, <1>a, <1>b, <1>c DEF fuzzerVars, sessionVars, Reaped, Innocent, Tame, WrittenOff, Gone
<1>Returned. Returned'
  BY <1>0, <1>a, <1>b, <1>c DEF fuzzerVars, sessionVars, Reaped, Returned, Ending
<1>Agreed. Agreed'
  BY <1>0, <1>a, <1>b, <1>c DEF fuzzerVars, sessionVars, Reaped, Agreed, NoneRuns, Gone, Working
<1>Dictionary. Dictionary'
  BY <1>0, <1>a, <1>b, <1>c DEF fuzzerVars, sessionVars, Reaped, Dictionary
<1>Orphans. Orphans'
  BY <1>0, <1>a, <1>b, <1>c DEF fuzzerVars, sessionVars, Reaped, Orphans
<1> QED BY <1>Types, <1>Procs, <1>Stops, <1>Fresh, <1>Control, <1>Dialogue, <1>Children, <1>Rest, <1>Statuses, <1>Innocent, <1>Returned, <1>Agreed, <1>Dictionary, <1>Orphans DEF IInv

\* The server forks.
LEMMA KeepSrvFork ==
  ASSUME add_extra_func, IInv, SrvFork, UNCHANGED sessionVars
  PROVE  IInv'
<1>0. Types /\ Procs /\ Stops /\ Fresh /\ Control /\ Dialogue /\ Children /\ Rest /\ Statuses
      /\ Innocent /\ Returned /\ Agreed /\ Dictionary /\ Orphans
  BY DEF IInv
<1>a. /\ spc = "check" /\ ~child_stopped /\ spc' = "forked" /\ forked' \in Pids
      /\ proc[forked'] = NoProcess
      /\ proc' = [proc EXCEPT ![forked'] = [NoProcess EXCEPT
                    !.state = "running", !.run = srv_run, !.left = max_cnt]]
      /\ UNCHANGED <<fuzzerVars, srv_child, child_stopped, was_killed, status, srv_sigterm, srv_run,
                     ctl, st, trace, sessionVars>>
  BY DEF SrvFork
<1> DEFINE c == [NoProcess EXCEPT !.state = "running", !.run = srv_run, !.left = max_cnt]
<1>b. /\ c \in Process /\ c.state = "running" /\ c.run = srv_run /\ c.cause = "none" /\ c.term = FALSE
  <2>1. /\ NoProcess \in Process
        /\ NoProcess.cause = "none" /\ NoProcess.term = FALSE
    BY ForkServerAssumption DEF NoProcess, Process, RunNo
  <2>2. srv_run \in RunNo /\ max_cnt \in 0..max_cnt
    BY <1>0, ForkServerAssumption DEF Types
  <2> QED BY ONLY <2>1, <2>2 DEF Process, c
<1> HIDE DEF c
<1>c. Procs' /\ proc'[forked'] = c /\ \A o \in Pids : o # forked' => proc'[o] = proc[o]
  BY <1>0, <1>a, <1>b, ProcUpdate DEF c
<1>d. srv_run = run /\ run > 0 /\ forked = 0 /\ srv_child # forked' /\ forked' # 0
  BY <1>0, <1>a, ForkServerAssumption DEF Control, Children, Gone, Working, NoProcess, Types, Pids
<1>Children. Children'
  <2>1. \A p \in Pids : p # forked' => /\ ~Live(p)' /\ proc'[p].run <= run'
                                       /\ proc'[p].state = "none" => proc'[p] = NoProcess
    BY <1>0, <1>a, <1>c, <1>d, ForkServerAssumption DEF Children, Rest, Live, fuzzerVars, Pids
  <2>2. Live(forked)' /\ proc'[forked'].state = "running" /\ proc'[forked'].run = run'
        /\ proc'[forked'].cause = "none"
    BY <1>a, <1>b, <1>c, <1>d DEF Live, fuzzerVars
  <2>3. srv_child # 0 => srv_child' \in Pids /\ ~Live(srv_child)' /\ proc'[srv_child'].state # "none"
    BY <1>0, <1>a, <1>c, <1>d, <2>1 DEF Children, Types
  <2>4. run' \in Nat
    BY <1>0, <1>a, ForkServerAssumption DEF Types, RunNo, fuzzerVars
  <2> QED BY <1>a, <1>d, <2>1, <2>2, <2>3, <2>4 DEF Children, Live, Gone
<1>Innocent. Innocent'
  <2>1. proc'[forked'].cause = "none" /\ proc'[forked'].term = FALSE
    BY <1>b, <1>c
  <2> QED BY <1>0, <1>a, <2>1 DEF Innocent, fuzzerVars
<1>Orphans. Orphans'
  BY <1>0, <1>a DEF Orphans, Stops, Gone, fuzzerVars
<1>Types. Types'
  BY <1>0, <1>a, <1>b, <1>c, <1>d DEF fuzzerVars, sessionVars, Types, Setup, Busy, Ending, Working, RunNo
<1>Procs. Procs'
  BY <1>0, <1>a, <1>b, <1>c, <1>d DEF fuzzerVars, sessionVars, Procs
<1>Stops. Stops'
  BY <1>0, <1>a, <1>b, <1>c, <1>d DEF fuzzerVars, sessionVars, Stops, Ending, Gone
<1>Fresh. Fresh'
  BY <1>0, <1>a, <1>b, <1>c, <1>d DEF fuzzerVars, sessionVars, Fresh, Setup, Busy
<1>Control. Control'
  BY <1>0, <1>a, <1>b, <1>c, <1>d DEF fuzzerVars, sessionVars, Control, Gone, Working
<1>Dialogue. Dialogue'
  BY <1>0, <1>a, <1>b, <1>c, <1>d DEF fuzzerVars, sessionVars, Dialogue, Plain, Gone
<1>Rest. Rest'
  BY <1>0, <1>a, <1>b, <1>c, <1>d, ControlPipe, StatusPipe DEF fuzzerVars, sessionVars, Rest, NoneRuns, Live, Gone, Types, Setup, Busy, Ending, Working, RunNo, Control, Dialogue, Plain, Stops
<1>Statuses. Statuses'
  BY <1>0, <1>a, <1>b, <1>c, <1>d, ControlPipe, StatusPipe DEF fuzzerVars, sessionVars, Statuses, Void, OwnStatus, Types, Setup, Busy, Ending, Working, RunNo, Control, Gone, Dialogue, Plain, Stops
<1>Returned. Returned'
  BY <1>0, <1>a, <1>b, <1>c, <1>d DEF fuzzerVars, sessionVars, Returned, Ending
<1>Agreed. Agreed'
  BY <1>0, <1>a, <1>b, <1>c, <1>d DEF fuzzerVars, sessionVars, Agreed, NoneRuns, Gone, Working, Types, Setup, Busy, Ending, RunNo, Stops, Fresh, NoProcess
<1>Dictionary. Dictionary'
  BY <1>0, <1>a, <1>b, <1>c, <1>d DEF fuzzerVars, sessionVars, Dictionary
<1> QED BY <1>Types, <1>Procs, <1>Stops, <1>Fresh, <1>Control, <1>Dialogue, <1>Children, <1>Rest, <1>Statuses, <1>Innocent, <1>Returned, <1>Agreed, <1>Dictionary, <1>Orphans DEF IInv

\* The server takes up the pid.
LEMMA KeepSrvForked ==
  ASSUME add_extra_func, IInv, SrvForked, UNCHANGED sessionVars
  PROVE  IInv'
<1>0. Types /\ Procs /\ Stops /\ Fresh /\ Control /\ Dialogue /\ Children /\ Rest /\ Statuses
      /\ Innocent /\ Returned /\ Agreed /\ Dictionary /\ Orphans
  BY DEF IInv
<1>Orphans. Orphans'
  <2>1. fpc' = fpc /\ spc = "forked"
    BY DEF SrvForked, fuzzerVars
  <2> QED BY <1>0, <2>1 DEF Orphans, Stops, Gone
<1>Types. Types'
  BY <1>0 DEF fuzzerVars, serverVars, sessionVars, SrvForked, Types, Setup, Busy, Ending, Working, RunNo
<1>Procs. Procs'
  BY <1>0 DEF fuzzerVars, serverVars, sessionVars, SrvForked, Procs
<1>Stops. Stops'
  BY <1>0 DEF fuzzerVars, serverVars, sessionVars, SrvForked, Stops, Ending, Gone
<1>Fresh. Fresh'
  BY <1>0 DEF fuzzerVars, serverVars, sessionVars, SrvForked, Fresh, Setup, Busy
<1>Control. Control'
  BY <1>0 DEF fuzzerVars, serverVars, sessionVars, SrvForked, Control, Gone, Working
<1>Dialogue. Dialogue'
  BY <1>0 DEF fuzzerVars, serverVars, sessionVars, SrvForked, Dialogue, Plain, Gone
<1>Children. Children'
  BY <1>0 DEF fuzzerVars, serverVars, sessionVars, SrvForked, Children, Live, Gone
<1>Rest. Rest'
  BY <1>0 DEF fuzzerVars, serverVars, sessionVars, SrvForked, Rest, NoneRuns, Live, Gone, Types, Setup, Busy, Ending, Working, RunNo, Children, Process, Procs
<1>Statuses. Statuses'
  BY <1>0 DEF fuzzerVars, serverVars, sessionVars, SrvForked, Statuses, Void, OwnStatus
<1>Innocent. Innocent'
  BY <1>0 DEF fuzzerVars, serverVars, sessionVars, SrvForked, Innocent, Tame, WrittenOff, Gone, Types, Setup, Busy, Ending, Working, RunNo, Children, Live, Rest, NoneRuns, Process, Procs
<1>Returned. Returned'
  BY <1>0 DEF fuzzerVars, serverVars, sessionVars, SrvForked, Returned, Ending
<1>Agreed. Agreed'
  BY <1>0 DEF fuzzerVars, serverVars, sessionVars, SrvForked, Agreed, NoneRuns, Gone, Working
<1>Dictionary. Dictionary'
  BY <1>0 DEF fuzzerVars, serverVars, sessionVars, SrvForked, Dictionary
<1> QED BY <1>Types, <1>Procs, <1>Stops, <1>Fresh, <1>Control, <1>Dialogue, <1>Children, <1>Rest, <1>Statuses, <1>Innocent, <1>Returned, <1>Agreed, <1>Dictionary, <1>Orphans DEF IInv

\* The server continues a child.
LEMMA KeepSrvContinue ==
  ASSUME add_extra_func, IInv, SrvContinue, UNCHANGED sessionVars
  PROVE  IInv'
<1>0. Types /\ Procs /\ Stops /\ Fresh /\ Control /\ Dialogue /\ Children /\ Rest /\ Statuses
      /\ Innocent /\ Returned /\ Agreed /\ Dictionary /\ Orphans
  BY DEF IInv
<1>a. /\ spc = "check" /\ child_stopped /\ ~was_killed /\ child_stopped' = FALSE /\ spc' = "pid"
      /\ UNCHANGED <<fuzzerVars, srv_child, was_killed, status, forked, srv_sigterm, srv_run,
                     ctl, st, trace, sessionVars>>
  BY DEF SrvContinue, WriteOff
<1>b. srv_child \in Pids /\ srv_run = run /\ run > 0 /\ forked = 0 /\ proc[srv_child] \in Process
  BY <1>0, <1>a DEF Types, Rest, Control, Working, Children, Gone, Procs
<1> DEFINE c == Continued(proc[srv_child], srv_run)
<1>c. c \in Process
  BY <1>0, <1>b, ContinuedIs DEF Types
<1>d. Procs' /\ proc'[srv_child] = c /\ \A o \in Pids : o # srv_child => proc'[o] = proc[o]
  BY <1>0, <1>b, <1>c, ProcUpdate DEF SrvContinue, Procs
<1>e. /\ proc[srv_child].state # "stopped" => c = proc[srv_child]
      /\ proc[srv_child].state = "stopped" =>
           /\ c.run = run
           /\ \/ c.state = "running" /\ c.cause = proc[srv_child].cause
              \/ c.state = "zombie" /\ c.cause = "signal"
           /\ ~proc[srv_child].term => c.state = "running" /\ ~c.term /\ c.cause = proc[srv_child].cause
  BY <1>0, <1>b, ContinuedIs DEF Types
<1> HIDE DEF c
<1>f. Live(srv_child)
  BY <1>0, <1>a, <1>b DEF Rest, Gone
<1>Types. Types'
  <2>1. child_stopped' \in BOOLEAN /\ spc' \in Working
    BY <1>a DEF Working
  <2> QED BY <1>0, <1>a, <2>1 DEF Types, fuzzerVars, sessionVars
<1>Statuses. Statuses'
  <2>1. ctl = <<>> /\ ctl' = <<>>
    BY <1>0, <1>a DEF Control, Gone
  <2>2. \A p \in Pids : p # srv_child' => proc'[p].run < run'
    BY <1>0, <1>a, <1>b, <1>d DEF Statuses, fuzzerVars
  <2>3. fpc \notin {"wait", "kill", "late"} /\ (fpc = "pid" => ~IsPidStatus(st))
    BY <1>0, <1>a, StatusPipe DEF Dialogue, Gone
  <2>4. ~Void' => proc'[srv_child'].run = run'
    <3>1. ~Void' => ~stop_soon
      BY <1>a, <2>3 DEF Void, fuzzerVars
    <3>2. ~stop_soon => fpc = "pid"
      BY <1>0, <1>a, <2>3, ControlPipe DEF Stops, Types, Dialogue, Setup, Busy, Ending, Gone
    <3>3. ~stop_soon => Tame
      BY <1>0, <1>a, <2>1, <3>2, ControlPipe DEF Innocent, WrittenOff, Gone
    <3> QED BY <1>a, <1>b, <1>d, <1>e, <3>1, <3>3 DEF Tame, fuzzerVars
  <2> QED BY <1>a, <2>1, <2>2, <2>3, <2>4, ControlPipe DEF Statuses, fuzzerVars
<1>Procs. Procs'
  BY <1>0, <1>a, <1>b, <1>c, <1>d, <1>e, <1>f DEF fuzzerVars, sessionVars, Procs
<1>Stops. Stops'
  BY <1>0, <1>a, <1>b, <1>c, <1>d, <1>e, <1>f DEF fuzzerVars, sessionVars, Stops, Ending, Gone
<1>Fresh. Fresh'
  BY <1>0, <1>a, <1>b, <1>c, <1>d, <1>e, <1>f DEF fuzzerVars, sessionVars, Fresh, Setup, Busy
<1>Control. Control'
  BY <1>0, <1>a, <1>b, <1>c, <1>d, <1>e, <1>f DEF fuzzerVars, sessionVars, Control, Gone, Working
<1>Dialogue. Dialogue'
  BY <1>0, <1>a, <1>b, <1>c, <1>d, <1>e, <1>f DEF fuzzerVars, sessionVars, Dialogue, Plain, Gone
<1>Children. Children'
  BY <1>0, <1>a, <1>b, <1>c, <1>d, <1>e, <1>f DEF fuzzerVars, sessionVars, Children, Live, Gone, Types, Setup, Busy, Ending, Working, RunNo, Stops
<1>Rest. Rest'
  BY <1>0, <1>a, <1>b, <1>c, <1>d, <1>e, <1>f, ControlPipe, StatusPipe DEF fuzzerVars, sessionVars, Rest, NoneRuns, Live, Gone, Types, Setup, Busy, Ending, Working, RunNo, Control, Dialogue, Plain, Stops
<1>Innocent. Innocent'
  BY <1>0, <1>a, <1>b, <1>c, <1>d, <1>e, <1>f, ControlPipe, StatusPipe, ForkServerAssumption DEF fuzzerVars, sessionVars, Innocent, Tame, WrittenOff, Gone, Types, Setup, Busy, Ending, Working, RunNo, Control, Dialogue, Plain, Stops, Fresh, Children, Live, Rest, NoneRuns, NoProcess
<1>Returned. Returned'
  BY <1>0, <1>a, <1>b, <1>c, <1>d, <1>e, <1>f DEF fuzzerVars, sessionVars, Returned, Ending
<1>Agreed. Agreed'
  BY <1>0, <1>a, <1>b, <1>c, <1>d, <1>e, <1>f DEF fuzzerVars, sessionVars, Agreed, NoneRuns, Gone, Working, Types, Setup, Busy, Ending, RunNo, Stops, Fresh, NoProcess
<1>Dictionary. Dictionary'
  BY <1>0, <1>a, <1>b, <1>c, <1>d, <1>e, <1>f DEF fuzzerVars, sessionVars, Dictionary
<1>Orphans. Orphans'
  BY <1>0, <1>a, <1>b, <1>c, <1>d, <1>e, <1>f DEF fuzzerVars, sessionVars, Orphans
<1> QED BY <1>Types, <1>Procs, <1>Stops, <1>Fresh, <1>Control, <1>Dialogue, <1>Children, <1>Rest, <1>Statuses, <1>Innocent, <1>Returned, <1>Agreed, <1>Dictionary, <1>Orphans DEF IInv

\* The server writes the pid.
LEMMA KeepSrvWritePid ==
  ASSUME add_extra_func, IInv, SrvWritePid, UNCHANGED sessionVars
  PROVE  IInv'
<1>0. Types /\ Procs /\ Stops /\ Fresh /\ Control /\ Dialogue /\ Children /\ Rest /\ Statuses
      /\ Innocent /\ Returned /\ Agreed /\ Dictionary /\ Orphans
  BY DEF IInv
<1>a. /\ spc = "pid" /\ spc' = "wait" /\ fpc \notin {"ended", "killed"}
      /\ st' = Append(st, Msg(srv_child, NoStatus))
      /\ UNCHANGED <<fuzzerVars, srv_child, child_stopped, was_killed, status, forked, srv_sigterm,
                     srv_run, ctl, proc, trace, sessionVars>>
  BY DEF SrvWritePid, FuzzerGone, Msg
<1>b. ~Gone /\ ~Gone' /\ run > 0 /\ srv_child \in Pids
  BY <1>0, <1>a DEF Gone, Control, Working, Rest, Types
<1>c. fpc = "pid" /\ st = <<>> /\ ctl = <<>>
  BY <1>0, <1>a, <1>b, StatusPipe, ControlPipe DEF Dialogue, Stops, Types, Setup, Busy, Ending, Control
<1>d. IsPid(st') /\ ~IsPidStatus(st') /\ ~IsStatus(st') /\ Len(st') = 1
  BY <1>a, <1>b, <1>c, StatusWrites, StatusPipe
<1>Types. Types'
  BY <1>0, <1>a, <1>b, <1>c, <1>d DEF fuzzerVars, sessionVars, Types, Setup, Busy, Ending, Working, RunNo
<1>Procs. Procs'
  BY <1>0, <1>a, <1>b, <1>c, <1>d DEF fuzzerVars, sessionVars, Procs
<1>Stops. Stops'
  BY <1>0, <1>a, <1>b, <1>c, <1>d DEF fuzzerVars, sessionVars, Stops, Ending, Gone
<1>Fresh. Fresh'
  BY <1>0, <1>a, <1>b, <1>c, <1>d DEF fuzzerVars, sessionVars, Fresh, Setup, Busy
<1>Control. Control'
  BY <1>0, <1>a, <1>b, <1>c, <1>d DEF fuzzerVars, sessionVars, Control, Gone, Working
<1>Dialogue. Dialogue'
  BY <1>0, <1>a, <1>b, <1>c, <1>d DEF fuzzerVars, sessionVars, Dialogue, Plain, Gone
<1>Children. Children'
  BY <1>0, <1>a, <1>b, <1>c, <1>d DEF fuzzerVars, sessionVars, Children, Live, Gone
<1>Rest. Rest'
  BY <1>0, <1>a, <1>b, <1>c, <1>d DEF fuzzerVars, sessionVars, Rest, NoneRuns, Live, Gone
<1>Statuses. Statuses'
  BY <1>0, <1>a, <1>b, <1>c, <1>d DEF fuzzerVars, sessionVars, Statuses, Void, OwnStatus
<1>Innocent. Innocent'
  BY <1>0, <1>a, <1>b, <1>c, <1>d DEF fuzzerVars, sessionVars, Innocent, Tame, WrittenOff, Gone
<1>Returned. Returned'
  BY <1>0, <1>a, <1>b, <1>c, <1>d DEF fuzzerVars, sessionVars, Returned, Ending
<1>Agreed. Agreed'
  BY <1>0, <1>a, <1>b, <1>c, <1>d DEF fuzzerVars, sessionVars, Agreed, NoneRuns, Gone, Working
<1>Dictionary. Dictionary'
  BY <1>0, <1>a, <1>b, <1>c, <1>d DEF fuzzerVars, sessionVars, Dictionary
<1>Orphans. Orphans'
  BY <1>0, <1>a, <1>b, <1>c, <1>d DEF fuzzerVars, sessionVars, Orphans
<1> QED BY <1>Types, <1>Procs, <1>Stops, <1>Fresh, <1>Control, <1>Dialogue, <1>Children, <1>Rest, <1>Statuses, <1>Innocent, <1>Returned, <1>Agreed, <1>Dictionary, <1>Orphans DEF IInv

\* The server has waited for the child.
LEMMA KeepSrvWait ==
  ASSUME add_extra_func, IInv, SrvWait, UNCHANGED sessionVars
  PROVE  IInv'
<1>0. Types /\ Procs /\ Stops /\ Fresh /\ Control /\ Dialogue /\ Children /\ Rest /\ Statuses
      /\ Innocent /\ Returned /\ Agreed /\ Dictionary /\ Orphans
  BY DEF IInv
<1>a. /\ spc = "wait" /\ spc' = "status"
      /\ UNCHANGED <<fuzzerVars, srv_child, was_killed, forked, srv_sigterm, srv_run,
                     ctl, st, trace, sessionVars>>
  BY DEF SrvWait
<1>b. srv_child \in Pids /\ run > 0 /\ ~child_stopped /\ forked = 0 /\ proc[srv_child] \in Process
  BY <1>0, <1>a DEF Types, Rest, Control, Working, Children, Gone, Procs
<1>c. \/ /\ proc[srv_child].state = "zombie" /\ child_stopped' = FALSE
         /\ Procs' /\ Reaped(proc[srv_child], proc'[srv_child])
         /\ \A o \in Pids : o # srv_child => proc'[o] = proc[o]
         /\ status' = Status(proc[srv_child].cause, proc[srv_child].run)
      \/ /\ proc[srv_child].state = "stopped" /\ child_stopped' = TRUE /\ proc' = proc
         /\ status' = Status("stop", proc[srv_child].run)
  BY <1>0, <1>b, ReapedIs DEF SrvWait, StopReported
<1>own. /\ status' \in StatusSet
        /\ \/ status'.cause = proc[srv_child].cause /\ proc[srv_child].state = "zombie"
           \/ status'.cause = "stop" /\ proc[srv_child].cause = "none"
        /\ status'.run = proc[srv_child].run
  <2>1. proc[srv_child].run \in RunNo
    BY <1>b DEF Process
  <2>2. proc[srv_child].state = "zombie" => proc[srv_child].cause \in {"exit", "crash", "signal", "stop"}
    BY <1>0, <1>b DEF Process, Children
  <2>3. proc[srv_child].state = "stopped" => proc[srv_child].cause = "none"
    BY <1>0, <1>b DEF Children
  <2>4. \A x \in {"exit", "crash", "signal", "stop"}, r \in RunNo :
          Status(x, r) \in StatusSet /\ Status(x, r).cause = x /\ Status(x, r).run = r
    BY DEF Status, StatusSet
  <2> QED BY <1>c, <2>1, <2>2, <2>3, <2>4
<1>Types. Types'
  <2>1. child_stopped' \in BOOLEAN /\ spc' \in Working
    BY <1>a, <1>c DEF Working
  <2> QED BY <1>0, <1>a, <1>own, <2>1 DEF Types, fuzzerVars, sessionVars
<1>pipes. \/ fpc = "pid" /\ IsPid(st)
          \/ fpc \in {"wait", "kill", "late"} /\ st = <<>>
          \/ fpc = "killed"
  <2>1. ~Gone
    BY <1>a DEF Gone
  <2>2. fpc \in {"pid", "wait", "kill", "late", "killed"}
    <3>1. fpc \notin Setup
      BY <1>0, <1>b DEF Fresh
    <3>2. fpc \notin {"fatal", "exit", "ended"}
      BY <1>0, <2>1 DEF Stops
    <3>3. fpc # "idle"
      BY <1>0, <1>a, <2>1 DEF Dialogue
    <3> QED BY <1>0, <3>1, <3>2, <3>3 DEF Types, Busy, Ending
  <2> QED BY <1>0, <1>a, <2>1, <2>2 DEF Dialogue
<1>Rest. Rest'
  <2>1. NoneRuns'
    <3>1. \A p \in Pids : p # srv_child => ~Live(p)
      BY <1>0, <1>b, ForkServerAssumption DEF Children, Pids
    <3> QED BY <1>b, <1>c, <3>1 DEF NoneRuns, Live, Reaped
  <2>2. Live(srv_child)' <=> child_stopped'
    BY <1>a, <1>c DEF Live, Reaped
  <2>3. srv_child' # 0 /\ status' \in StatusSet
    BY <1>0, <1>a, <1>own DEF Rest
  <2> QED BY <1>a, <2>1, <2>2, <2>3 DEF Rest
<1>Statuses. Statuses'
  <2>1. ctl = <<>> /\ ctl' = <<>>
    BY <1>0, <1>a DEF Control, Gone
  <2>2. \A p \in Pids : proc'[p].cause = proc[p].cause /\ proc'[p].run = proc[p].run
    BY <1>c DEF Reaped
  <2>3. ~Void' => OwnStatus(status)'
    <3>1. ~Void' => proc[srv_child].run = run
      BY <1>0, <1>a DEF Statuses, Void, fuzzerVars
    <3>2. \A p \in Pids : p # srv_child => proc[p].run < run
      BY <1>0, <1>a DEF Statuses
    <3>3. run \in Nat /\ run' = run
      BY <1>0, <1>a, ForkServerAssumption DEF Types, RunNo, fuzzerVars
    <3> QED BY <1>b, <1>own, <2>2, <3>1, <3>2, <3>3 DEF OwnStatus
  <2> QED BY <1>a, <1>pipes, <2>1, <2>3, ControlPipe, StatusPipe DEF Statuses, fuzzerVars
<1>Innocent. Innocent'
  <2>1. ctl = <<>> /\ ctl' = <<>>
    BY <1>0, <1>a DEF Control, Gone
  <2>2. CASE stop_soon \/ fpc \in {"late", "killed"}
    BY <1>0, <1>a, <2>2 DEF Innocent, fuzzerVars
  <2>3. CASE ~stop_soon /\ fpc \in {"pid", "wait", "kill"}
    <3>1. proc[srv_child].cause # "signal" /\ ~proc[srv_child].term /\ ~last_run_timed_out
      BY <1>0, <1>a, <2>3 DEF Innocent
    <3>2. status'.cause # "signal"
      BY <1>own, <3>1
    <3>3. child_stopped' => Tame'
      BY <1>a, <1>c, <3>1 DEF Tame
    <3>4. ~IsPidStatus(st') /\ ~IsStatus(st')
      BY <1>a, <1>pipes, <2>3, StatusPipe
    <3> QED BY <1>a, <2>3, <3>1, <3>2, <3>3, <3>4 DEF Innocent, fuzzerVars
  <2> QED BY <1>pipes, <2>2, <2>3
<1>Procs. Procs'
  BY <1>0, <1>a, <1>b, <1>c DEF fuzzerVars, sessionVars, Reaped, Procs
<1>Stops. Stops'
  BY <1>0, <1>a, <1>b, <1>c DEF fuzzerVars, sessionVars, Reaped, Stops, Ending, Gone
<1>Fresh. Fresh'
  BY <1>0, <1>a, <1>b, <1>c DEF fuzzerVars, sessionVars, Reaped, Fresh, Setup, Busy
<1>Control. Control'
  BY <1>0, <1>a, <1>b, <1>c DEF fuzzerVars, sessionVars, Reaped, Control, Gone, Working
<1>Dialogue. Dialogue'
  BY <1>0, <1>a, <1>b, <1>c DEF fuzzerVars, sessionVars, Reaped, Dialogue, Plain, Gone
<1>Children. Children'
  BY <1>0, <1>a, <1>b, <1>c DEF fuzzerVars, sessionVars, Reaped, Children, Live, Gone
<1>Returned. Returned'
  BY <1>0, <1>a, <1>b, <1>c DEF fuzzerVars, sessionVars, Reaped, Returned, Ending
<1>Agreed. Agreed'
  BY <1>0, <1>a, <1>b, <1>c DEF fuzzerVars, sessionVars, Reaped, Agreed, NoneRuns, Gone, Working
<1>Dictionary. Dictionary'
  BY <1>0, <1>a, <1>b, <1>c DEF fuzzerVars, sessionVars, Reaped, Dictionary
<1>Orphans. Orphans'
  BY <1>0, <1>a, <1>b, <1>c DEF fuzzerVars, sessionVars, Reaped, Orphans
<1> QED BY <1>Types, <1>Procs, <1>Stops, <1>Fresh, <1>Control, <1>Dialogue, <1>Children, <1>Rest, <1>Statuses, <1>Innocent, <1>Returned, <1>Agreed, <1>Dictionary, <1>Orphans DEF IInv

\* The server writes the status.
LEMMA KeepSrvWriteStatus ==
  ASSUME add_extra_func, IInv, SrvWriteStatus, UNCHANGED sessionVars
  PROVE  IInv'
<1>0. Types /\ Procs /\ Stops /\ Fresh /\ Control /\ Dialogue /\ Children /\ Rest /\ Statuses
      /\ Innocent /\ Returned /\ Agreed /\ Dictionary /\ Orphans
  BY DEF IInv
<1>a. /\ spc = "status" /\ spc' = "read" /\ fpc \notin {"ended", "killed"}
      /\ st' = Append(st, Msg(srv_child, status))
      /\ UNCHANGED <<fuzzerVars, srv_child, child_stopped, was_killed, status, forked, srv_sigterm,
                     srv_run, ctl, proc, trace, sessionVars>>
  BY DEF SrvWriteStatus, FuzzerGone, Msg
<1>b. ~Gone /\ ~Gone' /\ run > 0 /\ srv_child \in Pids /\ status \in StatusSet
  BY <1>0, <1>a DEF Gone, Control, Working, Rest, Types
<1>c. /\ ctl = <<>>
      /\ \/ fpc = "pid" /\ IsPid(st)
         \/ fpc \in {"wait", "kill", "late"} /\ st = <<>>
  BY <1>0, <1>a, <1>b, StatusPipe, ControlPipe DEF Dialogue, Stops, Types, Setup, Busy, Ending, Control
<1>d. /\ StatusOf(st') = status
      /\ \/ fpc = "pid" /\ IsPidStatus(st')
         \/ fpc \in {"wait", "kill", "late"} /\ IsStatus(st')
  BY <1>a, <1>b, <1>c, StatusWrites
<1>e. Len(st') \in {1, 2}
  BY <1>d, StatusPipe
<1>Types. Types'
  BY <1>0, <1>a, <1>b, <1>c, <1>d, <1>e DEF fuzzerVars, sessionVars, Types, Setup, Busy, Ending, Working, RunNo
<1>Procs. Procs'
  BY <1>0, <1>a, <1>b, <1>c, <1>d, <1>e DEF fuzzerVars, sessionVars, Procs
<1>Stops. Stops'
  BY <1>0, <1>a, <1>b, <1>c, <1>d, <1>e DEF fuzzerVars, sessionVars, Stops, Ending, Gone
<1>Fresh. Fresh'
  BY <1>0, <1>a, <1>b, <1>c, <1>d, <1>e DEF fuzzerVars, sessionVars, Fresh, Setup, Busy
<1>Control. Control'
  BY <1>0, <1>a, <1>b, <1>c, <1>d, <1>e DEF fuzzerVars, sessionVars, Control, Gone, Working
<1>Dialogue. Dialogue'
  BY <1>0, <1>a, <1>b, <1>c, <1>d, <1>e DEF fuzzerVars, sessionVars, Dialogue, Plain, Gone
<1>Children. Children'
  BY <1>0, <1>a, <1>b, <1>c, <1>d, <1>e DEF fuzzerVars, sessionVars, Children, Live, Gone
<1>Rest. Rest'
  BY <1>0, <1>a, <1>b, <1>c, <1>d, <1>e DEF fuzzerVars, sessionVars, Rest, NoneRuns, Live, Gone
<1>Statuses. Statuses'
  BY <1>0, <1>a, <1>b, <1>c, <1>d, <1>e DEF fuzzerVars, sessionVars, Statuses, Void, OwnStatus
<1>Innocent. Innocent'
  BY <1>0, <1>a, <1>b, <1>c, <1>d, <1>e DEF fuzzerVars, sessionVars, Innocent, Tame, WrittenOff, Gone
<1>Returned. Returned'
  BY <1>0, <1>a, <1>b, <1>c, <1>d, <1>e DEF fuzzerVars, sessionVars, Returned, Ending
<1>Agreed. Agreed'
  BY <1>0, <1>a, <1>b, <1>c, <1>d, <1>e DEF fuzzerVars, sessionVars, Agreed, NoneRuns, Gone, Working
<1>Dictionary. Dictionary'
  BY <1>0, <1>a, <1>b, <1>c, <1>d, <1>e DEF fuzzerVars, sessionVars, Dictionary
<1>Orphans. Orphans'
  BY <1>0, <1>a, <1>b, <1>c, <1>d, <1>e DEF fuzzerVars, sessionVars, Orphans
<1> QED BY <1>Types, <1>Procs, <1>Stops, <1>Fresh, <1>Control, <1>Dialogue, <1>Children, <1>Rest, <1>Statuses, <1>Innocent, <1>Returned, <1>Agreed, <1>Dictionary, <1>Orphans DEF IInv

\* The server leaves.
LEMMA KeepSrvAtExit ==
  ASSUME add_extra_func, IInv, SrvAtExit, UNCHANGED sessionVars
  PROVE  IInv'
<1>0. Types /\ Procs /\ Stops /\ Fresh /\ Control /\ Dialogue /\ Children /\ Rest /\ Statuses
      /\ Innocent /\ Returned /\ Agreed /\ Dictionary /\ Orphans
  BY DEF IInv
<1>a. /\ srv_sigterm /\ ~Gone /\ spc' = "exit"
      /\ UNCHANGED <<fuzzerVars, srv_child, child_stopped, was_killed, status, forked, srv_sigterm,
                     srv_run, ctl, st, trace, sessionVars>>
  BY DEF SrvAtExit
<1>b. /\ Procs'
      /\ \A o \in Pids : IF o = srv_child THEN Reaped(proc[o], proc'[o]) ELSE proc'[o] = proc[o]
  BY <1>0, AtExitIs DEF SrvAtExit, Types
<1>Fresh. Fresh'
  <2>1. 0 \notin Pids
    BY ForkServerAssumption DEF Pids
  <2>2. srv_child = 0 => \A o \in Pids : proc'[o] = proc[o]
    BY <1>b, <2>1
  <2> QED BY <1>0, <1>a, <2>2 DEF Fresh, fuzzerVars
<1>Types. Types'
  BY <1>0, <1>a, <1>b DEF fuzzerVars, sessionVars, Reaped, Gone, Types, Setup, Busy, Ending, Working, RunNo
<1>Procs. Procs'
  BY <1>0, <1>a, <1>b DEF fuzzerVars, sessionVars, Reaped, Gone, Procs
<1>Stops. Stops'
  BY <1>0, <1>a, <1>b DEF fuzzerVars, sessionVars, Reaped, Gone, Stops, Ending
<1>Control. Control'
  BY <1>0, <1>a, <1>b DEF fuzzerVars, sessionVars, Reaped, Gone, Control, Working
<1>Dialogue. Dialogue'
  BY <1>0, <1>a, <1>b DEF fuzzerVars, sessionVars, Reaped, Gone, Dialogue, Plain
<1>Children. Children'
  BY <1>0, <1>a, <1>b DEF fuzzerVars, sessionVars, Reaped, Gone, Children, Live, Types, Setup, Busy, Ending, Working, RunNo, Stops
<1>Rest. Rest'
  BY <1>0, <1>a, <1>b DEF fuzzerVars, sessionVars, Reaped, Gone, Rest, NoneRuns, Live
<1>Statuses. Statuses'
  BY <1>0, <1>a, <1>b DEF fuzzerVars, sessionVars, Reaped, Gone, Statuses, Void, OwnStatus
<1>Innocent. Innocent'
  BY <1>0, <1>a, <1>b DEF fuzzerVars, sessionVars, Reaped, Gone, Innocent, Tame, WrittenOff
<1>Returned. Returned'
  BY <1>0, <1>a, <1>b DEF fuzzerVars, sessionVars, Reaped, Gone, Returned, Ending
<1>Agreed. Agreed'
  BY <1>0, <1>a, <1>b DEF fuzzerVars, sessionVars, Reaped, Gone, Agreed, NoneRuns, Working
<1>Dictionary. Dictionary'
  BY <1>0, <1>a, <1>b DEF fuzzerVars, sessionVars, Reaped, Gone, Dictionary
<1>Orphans. Orphans'
  BY <1>0, <1>a, <1>b DEF fuzzerVars, sessionVars, Reaped, Gone, Orphans
<1> QED BY <1>Types, <1>Procs, <1>Stops, <1>Fresh, <1>Control, <1>Dialogue, <1>Children, <1>Rest, <1>Statuses, <1>Innocent, <1>Returned, <1>Agreed, <1>Dictionary, <1>Orphans DEF IInv

\* The server finds its pipe closed.
LEMMA KeepSrvPipeClosed ==
  ASSUME add_extra_func, IInv, SrvPipeClosed, UNCHANGED sessionVars
  PROVE  IInv'
<1>0. Types /\ Procs /\ Stops /\ Fresh /\ Control /\ Dialogue /\ Children /\ Rest /\ Statuses
      /\ Innocent /\ Returned /\ Agreed /\ Dictionary /\ Orphans
  BY DEF IInv
<1>Types. Types'
  BY <1>0 DEF fuzzerVars, serverVars, sessionVars, SrvPipeClosed, FuzzerGone, PipeFails, Gone, Types, Setup, Busy, Ending, Working, RunNo
<1>Procs. Procs'
  BY <1>0 DEF fuzzerVars, serverVars, sessionVars, SrvPipeClosed, FuzzerGone, PipeFails, Gone, Procs
<1>Stops. Stops'
  BY <1>0 DEF fuzzerVars, serverVars, sessionVars, SrvPipeClosed, FuzzerGone, PipeFails, Gone, Stops, Ending
<1>Fresh. Fresh'
  BY <1>0 DEF fuzzerVars, serverVars, sessionVars, SrvPipeClosed, FuzzerGone, PipeFails, Gone, Fresh, Setup, Busy
<1>Control. Control'
  BY <1>0 DEF fuzzerVars, serverVars, sessionVars, SrvPipeClosed, FuzzerGone, PipeFails, Gone, Control, Working
<1>Dialogue. Dialogue'
  BY <1>0 DEF fuzzerVars, serverVars, sessionVars, SrvPipeClosed, FuzzerGone, PipeFails, Gone, Dialogue, Plain
<1>Children. Children'
  BY <1>0 DEF fuzzerVars, serverVars, sessionVars, SrvPipeClosed, FuzzerGone, PipeFails, Gone, Children, Live
<1>Rest. Rest'
  BY <1>0 DEF fuzzerVars, serverVars, sessionVars, SrvPipeClosed, FuzzerGone, PipeFails, Gone, Rest, NoneRuns, Live
<1>Statuses. Statuses'
  BY <1>0 DEF fuzzerVars, serverVars, sessionVars, SrvPipeClosed, FuzzerGone, PipeFails, Gone, Statuses, Void, OwnStatus
<1>Innocent. Innocent'
  BY <1>0 DEF fuzzerVars, serverVars, sessionVars, SrvPipeClosed, FuzzerGone, PipeFails, Gone, Innocent, Tame, WrittenOff
<1>Returned. Returned'
  BY <1>0 DEF fuzzerVars, serverVars, sessionVars, SrvPipeClosed, FuzzerGone, PipeFails, Gone, Returned, Ending
<1>Agreed. Agreed'
  BY <1>0 DEF fuzzerVars, serverVars, sessionVars, SrvPipeClosed, FuzzerGone, PipeFails, Gone, Agreed, NoneRuns, Working
<1>Dictionary. Dictionary'
  BY <1>0 DEF fuzzerVars, serverVars, sessionVars, SrvPipeClosed, FuzzerGone, PipeFails, Gone, Dictionary
<1>Orphans. Orphans'
  BY <1>0 DEF fuzzerVars, serverVars, sessionVars, SrvPipeClosed, FuzzerGone, PipeFails, Gone, Orphans
<1> QED BY <1>Types, <1>Procs, <1>Stops, <1>Fresh, <1>Control, <1>Dialogue, <1>Children, <1>Rest, <1>Statuses, <1>Innocent, <1>Returned, <1>Agreed, <1>Dictionary, <1>Orphans DEF IInv

\* The server is killed.
LEMMA KeepSrvDies ==
  ASSUME add_extra_func, IInv, SrvDies, UNCHANGED sessionVars
  PROVE  IInv'
<1>0. Types /\ Procs /\ Stops /\ Fresh /\ Control /\ Dialogue /\ Children /\ Rest /\ Statuses
      /\ Innocent /\ Returned /\ Agreed /\ Dictionary /\ Orphans
  BY DEF IInv
<1>Types. Types'
  BY <1>0 DEF fuzzerVars, serverVars, sessionVars, SrvDies, Gone, Types, Setup, Busy, Ending, Working, RunNo
<1>Procs. Procs'
  BY <1>0 DEF fuzzerVars, serverVars, sessionVars, SrvDies, Gone, Procs
<1>Stops. Stops'
  BY <1>0 DEF fuzzerVars, serverVars, sessionVars, SrvDies, Gone, Stops, Ending
<1>Fresh. Fresh'
  BY <1>0 DEF fuzzerVars, serverVars, sessionVars, SrvDies, Gone, Fresh, Setup, Busy
<1>Control. Control'
  BY <1>0 DEF fuzzerVars, serverVars, sessionVars, SrvDies, Gone, Control, Working
<1>Dialogue. Dialogue'
  BY <1>0 DEF fuzzerVars, serverVars, sessionVars, SrvDies, Gone, Dialogue, Plain
<1>Children. Children'
  BY <1>0 DEF fuzzerVars, serverVars, sessionVars, SrvDies, Gone, Children, Live
<1>Rest. Rest'
  BY <1>0 DEF fuzzerVars, serverVars, sessionVars, SrvDies, Gone, Rest, NoneRuns, Live
<1>Statuses. Statuses'
  BY <1>0 DEF fuzzerVars, serverVars, sessionVars, SrvDies, Gone, Statuses, Void, OwnStatus
<1>Innocent. Innocent'
  BY <1>0 DEF fuzzerVars, serverVars, sessionVars, SrvDies, Gone, Innocent, Tame, WrittenOff
<1>Returned. Returned'
  BY <1>0 DEF fuzzerVars, serverVars, sessionVars, SrvDies, Gone, Returned, Ending
<1>Agreed. Agreed'
  BY <1>0 DEF fuzzerVars, serverVars, sessionVars, SrvDies, Gone, Agreed, NoneRuns, Working
<1>Dictionary. Dictionary'
  BY <1>0 DEF fuzzerVars, serverVars, sessionVars, SrvDies, Gone, Dictionary
<1>Orphans. Orphans'
  BY <1>0 DEF fuzzerVars, serverVars, sessionVars, SrvDies, Gone, Orphans
<1> QED BY <1>Types, <1>Procs, <1>Stops, <1>Fresh, <1>Control, <1>Dialogue, <1>Children, <1>Rest, <1>Statuses, <1>Innocent, <1>Returned, <1>Agreed, <1>Dictionary, <1>Orphans DEF IInv

\* A child covers an edge.
LEMMA KeepChildHits ==
  ASSUME add_extra_func, IInv, NEW p \in Pids, ChildHits(p), UNCHANGED sessionVars
  PROVE  IInv'
<1>0. Types /\ Procs /\ Stops /\ Fresh /\ Control /\ Dialogue /\ Children /\ Rest /\ Statuses
      /\ Innocent /\ Returned /\ Agreed /\ Dictionary /\ Orphans
  BY DEF IInv
<1>a. /\ proc[p].state = "running" /\ trace' = trace \cup {proc[p].run}
      /\ UNCHANGED <<fuzzerVars, serverVars, ctl, st, proc, sessionVars>>
  BY DEF ChildHits
<1>b. proc[p].run = run /\ run # 0
  BY <1>0, <1>a DEF Children, Fresh, NoProcess
<1>Types. Types'
  BY <1>0, <1>a, <1>b DEF fuzzerVars, serverVars, sessionVars, Types, Setup, Busy, Ending, Working, RunNo
<1>Procs. Procs'
  BY <1>0, <1>a, <1>b DEF fuzzerVars, serverVars, sessionVars, Procs
<1>Stops. Stops'
  BY <1>0, <1>a, <1>b DEF fuzzerVars, serverVars, sessionVars, Stops, Ending, Gone
<1>Fresh. Fresh'
  BY <1>0, <1>a, <1>b DEF fuzzerVars, serverVars, sessionVars, Fresh, Setup, Busy
<1>Control. Control'
  BY <1>0, <1>a, <1>b DEF fuzzerVars, serverVars, sessionVars, Control, Gone, Working
<1>Dialogue. Dialogue'
  BY <1>0, <1>a, <1>b DEF fuzzerVars, serverVars, sessionVars, Dialogue, Plain, Gone
<1>Children. Children'
  BY <1>0, <1>a, <1>b DEF fuzzerVars, serverVars, sessionVars, Children, Live, Gone
<1>Rest. Rest'
  BY <1>0, <1>a, <1>b DEF fuzzerVars, serverVars, sessionVars, Rest, NoneRuns, Live, Gone
<1>Statuses. Statuses'
  BY <1>0, <1>a, <1>b DEF fuzzerVars, serverVars, sessionVars, Statuses, Void, OwnStatus
<1>Innocent. Innocent'
  BY <1>0, <1>a, <1>b DEF fuzzerVars, serverVars, sessionVars, Innocent, Tame, WrittenOff, Gone
<1>Returned. Returned'
  BY <1>0, <1>a, <1>b DEF fuzzerVars, serverVars, sessionVars, Returned, Ending
<1>Agreed. Agreed'
  BY <1>0, <1>a, <1>b DEF fuzzerVars, serverVars, sessionVars, Agreed, NoneRuns, Gone, Working
<1>Dictionary. Dictionary'
  BY <1>0, <1>a, <1>b DEF fuzzerVars, serverVars, sessionVars, Dictionary
<1>Orphans. Orphans'
  BY <1>0, <1>a, <1>b DEF fuzzerVars, serverVars, sessionVars, Orphans
<1> QED BY <1>Types, <1>Procs, <1>Stops, <1>Fresh, <1>Control, <1>Dialogue, <1>Children, <1>Rest, <1>Statuses, <1>Innocent, <1>Returned, <1>Agreed, <1>Dictionary, <1>Orphans DEF IInv

\* A child finishes an iteration.
LEMMA KeepChildLoops ==
  ASSUME add_extra_func, IInv, NEW p \in Pids, ChildLoops(p), UNCHANGED sessionVars
  PROVE  IInv'
<1>0. Types /\ Procs /\ Stops /\ Fresh /\ Control /\ Dialogue /\ Children /\ Rest /\ Statuses
      /\ Innocent /\ Returned /\ Agreed /\ Dictionary /\ Orphans
  BY DEF IInv
<1>a. /\ proc[p].state = "running" /\ proc[p].left > 0
      /\ UNCHANGED <<fuzzerVars, serverVars, ctl, st, trace, sessionVars>>
  BY DEF ChildLoops
<1> DEFINE s == IF proc[p].left > 1 THEN "stopped" ELSE proc[p].state
           n == proc[p].left - 1
           c == [proc[p] EXCEPT !.left = n, !.state = s]
<1>b. proc[p] \in Process
  BY <1>0 DEF Procs
<1>c. s \in {"running", "stopped"} /\ n \in 0..max_cnt
  BY <1>a, <1>b, ForkServerAssumption DEF Process
<1>d. proc' = [proc EXCEPT ![p] = c]
  BY <1>0 DEF ChildLoops, Procs
<1> HIDE DEF s, n
<1>e. /\ c \in Process /\ c.state = s /\ c.run = proc[p].run
      /\ c.cause = proc[p].cause /\ c.term = proc[p].term
  BY ONLY <1>b, <1>c DEF Process
<1> HIDE DEF c
<1>f. Procs' /\ proc'[p] = c /\ \A o \in Pids : o # p => proc'[o] = proc[o]
  BY <1>0, <1>d, <1>e, ProcUpdate
<1>g. run # 0
  BY <1>0, <1>a DEF Fresh, NoProcess
<1>Types. Types'
  BY <1>0, <1>a, <1>b, <1>c, <1>d, <1>e, <1>f, <1>g DEF fuzzerVars, serverVars, sessionVars, Types, Setup, Busy, Ending, Working, RunNo
<1>Procs. Procs'
  BY <1>0, <1>a, <1>b, <1>c, <1>d, <1>e, <1>f, <1>g DEF fuzzerVars, serverVars, sessionVars, Procs
<1>Stops. Stops'
  BY <1>0, <1>a, <1>b, <1>c, <1>d, <1>e, <1>f, <1>g DEF fuzzerVars, serverVars, sessionVars, Stops, Ending, Gone
<1>Fresh. Fresh'
  BY <1>0, <1>a, <1>b, <1>c, <1>d, <1>e, <1>f, <1>g DEF fuzzerVars, serverVars, sessionVars, Fresh, Setup, Busy
<1>Control. Control'
  BY <1>0, <1>a, <1>b, <1>c, <1>d, <1>e, <1>f, <1>g DEF fuzzerVars, serverVars, sessionVars, Control, Gone, Working
<1>Dialogue. Dialogue'
  BY <1>0, <1>a, <1>b, <1>c, <1>d, <1>e, <1>f, <1>g DEF fuzzerVars, serverVars, sessionVars, Dialogue, Plain, Gone
<1>Children. Children'
  BY <1>0, <1>a, <1>b, <1>c, <1>d, <1>e, <1>f, <1>g DEF fuzzerVars, serverVars, sessionVars, Children, Live, Gone
<1>Rest. Rest'
  BY <1>0, <1>a, <1>b, <1>c, <1>d, <1>e, <1>f, <1>g DEF fuzzerVars, serverVars, sessionVars, Rest, NoneRuns, Live, Gone
<1>Statuses. Statuses'
  BY <1>0, <1>a, <1>b, <1>c, <1>d, <1>e, <1>f, <1>g DEF fuzzerVars, serverVars, sessionVars, Statuses, Void, OwnStatus
<1>Innocent. Innocent'
  BY <1>0, <1>a, <1>b, <1>c, <1>d, <1>e, <1>f, <1>g DEF fuzzerVars, serverVars, sessionVars, Innocent, Tame, WrittenOff, Gone
<1>Returned. Returned'
  BY <1>0, <1>a, <1>b, <1>c, <1>d, <1>e, <1>f, <1>g DEF fuzzerVars, serverVars, sessionVars, Returned, Ending
<1>Agreed. Agreed'
  BY <1>0, <1>a, <1>b, <1>c, <1>d, <1>e, <1>f, <1>g DEF fuzzerVars, serverVars, sessionVars, Agreed, NoneRuns, Gone, Working
<1>Dictionary. Dictionary'
  BY <1>0, <1>a, <1>b, <1>c, <1>d, <1>e, <1>f, <1>g DEF fuzzerVars, serverVars, sessionVars, Dictionary
<1>Orphans. Orphans'
  BY <1>0, <1>a, <1>b, <1>c, <1>d, <1>e, <1>f, <1>g DEF fuzzerVars, serverVars, sessionVars, Orphans
<1> QED BY <1>Types, <1>Procs, <1>Stops, <1>Fresh, <1>Control, <1>Dialogue, <1>Children, <1>Rest, <1>Statuses, <1>Innocent, <1>Returned, <1>Agreed, <1>Dictionary, <1>Orphans DEF IInv

\* A child exits or crashes.
LEMMA KeepChildEnds ==
  ASSUME add_extra_func, IInv, NEW p \in Pids, ChildEnds(p), UNCHANGED sessionVars
  PROVE  IInv'
<1>0. Types /\ Procs /\ Stops /\ Fresh /\ Control /\ Dialogue /\ Children /\ Rest /\ Statuses
      /\ Innocent /\ Returned /\ Agreed /\ Dictionary /\ Orphans
  BY DEF IInv
<1>a. /\ proc[p].state = "running"
      /\ UNCHANGED <<fuzzerVars, serverVars, ctl, st, trace, sessionVars>>
  BY DEF ChildEnds
<1>b. PICK x \in {"exit", "crash"} : proc' = [proc EXCEPT ![p] = Die(proc[p], x)]
  BY <1>0 DEF ChildEnds, Procs
<1> DEFINE c == Die(proc[p], x)
<1>c. proc[p] \in Process
  BY <1>0 DEF Procs
<1>d. /\ c \in Process /\ c.state = "zombie" /\ c.run = proc[p].run
      /\ c.cause = x /\ c.term = FALSE
  <2>1. x \in {"exit", "crash", "signal"}
    OBVIOUS
  <2> QED BY <1>c, <2>1, DieIs
<1> HIDE DEF c
<1>e. Procs' /\ proc'[p] = c /\ \A o \in Pids : o # p => proc'[o] = proc[o]
  BY <1>0, <1>b, <1>d, ProcUpdate DEF c
<1>f. run # 0
  BY <1>0, <1>a DEF Fresh, NoProcess
<1>Types. Types'
  BY <1>0, <1>a, <1>b, <1>c, <1>d, <1>e, <1>f DEF fuzzerVars, serverVars, sessionVars, Types, Setup, Busy, Ending, Working, RunNo
<1>Procs. Procs'
  BY <1>0, <1>a, <1>b, <1>c, <1>d, <1>e, <1>f DEF fuzzerVars, serverVars, sessionVars, Procs
<1>Stops. Stops'
  BY <1>0, <1>a, <1>b, <1>c, <1>d, <1>e, <1>f DEF fuzzerVars, serverVars, sessionVars, Stops, Ending, Gone
<1>Fresh. Fresh'
  BY <1>0, <1>a, <1>b, <1>c, <1>d, <1>e, <1>f DEF fuzzerVars, serverVars, sessionVars, Fresh, Setup, Busy
<1>Control. Control'
  BY <1>0, <1>a, <1>b, <1>c, <1>d, <1>e, <1>f DEF fuzzerVars, serverVars, sessionVars, Control, Gone, Working
<1>Dialogue. Dialogue'
  BY <1>0, <1>a, <1>b, <1>c, <1>d, <1>e, <1>f DEF fuzzerVars, serverVars, sessionVars, Dialogue, Plain, Gone
<1>Children. Children'
  BY <1>0, <1>a, <1>b, <1>c, <1>d, <1>e, <1>f DEF fuzzerVars, serverVars, sessionVars, Children, Live, Gone
<1>Rest. Rest'
  BY <1>0, <1>a, <1>b, <1>c, <1>d, <1>e, <1>f DEF fuzzerVars, serverVars, sessionVars, Rest, NoneRuns, Live, Gone
<1>Statuses. Statuses'
  BY <1>0, <1>a, <1>b, <1>c, <1>d, <1>e, <1>f DEF fuzzerVars, serverVars, sessionVars, Statuses, Void, OwnStatus, Types, Setup, Busy, Ending, Working, RunNo, Children, Live, Gone, Rest, NoneRuns, Process, Procs
<1>Innocent. Innocent'
  BY <1>0, <1>a, <1>b, <1>c, <1>d, <1>e, <1>f DEF fuzzerVars, serverVars, sessionVars, Innocent, Tame, WrittenOff, Gone
<1>Returned. Returned'
  BY <1>0, <1>a, <1>b, <1>c, <1>d, <1>e, <1>f DEF fuzzerVars, serverVars, sessionVars, Returned, Ending
<1>Agreed. Agreed'
  BY <1>0, <1>a, <1>b, <1>c, <1>d, <1>e, <1>f DEF fuzzerVars, serverVars, sessionVars, Agreed, NoneRuns, Gone, Working
<1>Dictionary. Dictionary'
  BY <1>0, <1>a, <1>b, <1>c, <1>d, <1>e, <1>f DEF fuzzerVars, serverVars, sessionVars, Dictionary
<1>Orphans. Orphans'
  BY <1>0, <1>a, <1>b, <1>c, <1>d, <1>e, <1>f DEF fuzzerVars, serverVars, sessionVars, Orphans
<1> QED BY <1>Types, <1>Procs, <1>Stops, <1>Fresh, <1>Control, <1>Dialogue, <1>Children, <1>Rest, <1>Statuses, <1>Innocent, <1>Returned, <1>Agreed, <1>Dictionary, <1>Orphans DEF IInv

\* The hello is read.
LEMMA KeepReadHello ==
  ASSUME add_extra_func, IInv, ReadHello
  PROVE  IInv'
<1>0. Types /\ Procs /\ Stops /\ Fresh /\ Control /\ Dialogue /\ Children /\ Rest /\ Statuses
      /\ Innocent /\ Returned /\ Agreed /\ Dictionary /\ Orphans
  BY DEF IInv
<1>a. /\ fpc = "start" /\ handler # "wait"
      /\ \/ st # <<>> /\ ~stop_soon /\ "ERROR" \notin Head(st).hello
            /\ use_shmem_fuzz' = ("SHDMEM" \in Head(st).hello)
            /\ st' = Tail(st) /\ fpc' = "reply" /\ UNCHANGED spc
         \/ fpc' = "fatal" /\ spc' = (IF Gone THEN spc ELSE "dead")
            /\ UNCHANGED <<st, use_shmem_fuzz>>
      /\ UNCHANGED <<fuzzerRest, serverRest, ctl, proc, trace, target, ignore_autodict,
                     restarted, fuzz_ptr, loaded, job>>
  BY DEF ReadHello
<1>b. run = 0 /\ ctl = <<>>
  BY <1>0, <1>a DEF Fresh, Setup, Dialogue
<1>c. fpc' = "reply" => /\ use_shmem_fuzz' <=> "SHDMEM" \in target
                        /\ st' = <<>>
                        /\ (spc = "read" /\ Plain) \/ spc = "opts" \/ Gone
  <2>1. \A t : Head(<<Hello(t)>>).hello = t /\ Tail(<<Hello(t)>>) = <<>>
    BY Tuples DEF Hello
  <2> QED BY <1>0, <1>a, <2>1 DEF Dialogue
<1>Types. Types'
  <2>1. fpc' \in {"reply", "fatal"} /\ spc' \in {spc, "dead"}
    BY <1>a
  <2>2. use_shmem_fuzz' \in BOOLEAN
    <3>1. use_shmem_fuzz \in BOOLEAN
      BY <1>0 DEF Types
    <3>2. CASE use_shmem_fuzz' = use_shmem_fuzz
      BY <3>1, <3>2
    <3>3. CASE use_shmem_fuzz' = ("SHDMEM" \in Head(st).hello)
      BY <3>3
    <3> QED BY <1>a, <3>2, <3>3
  <2>3. /\ fpc' \in Setup \cup {"idle"} \cup Busy \cup Ending
        /\ spc' \in {"start", "opts", "dict", "read", "exit", "dead"} \cup Working
    BY <1>0, <2>1 DEF Types, Setup, Ending
  <2> QED BY <1>0, <1>a, <2>1, <2>2, <2>3 DEF Types, fuzzerRest, serverRest
<1>Procs. Procs'
  BY <1>0, <1>a, <1>b, <1>c, ControlPipe, StatusPipe DEF fuzzerRest, serverRest, Gone, Procs
<1>Stops. Stops'
  BY <1>0, <1>a, <1>b, <1>c, ControlPipe, StatusPipe DEF fuzzerRest, serverRest, Gone, Stops, Ending
<1>Fresh. Fresh'
  BY <1>0, <1>a, <1>b, <1>c, ControlPipe, StatusPipe DEF fuzzerRest, serverRest, Gone, Fresh, Setup, Busy
<1>Control. Control'
  BY <1>0, <1>a, <1>b, <1>c, ControlPipe, StatusPipe DEF fuzzerRest, serverRest, Gone, Control, Working
<1>Dialogue. Dialogue'
  BY <1>0, <1>a, <1>b, <1>c, ControlPipe, StatusPipe DEF fuzzerRest, serverRest, Gone, Dialogue, Plain
<1>Children. Children'
  BY <1>0, <1>a, <1>b, <1>c, ControlPipe, StatusPipe DEF fuzzerRest, serverRest, Gone, Children, Live
<1>Rest. Rest'
  BY <1>0, <1>a, <1>b, <1>c, ControlPipe, StatusPipe DEF fuzzerRest, serverRest, Gone, Rest, NoneRuns, Live
<1>Statuses. Statuses'
  BY <1>0, <1>a, <1>b, <1>c, ControlPipe, StatusPipe DEF fuzzerRest, serverRest, Gone, Statuses, Void, OwnStatus
<1>Innocent. Innocent'
  BY <1>0, <1>a, <1>b, <1>c, ControlPipe, StatusPipe DEF fuzzerRest, serverRest, Gone, Innocent, Tame, WrittenOff
<1>Returned. Returned'
  BY <1>0, <1>a, <1>b, <1>c, ControlPipe, StatusPipe DEF fuzzerRest, serverRest, Gone, Returned, Ending
<1>Agreed. Agreed'
  BY <1>0, <1>a, <1>b, <1>c, ControlPipe, StatusPipe DEF fuzzerRest, serverRest, Gone, Agreed, NoneRuns, Working, Types, Setup, Busy, Ending, RunNo, Stops, Fresh, NoProcess
<1>Dictionary. Dictionary'
  BY <1>0, <1>a, <1>b, <1>c, ControlPipe, StatusPipe DEF fuzzerRest, serverRest, Gone, Dictionary
<1>Orphans. Orphans'
  BY <1>0, <1>a, <1>b, <1>c, ControlPipe, StatusPipe DEF fuzzerRest, serverRest, Gone, Orphans
<1> QED BY <1>Types, <1>Procs, <1>Stops, <1>Fresh, <1>Control, <1>Dialogue, <1>Children, <1>Rest, <1>Statuses, <1>Innocent, <1>Returned, <1>Agreed, <1>Dictionary, <1>Orphans DEF IInv

\* The hello does not come.
LEMMA KeepInitTimeout ==
  ASSUME add_extra_func, IInv, InitTimeout
  PROVE  IInv'
<1>0. Types /\ Procs /\ Stops /\ Fresh /\ Control /\ Dialogue /\ Children /\ Rest /\ Statuses
      /\ Innocent /\ Returned /\ Agreed /\ Dictionary /\ Orphans
  BY DEF IInv
<1>a. /\ fpc = "start" /\ st = <<>> /\ ~Gone /\ handler # "wait" /\ fpc' = "fatal" /\ spc' = "dead"
      /\ UNCHANGED <<fuzzerRest, serverRest, ctl, st, proc, trace, sessionVars>>
  BY DEF InitTimeout, Eof
<1>Types. Types'
  BY <1>0, <1>a DEF fuzzerRest, serverRest, sessionVars, Gone, Types, Setup, Busy, Ending, Working, RunNo
<1>Procs. Procs'
  BY <1>0, <1>a DEF fuzzerRest, serverRest, sessionVars, Gone, Procs
<1>Stops. Stops'
  BY <1>0, <1>a DEF fuzzerRest, serverRest, sessionVars, Gone, Stops, Ending
<1>Fresh. Fresh'
  BY <1>0, <1>a DEF fuzzerRest, serverRest, sessionVars, Gone, Fresh, Setup, Busy
<1>Control. Control'
  BY <1>0, <1>a DEF fuzzerRest, serverRest, sessionVars, Gone, Control, Working
<1>Dialogue. Dialogue'
  BY <1>0, <1>a DEF fuzzerRest, serverRest, sessionVars, Gone, Dialogue, Plain
<1>Children. Children'
  BY <1>0, <1>a DEF fuzzerRest, serverRest, sessionVars, Gone, Children, Live
<1>Rest. Rest'
  BY <1>0, <1>a DEF fuzzerRest, serverRest, sessionVars, Gone, Rest, NoneRuns, Live
<1>Statuses. Statuses'
  BY <1>0, <1>a DEF fuzzerRest, serverRest, sessionVars, Gone, Statuses, Void, OwnStatus
<1>Innocent. Innocent'
  BY <1>0, <1>a DEF fuzzerRest, serverRest, sessionVars, Gone, Innocent, Tame, WrittenOff
<1>Returned. Returned'
  BY <1>0, <1>a DEF fuzzerRest, serverRest, sessionVars, Gone, Returned, Ending
<1>Agreed. Agreed'
  BY <1>0, <1>a DEF fuzzerRest, serverRest, sessionVars, Gone, Agreed, NoneRuns, Working
<1>Dictionary. Dictionary'
  BY <1>0, <1>a DEF fuzzerRest, serverRest, sessionVars, Gone, Dictionary
<1>Orphans. Orphans'
  BY <1>0, <1>a DEF fuzzerRest, serverRest, sessionVars, Gone, Orphans
<1> QED BY <1>Types, <1>Procs, <1>Stops, <1>Fresh, <1>Control, <1>Dialogue, <1>Children, <1>Rest, <1>Statuses, <1>Innocent, <1>Returned, <1>Agreed, <1>Dictionary, <1>Orphans DEF IInv

\* The reply is given.
LEMMA KeepSendReply ==
  ASSUME add_extra_func, IInv, SendReply
  PROVE  IInv'
<1>0. Types /\ Procs /\ Stops /\ Fresh /\ Control /\ Dialogue /\ Children /\ Rest /\ Statuses
      /\ Innocent /\ Returned /\ Agreed /\ Dictionary /\ Orphans
  BY DEF IInv
<1>a. /\ fpc = "reply" /\ handler # "wait"
      /\ \/ Gone /\ fpc' = "fatal" /\ UNCHANGED ctl
         \/ Replies /\ ~Gone /\ ctl' = Append(ctl, ReplyMsg(Reply))
            /\ fpc' = (IF "AUTODICT" \in Reply THEN "dict" ELSE "up")
         \/ ~Replies /\ fpc' = "up" /\ UNCHANGED ctl
      /\ UNCHANGED <<fuzzerRest, serverVars, st, proc, trace, sessionVars>>
  BY DEF SendReply, ReplyMsg
<1>b. /\ run = 0 /\ ctl = <<>> /\ st = <<>> /\ (use_shmem_fuzz <=> "SHDMEM" \in target)
      /\ (spc = "read" /\ Plain) \/ spc = "opts" \/ Gone
  BY <1>0, <1>a DEF Fresh, Setup, Dialogue
<1>c. ~Replies => ~use_shmem_fuzz /\ ~WantsDict
  BY <1>0 DEF Replies, Types
<1>d. Replies => /\ Reply \in Replyable
                 /\ "AUTODICT" \in Reply <=> WantsDict
                 /\ "SHDMEM" \in Reply <=> use_shmem_fuzz
                 /\ "AUTODICT" \notin Reply => Reply = {"SHDMEM"}
  BY <1>0 DEF Replies, Reply, Replyable, Types
<1>e. Replies /\ ~Gone => spc = "opts"
  BY <1>b DEF Replies, WantsDict, Plain
<1> DEFINE o == Reply
<1>f. Replies /\ ~Gone => /\ IsRep(ctl') /\ Head(ctl') = ReplyMsg(o)
                          /\ o = {"SHDMEM"} => IsShmem(ctl')
  BY <1>a, <1>b, <1>d, ControlWrites
<1> HIDE DEF o
<1>g. /\ Head(ctl').opts = o \/ ~Replies \/ Gone
  BY <1>f, Fields
<1>Control. Control'
  BY <1>0, <1>a, <1>b, <1>e, <1>f, ControlPipe DEF Control, Gone, Working, serverVars, fuzzerRest
<1>Dialogue. Dialogue'
  <2>1. Replies /\ ~Gone /\ "AUTODICT" \notin o => IsShmem(ctl')
    BY <1>d, <1>f DEF o
  <2> QED BY <1>0, <1>a, <1>b, <1>e, <1>f, <2>1 DEF Dialogue, Gone, serverVars, fuzzerRest, o
<1>Statuses. Statuses'
  BY <1>0, <1>a, <1>b, <1>f, ControlPipe, StatusPipe DEF Statuses, Void, OwnStatus, fuzzerRest, serverVars
<1>Dictionary. Dictionary'
  BY <1>0, <1>a, <1>b, <1>c, <1>d DEF Dictionary, WantsDict, sessionVars
<1>Agreed. Agreed'
  <2>1. NoneRuns'
    BY <1>0, <1>a, <1>b DEF NoneRuns, Fresh, NoProcess
  <2>2. CASE fpc' = "fatal"
    BY <1>0, <1>a, <2>1, <2>2 DEF Agreed, Gone, Working, serverVars, sessionVars
  <2>3. CASE ~Replies /\ fpc' = "up"
    BY <1>0, <1>a, <1>b, <1>c, <2>1, <2>3, ControlPipe DEF Agreed, Gone, Working, serverVars, fuzzerRest, sessionVars
  <2>4. CASE Replies /\ ~Gone
    <3>1. spc' = "opts" /\ fpc' \in {"dict", "up"} /\ ~fuzz_ptr' /\ use_shmem_fuzz' = use_shmem_fuzz
      BY <1>0, <1>a, <1>e, <2>4 DEF Agreed, serverVars, sessionVars
    <3>2. IsRep(ctl') /\ Head(ctl').opts = o
      BY <1>f, <1>g, <2>4
    <3>3. fpc' = "up" => use_shmem_fuzz
      BY <1>a, <1>d, <2>4
    <3>4. fpc' = "dict" => "AUTODICT" \in o /\ ("SHDMEM" \in o <=> use_shmem_fuzz)
      BY <1>a, <1>d, <2>4 DEF o
    <3> QED BY <2>1, <3>1, <3>2, <3>3, <3>4 DEF Agreed, Working
  <2> QED BY <1>a, <2>2, <2>3, <2>4
<1>Types. Types'
  BY <1>0, <1>a, <1>b, <1>c, <1>d, <1>e, <1>f, <1>g, ControlPipe DEF fuzzerRest, serverVars, sessionVars, Gone, Types, Setup, Busy, Ending, Working, RunNo
<1>Procs. Procs'
  BY <1>0, <1>a, <1>b, <1>c, <1>d, <1>e, <1>f, <1>g, ControlPipe DEF fuzzerRest, serverVars, sessionVars, Gone, Procs
<1>Stops. Stops'
  BY <1>0, <1>a, <1>b, <1>c, <1>d, <1>e, <1>f, <1>g, ControlPipe DEF fuzzerRest, serverVars, sessionVars, Gone, Stops, Ending
<1>Fresh. Fresh'
  BY <1>0, <1>a, <1>b, <1>c, <1>d, <1>e, <1>f, <1>g, ControlPipe DEF fuzzerRest, serverVars, sessionVars, Gone, Fresh, Setup, Busy
<1>Children. Children'
  BY <1>0, <1>a, <1>b, <1>c, <1>d, <1>e, <1>f, <1>g, ControlPipe DEF fuzzerRest, serverVars, sessionVars, Gone, Children, Live
<1>Rest. Rest'
  BY <1>0, <1>a, <1>b, <1>c, <1>d, <1>e, <1>f, <1>g, ControlPipe DEF fuzzerRest, serverVars, sessionVars, Gone, Rest, NoneRuns, Live
<1>Innocent. Innocent'
  BY <1>0, <1>a, <1>b, <1>c, <1>d, <1>e, <1>f, <1>g, ControlPipe DEF fuzzerRest, serverVars, sessionVars, Gone, Innocent, Tame, WrittenOff
<1>Returned. Returned'
  BY <1>0, <1>a, <1>b, <1>c, <1>d, <1>e, <1>f, <1>g, ControlPipe DEF fuzzerRest, serverVars, sessionVars, Gone, Returned, Ending
<1>Orphans. Orphans'
  BY <1>0, <1>a, <1>b, <1>c, <1>d, <1>e, <1>f, <1>g, ControlPipe DEF fuzzerRest, serverVars, sessionVars, Gone, Orphans
<1> QED BY <1>Types, <1>Procs, <1>Stops, <1>Fresh, <1>Control, <1>Dialogue, <1>Children, <1>Rest, <1>Statuses, <1>Innocent, <1>Returned, <1>Agreed, <1>Dictionary, <1>Orphans DEF IInv

\* The dictionary is read.
LEMMA KeepReadDict ==
  ASSUME add_extra_func, IInv, ReadDict
  PROVE  IInv'
<1>0. Types /\ Procs /\ Stops /\ Fresh /\ Control /\ Dialogue /\ Children /\ Rest /\ Statuses
      /\ Innocent /\ Returned /\ Agreed /\ Dictionary /\ Orphans
  BY DEF IInv
<1>a. /\ fpc = "dict" /\ handler # "wait"
      /\ \/ st # <<>> /\ fpc' = "up" /\ st' = Tail(st) /\ loaded' = loaded + 1
         \/ Gone /\ fpc' = "fatal" /\ UNCHANGED <<st, loaded>>
      /\ UNCHANGED <<fuzzerRest, serverVars, ctl, proc, trace, target, ignore_autodict, restarted,
                     use_shmem_fuzz, fuzz_ptr, job>>
  BY DEF ReadDict, Eof
<1>b. st # <<>> => \/ st' = <<>> /\ ctl = <<>> /\ (Gone \/ spc = "read")
                   \/ fpc' = "fatal"
  BY <1>0, <1>a, Tuples DEF Dialogue
<1>c. loaded = 0 /\ run = 0
  BY <1>0, <1>a DEF Dictionary, Fresh, Setup
<1>Types. Types'
  BY <1>0, <1>a, <1>b, <1>c, ControlPipe DEF fuzzerRest, serverVars, Gone, Types, Setup, Busy, Ending, Working, RunNo
<1>Procs. Procs'
  BY <1>0, <1>a, <1>b, <1>c, ControlPipe DEF fuzzerRest, serverVars, Gone, Procs
<1>Stops. Stops'
  BY <1>0, <1>a, <1>b, <1>c, ControlPipe DEF fuzzerRest, serverVars, Gone, Stops, Ending
<1>Fresh. Fresh'
  BY <1>0, <1>a, <1>b, <1>c, ControlPipe DEF fuzzerRest, serverVars, Gone, Fresh, Setup, Busy
<1>Control. Control'
  BY <1>0, <1>a, <1>b, <1>c, ControlPipe DEF fuzzerRest, serverVars, Gone, Control, Working
<1>Dialogue. Dialogue'
  BY <1>0, <1>a, <1>b, <1>c, ControlPipe DEF fuzzerRest, serverVars, Gone, Dialogue, Plain
<1>Children. Children'
  BY <1>0, <1>a, <1>b, <1>c, ControlPipe DEF fuzzerRest, serverVars, Gone, Children, Live
<1>Rest. Rest'
  BY <1>0, <1>a, <1>b, <1>c, ControlPipe DEF fuzzerRest, serverVars, Gone, Rest, NoneRuns, Live
<1>Statuses. Statuses'
  BY <1>0, <1>a, <1>b, <1>c, ControlPipe DEF fuzzerRest, serverVars, Gone, Statuses, Void, OwnStatus
<1>Innocent. Innocent'
  BY <1>0, <1>a, <1>b, <1>c, ControlPipe DEF fuzzerRest, serverVars, Gone, Innocent, Tame, WrittenOff
<1>Returned. Returned'
  BY <1>0, <1>a, <1>b, <1>c, ControlPipe DEF fuzzerRest, serverVars, Gone, Returned, Ending
<1>Agreed. Agreed'
  BY <1>0, <1>a, <1>b, <1>c, ControlPipe DEF fuzzerRest, serverVars, Gone, Agreed, NoneRuns, Working
<1>Dictionary. Dictionary'
  BY <1>0, <1>a, <1>b, <1>c, ControlPipe DEF fuzzerRest, serverVars, Gone, Dictionary
<1>Orphans. Orphans'
  BY <1>0, <1>a, <1>b, <1>c, ControlPipe DEF fuzzerRest, serverVars, Gone, Orphans
<1> QED BY <1>Types, <1>Procs, <1>Stops, <1>Fresh, <1>Control, <1>Dialogue, <1>Children, <1>Rest, <1>Statuses, <1>Innocent, <1>Returned, <1>Agreed, <1>Dictionary, <1>Orphans DEF IInv

\* The server is up.
LEMMA KeepStarted ==
  ASSUME add_extra_func, IInv, Started
  PROVE  IInv'
<1>0. Types /\ Procs /\ Stops /\ Fresh /\ Control /\ Dialogue /\ Children /\ Rest /\ Statuses
      /\ Innocent /\ Returned /\ Agreed /\ Dictionary /\ Orphans
  BY DEF IInv
<1>a. /\ fpc = "up" /\ fpc' = "idle" /\ run = 0
      /\ target' = {} /\ ignore_autodict' = FALSE /\ restarted' = FALSE
      /\ UNCHANGED <<fuzzerRest, serverVars, ctl, st, proc, trace, use_shmem_fuzz, fuzz_ptr, loaded, job>>
  BY <1>0 DEF Started, Fresh, Setup
<1>Types. Types'
  <2>1. /\ restarted' \in BOOLEAN /\ ignore_autodict' \in BOOLEAN /\ target' \in SUBSET Options
    BY <1>a
  <2> QED BY <1>0, <1>a, <2>1 DEF Types, fuzzerRest, serverVars
<1>none. \A p \in Pids : proc[p].state = "none" /\ proc'[p] = proc[p]
  BY <1>0, <1>a DEF Fresh, NoProcess
<1>Rest. Rest'
  <2>1. NoneRuns /\ NoneRuns'
    BY <1>none DEF NoneRuns
  <2>2. ~child_stopped /\ srv_child = 0
    BY <1>0, <1>a DEF Fresh
  <2> QED BY <1>0, <1>a, <2>1, <2>2 DEF Rest, serverVars, fuzzerRest
<1>Innocent. Innocent'
  <2>1. ~child_stopped
    BY <1>0, <1>a DEF Fresh
  <2> QED BY <1>a, <2>1 DEF Innocent, serverVars, fuzzerRest
<1>Procs. Procs'
  BY <1>0, <1>a DEF fuzzerRest, serverVars, Gone, NoProcess, Procs
<1>Stops. Stops'
  BY <1>0, <1>a DEF fuzzerRest, serverVars, Gone, NoProcess, Stops, Ending
<1>Fresh. Fresh'
  BY <1>0, <1>a DEF fuzzerRest, serverVars, Gone, NoProcess, Fresh, Setup, Busy
<1>Control. Control'
  BY <1>0, <1>a DEF fuzzerRest, serverVars, Gone, NoProcess, Control, Working
<1>Dialogue. Dialogue'
  BY <1>0, <1>a DEF fuzzerRest, serverVars, Gone, NoProcess, Dialogue, Plain
<1>Children. Children'
  BY <1>0, <1>a DEF fuzzerRest, serverVars, Gone, NoProcess, Children, Live
<1>Statuses. Statuses'
  BY <1>0, <1>a DEF fuzzerRest, serverVars, Gone, NoProcess, Statuses, Void, OwnStatus
<1>Returned. Returned'
  BY <1>0, <1>a DEF fuzzerRest, serverVars, Gone, NoProcess, Returned, Ending
<1>Agreed. Agreed'
  BY <1>0, <1>a DEF fuzzerRest, serverVars, Gone, NoProcess, Agreed, NoneRuns, Working
<1>Dictionary. Dictionary'
  BY <1>0, <1>a DEF fuzzerRest, serverVars, Gone, NoProcess, Dictionary
<1>Orphans. Orphans'
  BY <1>0, <1>a DEF fuzzerRest, serverVars, Gone, NoProcess, Orphans
<1> QED BY <1>Types, <1>Procs, <1>Stops, <1>Fresh, <1>Control, <1>Dialogue, <1>Children, <1>Rest, <1>Statuses, <1>Innocent, <1>Returned, <1>Agreed, <1>Dictionary, <1>Orphans DEF IInv

\* The server is started again for a larger map.
LEMMA KeepRestart ==
  ASSUME add_extra_func, IInv, Restart
  PROVE  IInv'
<1>0. Types /\ Procs /\ Stops /\ Fresh /\ Control /\ Dialogue /\ Children /\ Rest /\ Statuses
      /\ Innocent /\ Returned /\ Agreed /\ Dictionary /\ Orphans
  BY DEF IInv
<1>a. /\ fpc = "up" /\ handler # "wait" /\ run = 0 /\ srv_child = 0
      /\ restarted' = TRUE /\ ignore_autodict' = TRUE
      /\ fpc' = "start" /\ spc' = "start" /\ fuzz_ptr' = FALSE
      /\ srv_child' = 0 /\ forked' = 0 /\ srv_sigterm' = FALSE
      /\ ctl' = <<>> /\ st' = <<>>
      /\ UNCHANGED <<fuzzerRest, child_stopped, was_killed, status, srv_run, proc, trace, target,
                     use_shmem_fuzz, loaded, job>>
  BY <1>0 DEF Restart, NoAutodict, AtExit, Fresh, Setup
<1>Types. Types'
  <2>1. /\ restarted' \in BOOLEAN /\ ignore_autodict' \in BOOLEAN /\ fuzz_ptr' \in BOOLEAN
        /\ srv_sigterm' \in BOOLEAN /\ fpc' \in Setup
    BY <1>a DEF Setup
  <2> QED BY <1>0, <1>a, <2>1 DEF Types, fuzzerRest
<1>Control. Control'
  BY <1>0, <1>a, ControlPipe DEF Control, Working, Gone
<1>Statuses. Statuses'
  BY <1>0, <1>a, ControlPipe, StatusPipe DEF Statuses
<1>Rest. Rest'
  <2>1. NoneRuns'
    BY <1>0, <1>a DEF Fresh, NoneRuns, NoProcess
  <2>2. ~child_stopped
    BY <1>0, <1>a DEF Fresh
  <2> QED BY <1>a, <2>1, <2>2 DEF Rest
<1>Procs. Procs'
  BY <1>0, <1>a, ControlPipe, StatusPipe, EmptyLen DEF fuzzerRest, Gone, NoProcess, Procs
<1>Stops. Stops'
  BY <1>0, <1>a, ControlPipe, StatusPipe, EmptyLen DEF fuzzerRest, Gone, NoProcess, Stops, Ending
<1>Fresh. Fresh'
  BY <1>0, <1>a, ControlPipe, StatusPipe, EmptyLen DEF fuzzerRest, Gone, NoProcess, Fresh, Setup, Busy
<1>Dialogue. Dialogue'
  BY <1>0, <1>a, ControlPipe, StatusPipe, EmptyLen DEF fuzzerRest, Gone, NoProcess, Dialogue, Plain
<1>Children. Children'
  BY <1>0, <1>a, ControlPipe, StatusPipe, EmptyLen DEF fuzzerRest, Gone, NoProcess, Children, Live, Types, Setup, Busy, Ending, Working, RunNo, Stops, Fresh
<1>Innocent. Innocent'
  BY <1>0, <1>a, ControlPipe, StatusPipe, EmptyLen DEF fuzzerRest, Gone, NoProcess, Innocent, Tame, WrittenOff
<1>Returned. Returned'
  BY <1>0, <1>a, ControlPipe, StatusPipe, EmptyLen DEF fuzzerRest, Gone, NoProcess, Returned, Ending
<1>Agreed. Agreed'
  BY <1>0, <1>a, ControlPipe, StatusPipe, EmptyLen DEF fuzzerRest, Gone, NoProcess, Agreed, NoneRuns, Working, Types, Setup, Busy, Ending, RunNo, Stops, Fresh
<1>Dictionary. Dictionary'
  BY <1>0, <1>a, ControlPipe, StatusPipe, EmptyLen DEF fuzzerRest, Gone, NoProcess, Dictionary
<1>Orphans. Orphans'
  BY <1>0, <1>a, ControlPipe, StatusPipe, EmptyLen DEF fuzzerRest, Gone, NoProcess, Orphans
<1> QED BY <1>Types, <1>Procs, <1>Stops, <1>Fresh, <1>Control, <1>Dialogue, <1>Children, <1>Rest, <1>Statuses, <1>Innocent, <1>Returned, <1>Agreed, <1>Dictionary, <1>Orphans DEF IInv

\* The target says hello.
LEMMA KeepSrvHello ==
  ASSUME add_extra_func, IInv, SrvHello
  PROVE  IInv'
<1>0. Types /\ Procs /\ Stops /\ Fresh /\ Control /\ Dialogue /\ Children /\ Rest /\ Statuses
      /\ Innocent /\ Returned /\ Agreed /\ Dictionary /\ Orphans
  BY DEF IInv
<1>a. /\ spc = "start" /\ fpc \notin {"ended", "killed"} /\ ~Gone
      /\ \/ st' = Append(st, Hello(target)) /\ spc' = (IF Plain THEN "read" ELSE "opts")
         \/ st' = Append(st, Hello({"ERROR"})) /\ spc' = "dead"
      /\ UNCHANGED <<fuzzerVars, serverRest, ctl, proc, trace, sessionVars>>
  BY DEF SrvHello, FuzzerGone, Plain, Gone
<1>b. fpc = "start" /\ ctl = <<>> /\ st = <<>> /\ run = 0
  BY <1>0, <1>a, ControlPipe, StatusPipe DEF Dialogue, Stops, Types, Setup, Busy, Ending, Fresh
<1>c. \A t : Append(<<>>, Hello(t)) = <<Hello(t)>> /\ Len(<<Hello(t)>>) = 1
  BY Tuples
<1>Types. Types'
  BY <1>0, <1>a, <1>b, <1>c, ControlPipe DEF fuzzerVars, serverRest, sessionVars, Gone, Types, Setup, Busy, Ending, Working, RunNo
<1>Procs. Procs'
  BY <1>0, <1>a, <1>b, <1>c, ControlPipe DEF fuzzerVars, serverRest, sessionVars, Gone, Procs
<1>Stops. Stops'
  BY <1>0, <1>a, <1>b, <1>c, ControlPipe DEF fuzzerVars, serverRest, sessionVars, Gone, Stops, Ending
<1>Fresh. Fresh'
  BY <1>0, <1>a, <1>b, <1>c, ControlPipe DEF fuzzerVars, serverRest, sessionVars, Gone, Fresh, Setup, Busy
<1>Control. Control'
  BY <1>0, <1>a, <1>b, <1>c, ControlPipe DEF fuzzerVars, serverRest, sessionVars, Gone, Control, Working
<1>Dialogue. Dialogue'
  BY <1>0, <1>a, <1>b, <1>c, ControlPipe DEF fuzzerVars, serverRest, sessionVars, Gone, Dialogue, Plain
<1>Children. Children'
  BY <1>0, <1>a, <1>b, <1>c, ControlPipe DEF fuzzerVars, serverRest, sessionVars, Gone, Children, Live
<1>Rest. Rest'
  BY <1>0, <1>a, <1>b, <1>c, ControlPipe DEF fuzzerVars, serverRest, sessionVars, Gone, Rest, NoneRuns, Live
<1>Statuses. Statuses'
  BY <1>0, <1>a, <1>b, <1>c, ControlPipe DEF fuzzerVars, serverRest, sessionVars, Gone, Statuses, Void, OwnStatus
<1>Innocent. Innocent'
  BY <1>0, <1>a, <1>b, <1>c, ControlPipe DEF fuzzerVars, serverRest, sessionVars, Gone, Innocent, Tame, WrittenOff
<1>Returned. Returned'
  BY <1>0, <1>a, <1>b, <1>c, ControlPipe DEF fuzzerVars, serverRest, sessionVars, Gone, Returned, Ending
<1>Agreed. Agreed'
  BY <1>0, <1>a, <1>b, <1>c, ControlPipe DEF fuzzerVars, serverRest, sessionVars, Gone, Agreed, NoneRuns, Working
<1>Dictionary. Dictionary'
  BY <1>0, <1>a, <1>b, <1>c, ControlPipe DEF fuzzerVars, serverRest, sessionVars, Gone, Dictionary
<1>Orphans. Orphans'
  BY <1>0, <1>a, <1>b, <1>c, ControlPipe DEF fuzzerVars, serverRest, sessionVars, Gone, Orphans
<1> QED BY <1>Types, <1>Procs, <1>Stops, <1>Fresh, <1>Control, <1>Dialogue, <1>Children, <1>Rest, <1>Statuses, <1>Innocent, <1>Returned, <1>Agreed, <1>Dictionary, <1>Orphans DEF IInv

\* The server reads the options.
LEMMA KeepSrvOptions ==
  ASSUME add_extra_func, IInv, SrvOptions
  PROVE  IInv'
<1>0. Types /\ Procs /\ Stops /\ Fresh /\ Control /\ Dialogue /\ Children /\ Rest /\ Statuses
      /\ Innocent /\ Returned /\ Agreed /\ Dictionary /\ Orphans
  BY DEF IInv
<1>a. /\ spc = "opts" /\ ctl # <<>> /\ ctl' = Tail(ctl) /\ ~Gone
      /\ fuzz_ptr' \in BOOLEAN /\ (fuzz_ptr' <=> "SHDMEM" \in Head(ctl).opts)
      /\ was_killed' = Head(ctl).was_killed /\ srv_run' = Head(ctl).run
      /\ spc' = (IF "AUTODICT" \in Head(ctl).opts THEN "dict"
                 ELSE IF "SHDMEM" \notin Head(ctl).opts THEN "check" ELSE "read")
      /\ UNCHANGED <<fuzzerVars, srv_child, child_stopped, status, forked, srv_sigterm,
                     st, proc, trace, target, ignore_autodict, restarted, use_shmem_fuzz, loaded, job>>
  <2>1. fuzz_ptr' = ("SHDMEM" \in Head(ctl).opts)
    BY DEF SrvOptions
  <2>2. fuzz_ptr' \in BOOLEAN
    BY <2>1
  <2>3. fuzz_ptr' <=> "SHDMEM" \in Head(ctl).opts
    BY <2>1
  <2> QED BY <2>2, <2>3 DEF SrvOptions, AlreadyReadFirst, Gone
<1>b. \/ /\ IsReq(ctl, run) /\ run > 0 /\ ctl' = <<>> /\ spc' = "check" /\ srv_run' = run
         /\ was_killed' = Killed(ctl) /\ was_killed' \in BOOLEAN /\ ~fuzz_ptr'
      \/ /\ IsRep(ctl) /\ ctl' = <<>> /\ srv_run' = 0 /\ was_killed' = TRUE
         /\ Head(ctl).opts \in Replyable
         /\ spc' = (IF "AUTODICT" \in Head(ctl).opts THEN "dict" ELSE "read")
      \/ /\ IsRepReq(ctl, run) /\ run > 0 /\ IsReq(ctl', run) /\ Killed(ctl') = Killed(ctl)
         /\ spc' = "read" /\ srv_run' = 0 /\ was_killed' = TRUE /\ fuzz_ptr'
  <2>1. CASE IsReq(ctl, run)
    BY <1>0, <1>a, <2>1, ControlPipe DEF Control
  <2>2. CASE IsRep(ctl)
    BY <1>0, <1>a, <2>2, ControlPipe DEF Control, Replyable
  <2>3. CASE IsRepReq(ctl, run)
    <3>1. /\ "SHDMEM" \in Head(ctl).opts /\ "AUTODICT" \notin Head(ctl).opts
          /\ Head(ctl).run = 0 /\ Head(ctl).was_killed = TRUE
          /\ IsReq(Tail(ctl), run) /\ Killed(Tail(ctl)) = Killed(ctl)
      <4>1. /\ Head(ctl).opts = {"SHDMEM"} /\ Head(ctl).run = 0 /\ Head(ctl).was_killed = TRUE
            /\ IsReq(Tail(ctl), run) /\ Killed(Tail(ctl)) = Killed(ctl)
        BY <2>3, ControlPipe, Zenon
      <4> QED BY <4>1
    <3> QED BY <1>0, <1>a, <2>3, <3>1 DEF Control
  <2> QED BY <1>0, <1>a, <2>1, <2>2, <2>3 DEF Control
<1>c. NoneRuns /\ ~Gone'
  BY <1>0, <1>a, <1>b DEF Rest, Gone
<1>Types. Types'
  <2>1. was_killed' \in BOOLEAN
    BY <1>b
  <2>2. fuzz_ptr' \in BOOLEAN
    BY <1>a
  <2>3. srv_run' \in RunNo
    BY <1>0, <1>b, ForkServerAssumption DEF Types, RunNo
  <2>4. spc' \in {"check", "dict", "read"}
    BY <1>b
  <2> QED BY <1>0, <1>a, <2>1, <2>2, <2>3, <2>4 DEF Types, fuzzerVars, Working
<1>where. \/ fpc = "dict" /\ IsRep(ctl) /\ "AUTODICT" \in Head(ctl).opts
             /\ (use_shmem_fuzz <=> "SHDMEM" \in Head(ctl).opts)
          \/ fpc \in {"up", "idle"} /\ IsRep(ctl) /\ Head(ctl).opts = {"SHDMEM"} /\ use_shmem_fuzz
          \/ fpc = "pid" /\ st = <<>> /\ IsReq(ctl, run) /\ ~use_shmem_fuzz
          \/ fpc = "pid" /\ st = <<>> /\ IsRepReq(ctl, run) /\ use_shmem_fuzz
          \/ fpc = "killed"
  <2>1. fpc \in {"dict", "up", "idle", "pid", "killed"}
    BY <1>0, <1>a DEF Dialogue, Stops, Types, Setup, Busy, Ending
  <2>2. CASE fpc = "dict"
    BY <1>0, <1>a, <2>2 DEF Dialogue, Agreed
  <2>3. CASE fpc \in {"up", "idle"}
    BY <1>0, <1>a, <2>3, ControlPipe DEF Dialogue, Agreed
  <2>4. CASE fpc = "pid"
    BY <1>0, <1>a, <2>4, ControlPipe DEF Dialogue, Agreed
  <2> QED BY <2>1, <2>2, <2>3, <2>4
<1>Control. Control'
  BY <1>0, <1>a, <1>b, <1>c, ControlPipe DEF Control, Working, fuzzerVars
<1>Dialogue. Dialogue'
  <2>1. Len(st') \in {0, 1, 2}
    BY <1>0, <1>a DEF Dialogue
  <2>2. fpc \in {"dict", "up", "idle"} => st' = <<>>
    BY <1>0, <1>a DEF Dialogue
  <2> QED BY <1>a, <1>b, <1>c, <1>where, <2>1, <2>2, ControlPipe DEF Dialogue, fuzzerVars
<1>Statuses. Statuses'
  <2>1. CASE IsReq(ctl, run)
    BY <1>0, <1>a, <1>b, <2>1, ControlPipe DEF Statuses, Void, OwnStatus, fuzzerVars
  <2>2. CASE IsRep(ctl)
    BY <1>0, <1>a, <1>b, <2>2, ControlPipe DEF Statuses, Void, OwnStatus, fuzzerVars
  <2>3. CASE IsRepReq(ctl, run)
    BY <1>0, <1>a, <1>b, <2>3, ControlPipe DEF Statuses, Void, OwnStatus, fuzzerVars
  <2> QED BY <1>b, <2>1, <2>2, <2>3
<1>Innocent. Innocent'
  <2>1. Tame => Tame'
    BY <1>a DEF Tame
  <2>2. WrittenOff => WrittenOff'
    <3>1. ~IsRep(ctl) \/ ~WrittenOff
      BY <1>a, ControlPipe DEF WrittenOff
    <3> QED BY <1>a, <1>b, <3>1, ControlPipe DEF WrittenOff, fuzzerVars
  <2>3. spc' \in {"check", "dict", "read"}
    BY <1>b
  <2> QED BY <1>0, <1>a, <1>c, <2>1, <2>2, <2>3 DEF Innocent, fuzzerVars
<1>Agreed. Agreed'
  <2>1. NoneRuns'
    BY <1>a, <1>c DEF NoneRuns
  <2>2. spc' \in {"dict", "check", "read"} /\ (fpc = "dict" => ctl' = <<>>)
    BY <1>b, <1>where, ControlPipe
  <2>3. fpc # "killed" => (fuzz_ptr' <=> use_shmem_fuzz)
    BY <1>a, <1>b, <1>where, ControlPipe
  <2> QED BY <1>a, <1>where, <2>1, <2>2, <2>3, ControlPipe DEF Agreed, fuzzerVars
<1>Procs. Procs'
  BY <1>0, <1>a, <1>b, <1>c, ControlPipe DEF fuzzerVars, Procs
<1>Stops. Stops'
  BY <1>0, <1>a, <1>b, <1>c, ControlPipe DEF fuzzerVars, Stops, Ending, Gone
<1>Fresh. Fresh'
  BY <1>0, <1>a, <1>b, <1>c, ControlPipe DEF fuzzerVars, Fresh, Setup, Busy
<1>Children. Children'
  BY <1>0, <1>a, <1>b, <1>c, ControlPipe DEF fuzzerVars, Children, Live, Gone
<1>Rest. Rest'
  BY <1>0, <1>a, <1>b, <1>c, ControlPipe DEF fuzzerVars, Rest, NoneRuns, Live, Gone
<1>Returned. Returned'
  BY <1>0, <1>a, <1>b, <1>c, ControlPipe DEF fuzzerVars, Returned, Ending
<1>Dictionary. Dictionary'
  BY <1>0, <1>a, <1>b, <1>c, ControlPipe DEF fuzzerVars, Dictionary
<1>Orphans. Orphans'
  BY <1>0, <1>a, <1>b, <1>c, ControlPipe DEF fuzzerVars, Orphans
<1> QED BY <1>Types, <1>Procs, <1>Stops, <1>Fresh, <1>Control, <1>Dialogue, <1>Children, <1>Rest, <1>Statuses, <1>Innocent, <1>Returned, <1>Agreed, <1>Dictionary, <1>Orphans DEF IInv

\* The server sends its dictionary.
LEMMA KeepSrvDict ==
  ASSUME add_extra_func, IInv, SrvDict
  PROVE  IInv'
<1>0. Types /\ Procs /\ Stops /\ Fresh /\ Control /\ Dialogue /\ Children /\ Rest /\ Statuses
      /\ Innocent /\ Returned /\ Agreed /\ Dictionary /\ Orphans
  BY DEF IInv
<1>a. /\ spc = "dict" /\ spc' = "read" /\ fpc \notin {"ended", "killed"} /\ ~Gone /\ ~Gone'
      /\ st' = Append(st, [dict |-> TRUE])
      /\ UNCHANGED <<fuzzerVars, serverRest, ctl, proc, trace, sessionVars>>
  BY DEF SrvDict, FuzzerGone, Gone
<1>b. fpc = "dict" /\ ctl = <<>> /\ st = <<>> /\ run = 0
  BY <1>0, <1>a, ControlPipe, StatusPipe DEF Dialogue, Stops, Types, Setup, Busy, Ending, Fresh
<1>c. st' = <<[dict |-> TRUE]>> /\ Len(st') = 1
  BY <1>a, <1>b, Tuples
<1>Types. Types'
  BY <1>0, <1>a, <1>b, <1>c, ControlPipe DEF fuzzerVars, serverRest, sessionVars, Types, Setup, Busy, Ending, Working, RunNo
<1>Procs. Procs'
  BY <1>0, <1>a, <1>b, <1>c, ControlPipe DEF fuzzerVars, serverRest, sessionVars, Procs
<1>Stops. Stops'
  BY <1>0, <1>a, <1>b, <1>c, ControlPipe DEF fuzzerVars, serverRest, sessionVars, Stops, Ending, Gone
<1>Fresh. Fresh'
  BY <1>0, <1>a, <1>b, <1>c, ControlPipe DEF fuzzerVars, serverRest, sessionVars, Fresh, Setup, Busy
<1>Control. Control'
  BY <1>0, <1>a, <1>b, <1>c, ControlPipe DEF fuzzerVars, serverRest, sessionVars, Control, Gone, Working
<1>Dialogue. Dialogue'
  BY <1>0, <1>a, <1>b, <1>c, ControlPipe DEF fuzzerVars, serverRest, sessionVars, Dialogue, Plain, Gone
<1>Children. Children'
  BY <1>0, <1>a, <1>b, <1>c, ControlPipe DEF fuzzerVars, serverRest, sessionVars, Children, Live, Gone
<1>Rest. Rest'
  BY <1>0, <1>a, <1>b, <1>c, ControlPipe DEF fuzzerVars, serverRest, sessionVars, Rest, NoneRuns, Live, Gone
<1>Statuses. Statuses'
  BY <1>0, <1>a, <1>b, <1>c, ControlPipe DEF fuzzerVars, serverRest, sessionVars, Statuses, Void, OwnStatus
<1>Innocent. Innocent'
  BY <1>0, <1>a, <1>b, <1>c, ControlPipe DEF fuzzerVars, serverRest, sessionVars, Innocent, Tame, WrittenOff, Gone
<1>Returned. Returned'
  BY <1>0, <1>a, <1>b, <1>c, ControlPipe DEF fuzzerVars, serverRest, sessionVars, Returned, Ending
<1>Agreed. Agreed'
  BY <1>0, <1>a, <1>b, <1>c, ControlPipe DEF fuzzerVars, serverRest, sessionVars, Agreed, NoneRuns, Gone, Working
<1>Dictionary. Dictionary'
  BY <1>0, <1>a, <1>b, <1>c, ControlPipe DEF fuzzerVars, serverRest, sessionVars, Dictionary
<1>Orphans. Orphans'
  BY <1>0, <1>a, <1>b, <1>c, ControlPipe DEF fuzzerVars, serverRest, sessionVars, Orphans
<1> QED BY <1>Types, <1>Procs, <1>Stops, <1>Fresh, <1>Control, <1>Dialogue, <1>Children, <1>Rest, <1>Statuses, <1>Innocent, <1>Returned, <1>Agreed, <1>Dictionary, <1>Orphans DEF IInv

\* The exit handler of afl-fuzz.
LEMMA KeepFuzzerAtExit ==
  ASSUME add_extra_func, IInv, FuzzerAtExit
  PROVE  IInv'
<1>0. Types /\ Procs /\ Stops /\ Fresh /\ Control /\ Dialogue /\ Children /\ Rest /\ Statuses
      /\ Innocent /\ Returned /\ Agreed /\ Dictionary /\ Orphans
  BY DEF IInv
<1>a. /\ fpc \in {"fatal", "exit"} /\ fpc' = "ended" /\ srv_sigterm' \in BOOLEAN
      /\ UNCHANGED <<fuzzerRest, spc, srv_child, child_stopped, was_killed, status, forked, srv_run,
                     ctl, st, trace, sessionVars>>
  BY <1>0 DEF FuzzerAtExit, Stops, Types
<1>b. \/ handler = "done" /\ UNCHANGED proc
      \/ handler # "done" /\ proc' = KillGroup
  BY DEF FuzzerAtExit
<1>c. Procs' /\ \A p \in Pids : Quieted(proc[p], proc'[p])
  BY <1>0, <1>b, KillGroupIs DEF Procs, Quieted
<1>d. \A p \in Pids :
        /\ proc'[p].run = proc[p].run
        /\ proc'[p].cause = "crash" <=> proc[p].cause = "crash"
        /\ Live(p)' <=> Live(p)
        /\ proc'[p].state = "running" => proc[p].state = "running"
        /\ proc'[p].state \in {"running", "stopped"} =>
             proc'[p].cause = "none" /\ proc[p].state \in {"running", "stopped"}
        /\ proc'[p].state = "zombie" => proc'[p].cause # "none"
        /\ proc'[p].state = "none" => proc'[p] = NoProcess
        /\ proc[p].state \notin {"running", "stopped"} => proc'[p] = proc[p]
  BY <1>0, <1>c, QuietedIs
<1>e. spc = "exit" => \A p \in Pids : Live(p) => p = forked
  BY <1>0, ForkServerAssumption DEF Children, Pids
<1>gone. Gone /\ Gone'
  BY <1>0, <1>a DEF Stops, Gone
<1>Orphans. Orphans'
  <2>1. CASE handler # "done"
    <3>1. \A p \in Pids : proc'[p].state \in {"running", "stopped"} =>
            child_kill_signal = "SIGTERM" /\ proc'[p].state = "stopped" /\ Live(p)
      BY <1>0, <1>b, <1>d, <2>1, KillGroupIs DEF Live
    <3> QED BY <1>a, <1>e, <1>gone, <3>1 DEF Orphans, Gone
  <2>2. CASE handler = "done"
    <3>1. proc' = proc /\ stop_soon
      BY <1>0, <1>b, <2>2 DEF Stops
    <3> QED BY <1>a, <1>e, <1>gone, <3>1 DEF Orphans, Live, Gone, fuzzerRest
  <2> QED BY <2>1, <2>2
<1>Fresh. Fresh'
  <2>1. \A p \in Pids : proc[p] = NoProcess => proc'[p] = proc[p]
    BY <1>d DEF NoProcess
  <2>2. fpc' \notin Setup \cup Busy
    BY <1>a DEF Setup, Busy
  <2> QED BY <1>0, <1>a, <2>1, <2>2 DEF Fresh, fuzzerRest
<1>Rest. Rest'
  BY <1>0, <1>a, <1>gone DEF Rest, Gone, fuzzerRest
<1>Statuses. Statuses'
  BY <1>0, <1>a, <1>d, <1>gone DEF Statuses, Gone, fuzzerRest
<1>Types. Types'
  BY <1>0, <1>a, <1>b, <1>c, <1>d DEF fuzzerRest, sessionVars, Gone, Types, Setup, Busy, Ending, Working, RunNo
<1>Procs. Procs'
  BY <1>0, <1>a, <1>b, <1>c, <1>d DEF fuzzerRest, sessionVars, Gone, Procs
<1>Stops. Stops'
  BY <1>0, <1>a, <1>b, <1>c, <1>d DEF fuzzerRest, sessionVars, Gone, Stops, Ending
<1>Control. Control'
  BY <1>0, <1>a, <1>b, <1>c, <1>d DEF fuzzerRest, sessionVars, Gone, Control, Working
<1>Dialogue. Dialogue'
  BY <1>0, <1>a, <1>b, <1>c, <1>d DEF fuzzerRest, sessionVars, Gone, Dialogue, Plain
<1>Children. Children'
  BY <1>0, <1>a, <1>b, <1>c, <1>d DEF fuzzerRest, sessionVars, Gone, Children, Live, Types, Setup, Busy, Ending, Working, RunNo, Stops
<1>Innocent. Innocent'
  BY <1>0, <1>a, <1>b, <1>c, <1>d DEF fuzzerRest, sessionVars, Gone, Innocent, Tame, WrittenOff
<1>Returned. Returned'
  BY <1>0, <1>a, <1>b, <1>c, <1>d DEF fuzzerRest, sessionVars, Gone, Returned, Ending
<1>Agreed. Agreed'
  BY <1>0, <1>a, <1>b, <1>c, <1>d DEF fuzzerRest, sessionVars, Gone, Agreed, NoneRuns, Working
<1>Dictionary. Dictionary'
  BY <1>0, <1>a, <1>b, <1>c, <1>d DEF fuzzerRest, sessionVars, Gone, Dictionary
<1> QED BY <1>Types, <1>Procs, <1>Stops, <1>Fresh, <1>Control, <1>Dialogue, <1>Children, <1>Rest, <1>Statuses, <1>Innocent, <1>Returned, <1>Agreed, <1>Dictionary, <1>Orphans DEF IInv

\* The worker stops afl-fuzz.
LEMMA KeepJobTerminate ==
  ASSUME add_extra_func, IInv, JobTerminate
  PROVE  IInv'
<1>0. Types /\ Procs /\ Stops /\ Fresh /\ Control /\ Dialogue /\ Children /\ Rest /\ Statuses
      /\ Innocent /\ Returned /\ Agreed /\ Dictionary /\ Orphans
  BY DEF IInv
<1>a. /\ job = "fuzzing" /\ job' = "stopping" /\ handler = "none" /\ fpc \notin Ending
      /\ stop_soon' = TRUE /\ handler' = "wait" /\ srv_sigterm' = TRUE
      /\ UNCHANGED <<fpc, run, child_pid, last_run_timed_out, result, got, spc, srv_child,
                     child_stopped, was_killed, status, forked, srv_run, ctl, st, trace,
                     target, ignore_autodict, restarted, use_shmem_fuzz, fuzz_ptr, loaded>>
  BY DEF JobTerminate, HandleStopSig
<1>b. Procs' /\ \A o \in Pids : Quieted(proc[o], proc'[o])
  BY <1>0, SignalIs DEF JobTerminate, HandleStopSig, Types
<1>q. \A o \in Pids :
        /\ proc'[o].run = proc[o].run
        /\ proc'[o].cause = "crash" <=> proc[o].cause = "crash"
        /\ Live(o)' <=> Live(o)
        /\ proc'[o].state = "running" => proc[o].state = "running"
        /\ proc'[o].state \in {"running", "stopped"} =>
             proc'[o].cause = "none" /\ proc[o].state \in {"running", "stopped"}
        /\ proc'[o].state = "zombie" => proc'[o].cause # "none"
        /\ proc'[o].state = "none" => proc'[o] = NoProcess
        /\ proc[o].state \notin {"running", "stopped"} => proc'[o] = proc[o]
  BY <1>0, <1>b, QuietedIs
<1>Children. Children'
  <2>1. srv_child \in {0} \cup Pids /\ forked \in {0} \cup Pids
    BY <1>0 DEF Types
  <2>2. srv_child # 0 => (Live(srv_child)' <=> Live(srv_child))
    BY <1>a, <1>q, <2>1 DEF serverVars, Live
  <2>3. forked # 0 => (Live(forked)' <=> Live(forked))
    BY <1>a, <1>q, <2>1 DEF serverVars, Live
  <2> QED BY <1>0, <1>a, <1>q, <2>1, <2>2, <2>3 DEF Children, Gone, serverVars, Live
<1>Rest. Rest'
  <2>1. NoneRuns => NoneRuns'
    BY <1>q DEF NoneRuns
  <2>2. srv_child # 0 => (Live(srv_child)' <=> Live(srv_child))
    BY <1>0, <1>a, <1>q DEF serverVars, Live, Types
  <2> QED BY <1>0, <1>a, <2>1, <2>2 DEF Rest, Gone, serverVars
<1>Statuses. Statuses'
  <2>1. \A s : OwnStatus(s) => OwnStatus(s)'
    BY <1>a, <1>q DEF OwnStatus
  <2>2. srv_child \in {0} \cup Pids /\ forked \in {0} \cup Pids
    BY <1>0 DEF Types
  <2>3. ~Void' => ~Void
    BY <1>a DEF Void
  <2>4. /\ srv_child # 0 => proc'[srv_child].run = proc[srv_child].run
        /\ forked # 0 => proc'[forked].run = proc[forked].run
    BY <1>q, <2>2
  <2>5. /\ spc \in {"pid", "wait"} => srv_child # 0
        /\ spc = "forked" => forked # 0
    BY <1>0 DEF Rest, Children
  <2> QED BY <1>0, <1>a, <1>q, <2>1, <2>3, <2>4, <2>5 DEF Statuses, serverVars
<1>Fresh. Fresh'
  BY <1>0, <1>a, <1>q DEF Fresh, Setup, Busy, NoProcess, serverVars, Ending
<1>Types. Types'
  BY <1>0, <1>a, <1>b, <1>q DEF Gone, Quieted, Types, Setup, Busy, Ending, Working, RunNo
<1>Procs. Procs'
  BY <1>0, <1>a, <1>b, <1>q DEF Gone, Quieted, Procs
<1>Stops. Stops'
  BY <1>0, <1>a, <1>b, <1>q DEF Gone, Quieted, Stops, Ending
<1>Control. Control'
  BY <1>0, <1>a, <1>b, <1>q DEF Gone, Quieted, Control, Working
<1>Dialogue. Dialogue'
  BY <1>0, <1>a, <1>b, <1>q DEF Gone, Quieted, Dialogue, Plain
<1>Innocent. Innocent'
  BY <1>0, <1>a, <1>b, <1>q DEF Gone, Quieted, Innocent, Tame, WrittenOff
<1>Returned. Returned'
  BY <1>0, <1>a, <1>b, <1>q DEF Gone, Quieted, Returned, Ending
<1>Agreed. Agreed'
  BY <1>0, <1>a, <1>b, <1>q DEF Gone, Quieted, Agreed, NoneRuns, Working
<1>Dictionary. Dictionary'
  BY <1>0, <1>a, <1>b, <1>q DEF Gone, Quieted, Dictionary
<1>Orphans. Orphans'
  BY <1>0, <1>a, <1>b, <1>q DEF Gone, Quieted, Orphans
<1> QED BY <1>Types, <1>Procs, <1>Stops, <1>Fresh, <1>Control, <1>Dialogue, <1>Children, <1>Rest, <1>Statuses, <1>Innocent, <1>Returned, <1>Agreed, <1>Dictionary, <1>Orphans DEF IInv

\* The worker kills afl-fuzz.
LEMMA KeepJobKill ==
  ASSUME add_extra_func, IInv, JobKill
  PROVE  IInv'
<1>0. Types /\ Procs /\ Stops /\ Fresh /\ Control /\ Dialogue /\ Children /\ Rest /\ Statuses
      /\ Innocent /\ Returned /\ Agreed /\ Dictionary /\ Orphans
  BY DEF IInv
<1>Types. Types'
  BY <1>0 DEF fuzzerRest, serverRest, fuzzerVars, serverVars, sessionVars, JobKill, Gone, Types, Setup, Busy, Ending, Working, RunNo
<1>Procs. Procs'
  BY <1>0 DEF fuzzerRest, serverRest, fuzzerVars, serverVars, sessionVars, JobKill, Gone, Procs
<1>Stops. Stops'
  BY <1>0 DEF fuzzerRest, serverRest, fuzzerVars, serverVars, sessionVars, JobKill, Gone, Stops, Ending
<1>Fresh. Fresh'
  BY <1>0 DEF fuzzerRest, serverRest, fuzzerVars, serverVars, sessionVars, JobKill, Gone, Fresh, Setup, Busy
<1>Control. Control'
  BY <1>0 DEF fuzzerRest, serverRest, fuzzerVars, serverVars, sessionVars, JobKill, Gone, Control, Working
<1>Dialogue. Dialogue'
  BY <1>0 DEF fuzzerRest, serverRest, fuzzerVars, serverVars, sessionVars, JobKill, Gone, Dialogue, Plain
<1>Children. Children'
  BY <1>0 DEF fuzzerRest, serverRest, fuzzerVars, serverVars, sessionVars, JobKill, Gone, Children, Live
<1>Rest. Rest'
  BY <1>0 DEF fuzzerRest, serverRest, fuzzerVars, serverVars, sessionVars, JobKill, Gone, Rest, NoneRuns, Live
<1>Statuses. Statuses'
  BY <1>0 DEF fuzzerRest, serverRest, fuzzerVars, serverVars, sessionVars, JobKill, Gone, Statuses, Void, OwnStatus
<1>Innocent. Innocent'
  BY <1>0 DEF fuzzerRest, serverRest, fuzzerVars, serverVars, sessionVars, JobKill, Gone, Innocent, Tame, WrittenOff
<1>Returned. Returned'
  BY <1>0 DEF fuzzerRest, serverRest, fuzzerVars, serverVars, sessionVars, JobKill, Gone, Returned, Ending
<1>Agreed. Agreed'
  BY <1>0 DEF fuzzerRest, serverRest, fuzzerVars, serverVars, sessionVars, JobKill, Gone, Agreed, NoneRuns, Working
<1>Dictionary. Dictionary'
  BY <1>0 DEF fuzzerRest, serverRest, fuzzerVars, serverVars, sessionVars, JobKill, Gone, Dictionary
<1>Orphans. Orphans'
  BY <1>0 DEF fuzzerRest, serverRest, fuzzerVars, serverVars, sessionVars, JobKill, Gone, Orphans
<1> QED BY <1>Types, <1>Procs, <1>Stops, <1>Fresh, <1>Control, <1>Dialogue, <1>Children, <1>Rest, <1>Statuses, <1>Innocent, <1>Returned, <1>Agreed, <1>Dictionary, <1>Orphans DEF IInv

\* The worker's job ends.
LEMMA KeepJobReturns ==
  ASSUME add_extra_func, IInv, JobReturns
  PROVE  IInv'
<1>0. Types /\ Procs /\ Stops /\ Fresh /\ Control /\ Dialogue /\ Children /\ Rest /\ Statuses
      /\ Innocent /\ Returned /\ Agreed /\ Dictionary /\ Orphans
  BY DEF IInv
<1>Types. Types'
  BY <1>0 DEF fuzzerRest, serverRest, fuzzerVars, serverVars, sessionVars, JobReturns, vars, Gone, Types, Setup, Busy, Ending, Working, RunNo
<1>Procs. Procs'
  BY <1>0 DEF fuzzerRest, serverRest, fuzzerVars, serverVars, sessionVars, JobReturns, vars, Gone, Procs
<1>Stops. Stops'
  BY <1>0 DEF fuzzerRest, serverRest, fuzzerVars, serverVars, sessionVars, JobReturns, vars, Gone, Stops, Ending
<1>Fresh. Fresh'
  BY <1>0 DEF fuzzerRest, serverRest, fuzzerVars, serverVars, sessionVars, JobReturns, vars, Gone, Fresh, Setup, Busy
<1>Control. Control'
  BY <1>0 DEF fuzzerRest, serverRest, fuzzerVars, serverVars, sessionVars, JobReturns, vars, Gone, Control, Working
<1>Dialogue. Dialogue'
  BY <1>0 DEF fuzzerRest, serverRest, fuzzerVars, serverVars, sessionVars, JobReturns, vars, Gone, Dialogue, Plain
<1>Children. Children'
  BY <1>0 DEF fuzzerRest, serverRest, fuzzerVars, serverVars, sessionVars, JobReturns, vars, Gone, Children, Live
<1>Rest. Rest'
  BY <1>0 DEF fuzzerRest, serverRest, fuzzerVars, serverVars, sessionVars, JobReturns, vars, Gone, Rest, NoneRuns, Live
<1>Statuses. Statuses'
  BY <1>0 DEF fuzzerRest, serverRest, fuzzerVars, serverVars, sessionVars, JobReturns, vars, Gone, Statuses, Void, OwnStatus
<1>Innocent. Innocent'
  BY <1>0 DEF fuzzerRest, serverRest, fuzzerVars, serverVars, sessionVars, JobReturns, vars, Gone, Innocent, Tame, WrittenOff
<1>Returned. Returned'
  BY <1>0 DEF fuzzerRest, serverRest, fuzzerVars, serverVars, sessionVars, JobReturns, vars, Gone, Returned, Ending
<1>Agreed. Agreed'
  BY <1>0 DEF fuzzerRest, serverRest, fuzzerVars, serverVars, sessionVars, JobReturns, vars, Gone, Agreed, NoneRuns, Working
<1>Dictionary. Dictionary'
  BY <1>0 DEF fuzzerRest, serverRest, fuzzerVars, serverVars, sessionVars, JobReturns, vars, Gone, Dictionary
<1>Orphans. Orphans'
  BY <1>0 DEF fuzzerRest, serverRest, fuzzerVars, serverVars, sessionVars, JobReturns, vars, Gone, Orphans
<1> QED BY <1>Types, <1>Procs, <1>Stops, <1>Fresh, <1>Control, <1>Dialogue, <1>Children, <1>Rest, <1>Statuses, <1>Innocent, <1>Returned, <1>Agreed, <1>Dictionary, <1>Orphans DEF IInv

----------------------------------------------------------------------------
(* The invariant holds                                                     *)

\* No run, no process, no message.
LEMMA InitIInv == SessionInit => IInv
<1> SUFFICES ASSUME SessionInit PROVE IInv
  OBVIOUS
<1>a. /\ fpc = "start" /\ spc = "start" /\ target \in SUBSET Options /\ ignore_autodict \in BOOLEAN
      /\ restarted = FALSE /\ use_shmem_fuzz = FALSE /\ fuzz_ptr = FALSE /\ loaded = 0
      /\ job = "fuzzing" /\ run = 0 /\ child_pid = 0
      /\ last_run_timed_out = FALSE /\ stop_soon = FALSE /\ handler = "none"
      /\ result = "none" /\ got = NoStatus /\ srv_child = 0 /\ child_stopped = FALSE
      /\ was_killed = FALSE /\ status = NoStatus /\ forked = 0 /\ srv_sigterm = FALSE
      /\ srv_run = 0 /\ ctl = <<>> /\ st = <<>> /\ trace = {}
  BY DEF SessionInit, NoRuns
<1>b. proc = [p \in Pids |-> NoProcess]
  BY DEF SessionInit, NoRuns
<1>c. \A p \in Pids : /\ proc[p] = NoProcess /\ proc[p].state = "none" /\ proc[p].run = 0
  BY <1>b DEF NoProcess
<1>d. 0 \in RunNo /\ NoProcess \in Process
  BY ForkServerAssumption DEF RunNo, NoProcess, Process
<1>Types. Types
  <2>1. trace \in SUBSET RunNo
    BY <1>a
  <2>2. run \in RunNo /\ srv_run \in RunNo
    BY <1>a, <1>d
  <2> QED BY <1>a, <2>1, <2>2 DEF Types, Setup
<1>Procs. Procs
  BY <1>b, <1>d DEF Procs
<1>Stops. Stops
  BY <1>a DEF Stops
<1>Fresh. Fresh
  BY <1>a, <1>c DEF Fresh, Busy
<1>Control. Control
  BY <1>a, ControlPipe DEF Control, Working
<1>Dialogue. Dialogue
  BY <1>a, EmptyLen DEF Dialogue
<1>Children. Children
  BY <1>a, <1>c DEF Children, Live
<1>Rest. Rest
  BY <1>a, <1>c DEF Rest, NoneRuns
<1>Statuses. Statuses
  BY <1>a, ControlPipe DEF Statuses
<1>Innocent. Innocent
  BY <1>a DEF Innocent
<1>Returned. Returned
  BY <1>a DEF Returned
<1>Agreed. Agreed
  <2>1. NoneRuns
    BY <1>c DEF NoneRuns
  <2> QED BY <1>a, <2>1 DEF Agreed, Working
<1>Dictionary. Dictionary
  BY <1>a DEF Dictionary
<1>Orphans. Orphans
  BY <1>a DEF Orphans
<1> QED BY <1>Types, <1>Procs, <1>Stops, <1>Fresh, <1>Control, <1>Dialogue, <1>Children, <1>Rest,
           <1>Statuses, <1>Innocent, <1>Returned, <1>Agreed, <1>Dictionary, <1>Orphans DEF IInv

\* A step that changes nothing keeps the invariant.
LEMMA KeepStutter ==
  ASSUME IInv, UNCHANGED <<vars, sessionVars>>
  PROVE  IInv'
<1>a. UNCHANGED <<fpc, run, child_pid, last_run_timed_out, stop_soon, handler, result, got, spc,
                  srv_child, child_stopped, was_killed, status, forked, srv_sigterm, srv_run,
                  ctl, st, proc, trace, target, ignore_autodict, restarted, use_shmem_fuzz,
                  fuzz_ptr, loaded, job>>
  BY DEF vars, fuzzerVars, serverVars, sessionVars
<1>0. Types /\ Procs /\ Stops /\ Fresh /\ Control /\ Dialogue /\ Children /\ Rest /\ Statuses
      /\ Innocent /\ Returned /\ Agreed /\ Dictionary /\ Orphans
  BY DEF IInv
<1>Types. Types'
  BY <1>0, <1>a DEF Types
<1>Procs. Procs'
  BY <1>0, <1>a DEF Procs
<1>Stops. Stops'
  BY <1>0, <1>a DEF Stops, Gone
<1>Fresh. Fresh'
  BY <1>0, <1>a DEF Fresh
<1>Control. Control'
  BY <1>0, <1>a DEF Control, Gone
<1>Dialogue. Dialogue'
  BY <1>0, <1>a DEF Dialogue, Plain, Gone
<1>Children. Children'
  BY <1>0, <1>a DEF Children, Live, Gone
<1>Rest. Rest'
  BY <1>0, <1>a DEF Rest, NoneRuns, Live, Gone
<1>Statuses. Statuses'
  BY <1>0, <1>a DEF Statuses, Void, OwnStatus
<1>Innocent. Innocent'
  BY <1>0, <1>a DEF Innocent, Tame, WrittenOff, Gone
<1>Returned. Returned'
  BY <1>0, <1>a DEF Returned
<1>Agreed. Agreed'
  BY <1>0, <1>a DEF Agreed, NoneRuns, Gone
<1>Dictionary. Dictionary'
  BY <1>0, <1>a DEF Dictionary
<1>Orphans. Orphans'
  BY <1>0, <1>a DEF Orphans
<1> QED BY <1>Types, <1>Procs, <1>Stops, <1>Fresh, <1>Control, <1>Dialogue, <1>Children, <1>Rest, <1>Statuses, <1>Innocent, <1>Returned, <1>Agreed, <1>Dictionary, <1>Orphans DEF IInv

\* Every step of the session keeps the invariant, when afl-fuzz runs the server.
LEMMA KeepIInv ==
  ASSUME add_extra_func, IInv, [SessionNext]_<<vars, sessionVars>>
  PROVE  IInv'
<1>1. CASE Handshake
  BY <1>1, KeepReadHello, KeepInitTimeout, KeepSendReply, KeepReadDict, KeepStarted, KeepRestart
     DEF Handshake
<1>2. CASE SrvHello
  BY <1>2, KeepSrvHello
<1>3. CASE SrvHandshake
  BY <1>3, KeepSrvOptions, KeepSrvDict DEF SrvHandshake
<1>4. CASE FuzzerAtExit
  BY <1>4, KeepFuzzerAtExit
<1>5. CASE Job
  BY <1>5, KeepJobTerminate, KeepJobKill, KeepJobReturns DEF Job
<1>6. CASE Fuzzer /\ UNCHANGED sessionVars
  BY <1>6, KeepRunTarget, KeepReadPid, KeepReadStatus, KeepTimeout, KeepKillChild, KeepReadLate,
     KeepHandlerReturns, KeepFuzzerExit DEF Fuzzer
<1>7. CASE Server /\ UNCHANGED sessionVars
  BY <1>7, KeepSrvRead, KeepSrvWriteOff, KeepSrvFork, KeepSrvForked, KeepSrvContinue,
     KeepSrvWritePid, KeepSrvWait, KeepSrvWriteStatus, KeepSrvAtExit, KeepSrvPipeClosed DEF Server
<1>8. CASE Child /\ UNCHANGED sessionVars
  BY <1>8, KeepChildHits, KeepChildLoops, KeepChildEnds DEF Child
<1>9. CASE SrvDies /\ UNCHANGED sessionVars
  BY <1>9, KeepSrvDies
<1>10. CASE UNCHANGED <<vars, sessionVars>>
  BY <1>10, KeepStutter
<1> QED BY <1>1, <1>2, <1>3, <1>4, <1>5, <1>6, <1>7, <1>8, <1>9, <1>10 DEF SessionNext, Running

\* The invariant holds in every session of afl-fuzz.
LEMMA Invariance ==
  ASSUME add_extra_func
  PROVE  SessionSpec => []IInv
<1>1. SessionInit => IInv
  BY InitIInv
<1>2. IInv /\ [SessionNext]_<<vars, sessionVars>> => IInv'
  BY KeepIInv
<1> QED BY <1>1, <1>2, PTL DEF SessionSpec

----------------------------------------------------------------------------
(* The theorems                                                            *)

\* A run that returns a result returns its own: the status afl_fsrv_run_target
\* looks at is that of this run, only this run wrote to trace_bits, and what
\* counts as a crash is the target's own.
THEOREM ResultsOwn ==
  ASSUME add_extra_func
  PROVE  SessionSpec => []OwnResult
<1>1. IInv => OwnResult
  BY DEF IInv, Returned, OwnResult
<1> QED BY <1>1, Invariance, PTL

\* Between two runs, whichever way the last one ended, no child is left that
\* could write to trace_bits.
THEOREM MapRests ==
  ASSUME add_extra_func
  PROVE  SessionSpec => []MapAtRest
<1>1. IInv => MapAtRest
  BY DEF IInv, Rest, NoneRuns, MapAtRest
<1> QED BY <1>1, Invariance, PTL

\* When afl-fuzz has ended, no child lives on, but for the three exceptions
\* that NoOrphans names.
THEOREM NoOrphansLeft ==
  ASSUME add_extra_func
  PROVE  SessionSpec => []NoOrphans
<1>1. IInv => NoOrphans
  BY DEF IInv, Orphans, Stops, NoOrphans
<1> QED BY <1>1, Invariance, PTL

\* What a pipe can hold is a number.
LEMMA AtMostTwo == \A n : n \in {0, 1, 2} => n <= 2
OBVIOUS

\* The state is of its type, and neither pipe ever holds more than two messages.
LEMMA TypesRight == IInv => SessionTypeOK
<1> SUFFICES ASSUME IInv PROVE SessionTypeOK
  OBVIOUS
<1>1. Len(ctl) <= 2
  <2>1. ctl = <<>> \/ IsReq(ctl, run) \/ IsRep(ctl) \/ IsRepReq(ctl, run)
    BY DEF IInv, Control
  <2>2. Len(ctl) \in {0, 1, 2}
    BY <2>1, ControlPipe, EmptyLen
  <2> QED BY <2>2, AtMostTwo
<1>2. Len(st) <= 2
  <2>1. Len(st) \in {0, 1, 2}
    BY DEF IInv, Dialogue
  <2> QED BY <2>1, AtMostTwo
<1>3. \A s \in StatusSet \cup {NoStatus} : s.run \in RunNo
  BY ForkServerAssumption DEF StatusSet, NoStatus, Status, RunNo
<1>4. Types /\ Procs
  BY DEF IInv
<1>5. got.run \in RunNo /\ status.run \in RunNo
  BY <1>3, <1>4 DEF Types
<1>6. TypeOK
  BY <1>1, <1>2, <1>4, <1>5 DEF TypeOK, Types, Procs, Setup, Busy, Working
<1>7. /\ target \subseteq Options /\ loaded \in 0..2
      /\ job \in {"fuzzing", "stopping", "returncode", "STOP_FUZZING", "FAIL_FUZZING"}
  BY <1>4 DEF Types
<1>8. {ignore_autodict, restarted, use_shmem_fuzz, fuzz_ptr} \subseteq BOOLEAN
  BY <1>4 DEF Types
<1> QED BY <1>6, <1>7, <1>8 DEF SessionTypeOK

\* When the target runs, both sides agree on where its input is; whenever a
\* server is up its dictionary has been loaded, and never twice.
THEOREM OptionsAgreed ==
  ASSUME add_extra_func
  PROVE  SessionSpec => []HandshakeAgreed
<1>1. ASSUME IInv PROVE HandshakeAgreed
  <2>1. SessionTypeOK
    BY <1>1, TypesRight
  <2>2. fuzz_ptr \in BOOLEAN /\ use_shmem_fuzz \in BOOLEAN /\ loaded <= 1
    BY <1>1 DEF IInv, Types
  <2>3. (\E p \in Pids : proc[p].state = "running") /\ ~stop_soon => (fuzz_ptr <=> use_shmem_fuzz)
    BY <1>1 DEF IInv, Agreed, NoneRuns
  <2>4. (\E p \in Pids : proc[p].state = "running") /\ ~stop_soon => fuzz_ptr = use_shmem_fuzz
    BY <2>2, <2>3
  <2>5. fpc = "up" /\ "AUTODICT" \in target /\ ~ignore_autodict => loaded = 1
    BY <1>1 DEF IInv, Dictionary
  <2> QED BY <2>1, <2>2, <2>4, <2>5 DEF HandshakeAgreed
<1> QED BY <1>1, Invariance, PTL

----------------------------------------------------------------------------
(* The session implements TargetRun                                        *)

\* What the refinement mapping makes of the state.
Phase ==
  IF fpc \in Ending THEN "over"
  ELSE IF fpc \in {"pid", "wait", "kill", "late"} THEN "busy" ELSE "idle"
CrashIn(c, r) == c.cause = "crash" /\ c.run = r
Crashed == \E p \in Pids : CrashIn(proc[p], run)

\* The fuzzer is in a run, between runs, or has ended.
LEMMA Phases ==
  /\ fpc \in Ending <=> Phase = "over"
  /\ fpc \in {"pid", "wait", "kill", "late"} <=> Phase = "busy"
  /\ fpc \in Setup \cup {"idle"} => Phase = "idle"
BY DEF Phase, Ending, Setup

\* Whether the target has crashed in the current run depends on the processes.
LEMMA SameCrash ==
  ASSUME run' = run, \A p \in Pids : CrashIn(proc'[p], run) <=> CrashIn(proc[p], run)
  PROVE  Crashed' <=> Crashed
BY DEF Crashed

\* A step the abstract specification does not see.
LEMMA MapsToStutter ==
  ASSUME UNCHANGED <<run, result, trace, stop_soon>>, Phase' = Phase, Crashed' <=> Crashed
  PROVE  UNCHANGED TR!vars
BY DEF TR!vars, Phase, Crashed, CrashIn

\* A run that begins.
LEMMA MapsToBegin ==
  ASSUME Phase = "idle", Phase' = "busy", run' = run + 1, result' = "none", ~Crashed',
         trace' = {}, UNCHANGED stop_soon
  PROVE  TR!Begin
BY DEF TR!Begin, Phase, Crashed, CrashIn

\* The target leaves its mark.
LEMMA MapsToTargetRuns ==
  ASSUME Phase # "idle" \/ stop_soon, UNCHANGED <<run, result, stop_soon>>, Phase' = Phase,
         \/ trace' = trace \cup {run} /\ (Crashed' <=> Crashed)
         \/ Crashed' /\ UNCHANGED trace
  PROVE  TR!TargetRuns
BY DEF TR!TargetRuns, Phase, Crashed, CrashIn

\* A run that ends with a result.
LEMMA MapsToEnd ==
  ASSUME Phase = "busy", Phase' = "idle",
         result' = "TMOUT" \/ result' = (IF Crashed THEN "CRASH" ELSE "OK"),
         UNCHANGED <<run, trace, stop_soon>>, Crashed' <=> Crashed
  PROVE  TR!End
BY DEF TR!End, Phase, Crashed, CrashIn

\* A run that cannot be made, or the end.
LEMMA MapsToFail ==
  ASSUME Phase # "over", Phase' = "over" \/ (stop_soon /\ Phase' = "idle"),
         result' \in {result, "none"}, trace' \in {trace, {}},
         UNCHANGED <<run, stop_soon>>, Crashed' <=> Crashed
  PROVE  TR!Fail
BY DEF TR!Fail, Phase, Crashed, CrashIn

\* The stop signal.
LEMMA MapsToStop ==
  ASSUME stop_soon' = TRUE, UNCHANGED <<run, result, trace>>, Phase' = Phase, Crashed' <=> Crashed
  PROVE  TR!Stop
BY DEF TR!Stop, Phase, Crashed, CrashIn

\* Where a process runs, a run is under way, or nobody looks any more.
LEMMA RunningBusy ==
  ASSUME IInv, NEW p \in Pids, proc[p].state = "running"
  PROVE  (Phase # "idle" \/ stop_soon) /\ proc[p].run = run
<1>1. proc[p].run = run
  BY DEF IInv, Children
<1>2. ~NoneRuns
  BY DEF NoneRuns
<1>3. fpc \notin Setup
  BY DEF IInv, Fresh, NoProcess
<1>4. fpc = "idle" => stop_soon
  BY <1>2 DEF IInv, Rest
<1>5. fpc \in Setup \cup {"idle"} \cup Busy \cup Ending
  BY DEF IInv, Types
<1>6. fpc \notin {"idle"} \cup Setup => Phase # "idle"
  BY <1>5, Phases DEF Busy
<1> QED BY <1>1, <1>3, <1>4, <1>6

\* A request begins a run, unless the server is gone.
LEMMA RunTargetMaps ==
  ASSUME IInv, RunTarget
  PROVE  [TR!Next]_TR!vars
<1>a. fpc = "idle" /\ trace' = {} /\ UNCHANGED <<stop_soon, proc>>
  BY DEF RunTarget
<1>b. Phase = "idle"
  BY <1>a, Phases
<1>1. CASE ~Gone
  <2>1. run' = run + 1 /\ fpc' = "pid" /\ result' = "none"
    BY <1>1 DEF RunTarget
  <2>2. ~Crashed'
    <3>1. \A p \in Pids : proc[p].run \in Int /\ proc[p].run <= run
      BY ForkServerAssumption DEF IInv, Procs, Process, RunNo, Children
    <3>2. run \in Int
      BY ForkServerAssumption DEF IInv, Types, RunNo
    <3> QED BY <1>a, <2>1, <3>1, <3>2 DEF Crashed, CrashIn
  <2>3. Phase' = "busy"
    BY <2>1 DEF Phase, Ending
  <2>4. TR!Begin
    BY <1>a, <1>b, <2>1, <2>2, <2>3, MapsToBegin
  <2> QED BY <2>4 DEF TR!Next
<1>2. CASE Gone
  <2>1. fpc' = (IF stop_soon THEN "idle" ELSE "fatal") /\ result' = "none" /\ run' = run
    BY <1>2 DEF RunTarget, Failed
  <2>2. Crashed' <=> Crashed
    BY <1>a, <2>1, SameCrash
  <2>3. Phase' = (IF stop_soon THEN "idle" ELSE "over")
    BY <2>1 DEF Phase, Ending
  <2>4. TR!Fail
    BY <1>a, <1>b, <2>1, <2>2, <2>3, MapsToFail
  <2> QED BY <2>4 DEF TR!Next
<1> QED BY <1>1, <1>2

\* The end of a run without a result.
LEMMA FailedMaps ==
  ASSUME Phase = "busy", Failed, UNCHANGED <<run, stop_soon, proc, trace>>
  PROVE  [TR!Next]_TR!vars
<1>1. Crashed' <=> Crashed
  BY SameCrash
<1>2. Phase' = (IF stop_soon THEN "idle" ELSE "over") /\ result' = "none"
  BY DEF Failed, Phase, Ending
<1>3. TR!Fail
  BY <1>1, <1>2, MapsToFail
<1> QED BY <1>3 DEF TR!Next

\* The end of a run with a status: what is returned is the truth about it.
LEMMA FinishMaps ==
  ASSUME NEW s, Phase = "busy", Finish(s), UNCHANGED <<run, stop_soon, proc, trace>>,
         last_run_timed_out \/ (s.cause \in {"crash", "signal"} <=> Crashed)
  PROVE  [TR!Next]_TR!vars
<1>1. Crashed' <=> Crashed
  BY SameCrash
<1>2. Phase' = "idle"
  BY DEF Finish, Phase, Ending
<1>3. result' = "TMOUT" \/ result' = (IF Crashed THEN "CRASH" ELSE "OK")
  BY DEF Finish
<1>4. TR!End
  BY <1>1, <1>2, <1>3, MapsToEnd
<1> QED BY <1>4 DEF TR!Next

\* The reads of a pid and of a status.
LEMMA ReadsMap ==
  ASSUME IInv, ReadPid \/ ReadStatus \/ ReadLate
  PROVE  [TR!Next]_TR!vars
<1>a. UNCHANGED <<run, stop_soon, proc, trace>> /\ fpc \in {"pid", "wait", "late"}
  BY DEF ReadPid, ReadStatus, ReadLate
<1>b. Phase = "busy"
  BY <1>a, Phases
<1>c. Crashed' <=> Crashed
  BY <1>a, SameCrash
<1>1. CASE ReadPid
  <2>1. CASE Failed
    BY <1>a, <1>b, <2>1, FailedMaps
  <2>2. CASE fpc' = "wait" /\ UNCHANGED result
    <3>1. Phase' = Phase
      BY <1>b, <2>2 DEF Phase, Ending
    <3> QED BY <1>a, <1>c, <2>2, <3>1, MapsToStutter
  <2> QED BY <1>1, <2>1, <2>2 DEF ReadPid
<1>2. CASE ReadStatus
  <2>1. CASE Failed
    BY <1>a, <1>b, <2>1, FailedMaps
  <2>2. CASE st # <<>> /\ ~stop_soon /\ Finish(Head(st).status)
    <3>1. fpc = "wait" /\ IsStatus(st) /\ Head(st).status = StatusOf(st)
      BY <1>2, <2>2, StatusPipe DEF ReadStatus, IInv, Dialogue
    <3>2. StatusOf(st).cause = "crash" <=> Crashed
      BY <2>2, <3>1 DEF IInv, Statuses, Void, OwnStatus, Crashed, CrashIn
    <3>3. StatusOf(st).cause # "signal"
      BY <2>2, <3>1 DEF IInv, Innocent
    <3> QED BY <1>a, <1>b, <2>2, <3>1, <3>2, <3>3, FinishMaps
  <2> QED BY <1>2, <2>1, <2>2 DEF ReadStatus
<1>3. CASE ReadLate
  <2>1. last_run_timed_out
    BY <1>3 DEF ReadLate, IInv, Innocent
  <2>2. Failed \/ Finish(Head(st).status)
    BY <1>3 DEF ReadLate, LateStatus
  <2> QED BY <1>a, <1>b, <2>1, <2>2, FailedMaps, FinishMaps
<1> QED BY <1>1, <1>2, <1>3

\* Signals from the fuzzer: a child killed has not crashed.
LEMMA SignalsMap ==
  ASSUME IInv, KillChild \/ FuzzerExit \/ JobTerminate
  PROVE  [TR!Next]_TR!vars
<1>a. run' = run /\ result' = result /\ trace' = trace
  BY DEF KillChild, FuzzerExit, JobTerminate, HandleStopSig
<1>b. Children /\ Procs /\ child_pid \in {0} \cup Pids
  BY DEF IInv, Types
<1>c. Signal(child_pid, child_kill_signal)
  BY DEF KillChild, FuzzerExit, JobTerminate, HandleStopSig
<1>d. \A o \in Pids : Quieted(proc[o], proc'[o])
  BY <1>b, <1>c, SignalIs
<1>e. Crashed' <=> Crashed
  <2>1. \A o \in Pids : proc'[o].run = proc[o].run /\ (proc'[o].cause = "crash" <=> proc[o].cause = "crash")
    BY <1>b, <1>d, QuietedIs
  <2> QED BY <1>a, <2>1, SameCrash DEF CrashIn
<1>1. CASE KillChild
  <2>1. fpc = "kill" /\ fpc' = "late" /\ UNCHANGED stop_soon
    BY <1>1 DEF KillChild
  <2>2. Phase' = Phase
    BY <2>1 DEF Phase, Ending
  <2> QED BY <1>a, <1>e, <2>1, <2>2, MapsToStutter
<1>2. CASE FuzzerExit
  <2>1. fpc = "idle" /\ fpc' = "exit" /\ UNCHANGED stop_soon
    BY <1>2 DEF FuzzerExit
  <2>2. Phase = "idle" /\ Phase' = "over"
    BY <2>1 DEF Phase, Ending
  <2>3. TR!Fail
    BY <1>a, <1>e, <2>1, <2>2, MapsToFail
  <2> QED BY <2>3 DEF TR!Next
<1>3. CASE JobTerminate
  <2>1. stop_soon' = TRUE /\ fpc' = fpc
    BY <1>3 DEF JobTerminate, HandleStopSig
  <2>2. Phase' = Phase
    BY <2>1 DEF Phase
  <2>3. TR!Stop
    BY <1>a, <1>e, <2>1, <2>2, MapsToStop
  <2> QED BY <2>3 DEF TR!Next
<1> QED BY <1>1, <1>2, <1>3

\* The server's steps are not seen.
LEMMA ServerMaps ==
  ASSUME IInv, Server \/ SrvDies \/ SrvHello \/ SrvHandshake
  PROVE  UNCHANGED TR!vars
<1>a. UNCHANGED <<fpc, run, result, trace, stop_soon>>
  BY DEF Server, SrvDies, SrvHello, SrvHandshake, SrvOptions, SrvDict, SrvRead, SrvWriteOff, SrvFork,
         SrvForked, SrvContinue, SrvWritePid, SrvWait, SrvWriteStatus, SrvAtExit, SrvPipeClosed,
         fuzzerVars
<1>b. Procs /\ srv_child \in {0} \cup Pids /\ srv_run \in RunNo
  BY DEF IInv, Types
<1>c. \A p \in Pids : CrashIn(proc'[p], run) <=> CrashIn(proc[p], run)
  <2>1. CASE UNCHANGED proc
    BY <2>1
  <2>2. CASE SrvWriteOff \/ (SrvWait /\ proc' = [proc EXCEPT ![srv_child].state = "gone"])
    <3>1. srv_child \in Pids
      BY <1>b, <2>2 DEF SrvWriteOff, WriteOff, SrvWait, IInv, Rest
    <3>2. proc' = [proc EXCEPT ![srv_child].state = "gone"]
      BY <2>2 DEF SrvWriteOff
    <3> QED BY <1>b, <3>1, <3>2, ReapedIs DEF CrashIn, Reaped
  <2>3. CASE SrvAtExit
    <3>1. \A o \in Pids : IF o = srv_child THEN Reaped(proc[o], proc'[o]) ELSE proc'[o] = proc[o]
      BY <1>b, <2>3, AtExitIs DEF SrvAtExit
    <3> QED BY <3>1 DEF CrashIn, Reaped
  <2>4. CASE SrvFork
    <3> DEFINE c == [NoProcess EXCEPT !.state = "running", !.run = srv_run, !.left = max_cnt]
    <3>1. PICK p \in Pids : proc[p] = NoProcess /\ proc' = [proc EXCEPT ![p] = c]
      BY <2>4 DEF SrvFork
    <3>2. c.cause = "none" /\ NoProcess.cause = "none"
      BY DEF NoProcess
    <3> HIDE DEF c
    <3>3. proc'[p] = c /\ \A o \in Pids : o # p => proc'[o] = proc[o]
      BY <1>b, <3>1 DEF Procs
    <3> QED BY <3>1, <3>2, <3>3 DEF CrashIn
  <2>5. CASE SrvContinue
    <3> DEFINE c == Continued(proc[srv_child], srv_run)
    <3>1. srv_child \in Pids
      BY <1>b, <2>5 DEF SrvContinue, IInv, Rest
    <3>2. proc[srv_child] \in Process
      BY <1>b, <3>1 DEF Procs
    <3>3. /\ proc[srv_child].state # "stopped" => c = proc[srv_child]
          /\ proc[srv_child].state = "stopped" => c.cause \in {proc[srv_child].cause, "signal"}
      BY <1>b, <3>2, ContinuedIs
    <3>4. proc' = [proc EXCEPT ![srv_child] = c]
      BY <2>5 DEF SrvContinue
    <3> HIDE DEF c
    <3>5. proc[srv_child].state = "stopped" => proc[srv_child].cause = "none"
      BY <3>1 DEF IInv, Children
    <3>6. proc'[srv_child] = c /\ \A o \in Pids : o # srv_child => proc'[o] = proc[o]
      BY <1>b, <3>1, <3>4 DEF Procs
    <3> QED BY <3>3, <3>5, <3>6 DEF CrashIn
  <2> QED BY <2>1, <2>2, <2>3, <2>4, <2>5
      DEF Server, SrvDies, SrvHello, SrvHandshake, SrvOptions, SrvDict, SrvRead, SrvForked,
          SrvWritePid, SrvWait, SrvWriteStatus, SrvPipeClosed
<1>d. Crashed' <=> Crashed
  BY <1>a, <1>c, SameCrash
<1>e. Phase' = Phase
  BY <1>a DEF Phase
<1> QED BY <1>a, <1>d, <1>e, MapsToStutter

\* The target's steps: they are taken in its own run.
LEMMA ChildMaps ==
  ASSUME IInv, NEW p \in Pids, ChildHits(p) \/ ChildLoops(p) \/ ChildEnds(p)
  PROVE  [TR!Next]_TR!vars
<1>a. proc[p].state = "running" /\ UNCHANGED <<fpc, run, result, stop_soon>>
  BY DEF ChildHits, ChildLoops, ChildEnds, fuzzerVars
<1>b. (Phase # "idle" \/ stop_soon) /\ proc[p].run = run /\ Phase' = Phase
  BY <1>a, RunningBusy DEF Phase
<1>c. Procs /\ proc[p] \in Process /\ proc[p].cause = "none"
  BY <1>a DEF IInv, Procs, Children
<1>1. CASE ChildHits(p)
  <2>1. trace' = trace \cup {run} /\ UNCHANGED proc
    BY <1>1, <1>b DEF ChildHits
  <2>2. Crashed' <=> Crashed
    BY <1>a, <2>1, SameCrash
  <2>3. TR!TargetRuns
    BY <1>a, <1>b, <2>1, <2>2, MapsToTargetRuns
  <2> QED BY <2>3 DEF TR!Next
<1>2. CASE ChildLoops(p)
  <2>1. UNCHANGED trace /\ \A o \in Pids : proc'[o].cause = proc[o].cause /\ proc'[o].run = proc[o].run
    BY <1>2, <1>c DEF ChildLoops, Procs, Process
  <2>2. Crashed' <=> Crashed
    BY <1>a, <2>1, SameCrash DEF CrashIn
  <2> QED BY <1>a, <1>b, <2>1, <2>2, MapsToStutter
<1>3. CASE ChildEnds(p)
  <2>1. PICK x \in {"exit", "crash"} : proc' = [proc EXCEPT ![p] = Die(proc[p], x)]
    BY <1>3 DEF ChildEnds
  <2>2. trace' = trace
    BY <1>3 DEF ChildEnds
  <2>3. Die(proc[p], x).cause = x /\ Die(proc[p], x).run = run
    <3>1. x \in {"exit", "crash", "signal"}
      BY <2>1
    <3> QED BY <1>b, <1>c, <3>1, DieIs
  <2>4. proc'[p].cause = x /\ proc'[p].run = run /\ \A o \in Pids : o # p => proc'[o] = proc[o]
    BY <1>c, <2>1, <2>3 DEF Procs
  <2>5. CASE x = "exit"
    <3>1. \A o \in Pids : CrashIn(proc'[o], run) <=> CrashIn(proc[o], run)
      BY <1>c, <2>4, <2>5 DEF CrashIn
    <3>2. Crashed' <=> Crashed
      BY <1>a, <3>1, SameCrash
    <3> QED BY <1>a, <1>b, <2>2, <3>2, MapsToStutter
  <2>6. CASE x = "crash"
    <3>1. Crashed'
      BY <1>a, <2>4, <2>6 DEF Crashed, CrashIn
    <3>2. TR!TargetRuns
      BY <1>a, <1>b, <2>2, <3>1, MapsToTargetRuns
    <3> QED BY <3>2 DEF TR!Next
  <2> QED BY <2>5, <2>6
<1> QED BY <1>1, <1>2, <1>3

\* The handshake, the exit handler and the other steps of the fuzzer and the
\* worker.
LEMMA OthersMap ==
  ASSUME IInv, Handshake \/ Timeout \/ HandlerReturns \/ FuzzerAtExit \/ JobKill \/ JobReturns
  PROVE  [TR!Next]_TR!vars
<1>a. UNCHANGED <<run, result, trace, stop_soon>>
  BY DEF Handshake, ReadHello, InitTimeout, SendReply, ReadDict, Started, Restart, Timeout,
         HandlerReturns, FuzzerAtExit, JobKill, JobReturns, fuzzerRest, vars, fuzzerVars
<1>b. Procs
  BY DEF IInv
<1>c. \A p \in Pids : CrashIn(proc'[p], run) <=> CrashIn(proc[p], run)
  <2>1. CASE UNCHANGED proc
    BY <2>1
  <2>2. CASE Restart
    <3>1. srv_child = 0
      BY <2>2 DEF Restart, IInv, Fresh, Setup
    <3> QED BY <2>2, <3>1, <2>1 DEF Restart, AtExit
  <2>3. CASE FuzzerAtExit
    <3>1. Children
      BY DEF IInv
    <3>2. UNCHANGED proc \/ proc' = KillGroup
      BY <2>3 DEF FuzzerAtExit
    <3>3. CASE proc' = KillGroup
      <4>1. \A p \in Pids : Quieted(proc[p], proc'[p])
        BY <1>b, <3>3, KillGroupIs
      <4> QED BY <3>1, <4>1, QuietedIs DEF CrashIn
    <3> QED BY <2>1, <3>2, <3>3
  <2> QED BY <2>1, <2>2, <2>3
      DEF Handshake, ReadHello, InitTimeout, SendReply, ReadDict, Started, Timeout,
          HandlerReturns, JobKill, JobReturns, vars
<1>d. Crashed' <=> Crashed
  BY <1>a, <1>c, SameCrash
<1>1. CASE Phase' = Phase
  BY <1>1, <1>a, <1>d, MapsToStutter
<1>2. CASE Phase # "over" /\ Phase' = "over"
  <2>1. TR!Fail
    BY <1>2, <1>a, <1>d, MapsToFail
  <2> QED BY <2>1 DEF TR!Next
<1>3. Phase' = Phase \/ (Phase # "over" /\ Phase' = "over")
  <2>1. CASE Handshake
    <3>1. fpc \in Setup /\ fpc' \in Setup \cup {"idle", "fatal"}
      BY <2>1 DEF Handshake, ReadHello, InitTimeout, SendReply, ReadDict, Started, Restart, Setup
    <3> QED BY <3>1 DEF Phase, Setup, Ending
  <2>2. CASE Timeout
    BY <2>2 DEF Timeout, Phase, Ending
  <2>3. CASE HandlerReturns \/ JobReturns
    BY <2>3 DEF HandlerReturns, JobReturns, vars, fuzzerVars, Phase
  <2>4. CASE FuzzerAtExit
    BY <2>4 DEF FuzzerAtExit, Phase, Ending
  <2>5. CASE JobKill
    BY <2>5 DEF JobKill, Phase, Ending
  <2> QED BY <2>1, <2>2, <2>3, <2>4, <2>5
<1> QED BY <1>1, <1>2, <1>3

\* The session implements TargetRun: one run at a time, whose result is true of
\* that run and of no other, and a map that only this run has written.
THEOREM ImplementsTargetRun ==
  ASSUME add_extra_func
  PROVE  SessionSpec => Implements
<1>1. SessionInit => TR!Init
  <2> SUFFICES ASSUME SessionInit PROVE TR!Init
    OBVIOUS
  <2>1. fpc = "start" /\ run = 0 /\ result = "none" /\ trace = {} /\ stop_soon = FALSE
    BY DEF SessionInit, NoRuns
  <2>2. ~Crashed
    BY DEF SessionInit, NoRuns, NoProcess, Crashed, CrashIn
  <2>3. Phase = "idle"
    BY <2>1 DEF Phase, Ending
  <2> QED BY <2>1, <2>2, <2>3 DEF TR!Init, Phase, Crashed, CrashIn
<1>2. IInv /\ [SessionNext]_<<vars, sessionVars>> => [TR!Next]_TR!vars
  <2> SUFFICES ASSUME IInv, [SessionNext]_<<vars, sessionVars>> PROVE [TR!Next]_TR!vars
    OBVIOUS
  <2>1. CASE Handshake \/ FuzzerAtExit \/ JobKill \/ JobReturns
    BY <2>1, OthersMap
  <2>2. CASE SrvHello \/ SrvHandshake \/ Server \/ SrvDies
    BY <2>2, ServerMaps
  <2>3. CASE JobTerminate
    BY <2>3, SignalsMap
  <2>4. CASE Fuzzer
    BY <2>4, RunTargetMaps, ReadsMap, SignalsMap, OthersMap DEF Fuzzer
  <2>5. CASE Child
    BY <2>5, ChildMaps DEF Child
  <2>6. CASE UNCHANGED <<vars, sessionVars>>
    <3>1. UNCHANGED <<fpc, run, result, trace, stop_soon, proc>>
      BY <2>6 DEF vars, fuzzerVars
    <3>2. (Crashed' <=> Crashed) /\ Phase' = Phase
      BY <3>1, SameCrash DEF Phase
    <3> QED BY <3>1, <3>2, MapsToStutter
  <2> QED BY <2>1, <2>2, <2>3, <2>4, <2>5, <2>6 DEF SessionNext, Job, Running
<1> QED BY <1>1, <1>2, Invariance, PTL DEF SessionSpec, Implements, TR!Spec

=============================================================================
