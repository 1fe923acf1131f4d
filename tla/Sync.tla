-------------------------------- MODULE Sync --------------------------------
(***************************************************************************)
(* Several fuzzers with one sync directory: sync_fuzzers, the election of  *)
(* a temporary main node, and what the fuzzers it reads from do to their   *)
(* queue/ meanwhile: save, trim, stop, die, start again with "-i -" or     *)
(* afresh.                                                                 *)
(*                                                                         *)
(* queue[f] is the directory queue/ of f: position i + 1 holds the file    *)
(* that begins with "id:<i>".  A file is a test case and its state on      *)
(* disk; two files have the same name when id and test case are the same.  *)
(***************************************************************************)
EXTENDS Integers, Sequences, FiniteSets, Functions

CONSTANTS
  Fuzzers,
  Roles,       \* Roles[f]: what f may be started as, of {"-M", "-S"}
  MaxFinds,    \* bound: test cases found by fuzzing, all fuzzers together
  MaxTrims,    \* bound: files trimmed, all fuzzers together
  MaxFiles,    \* bound: files in a queue
  MaxFaults    \* bound: stop signals and kills, all fuzzers together; kills
               \* in the middle of a resume are not counted

ASSUME FuzzersAssumption ==
  IsFiniteSet(Fuzzers) /\ Roles \in [Fuzzers -> SUBSET {"-M", "-S"}]
ASSUME BoundsAssumption ==
  /\ {MaxFinds, MaxTrims, MaxFaults} \subseteq Nat
  /\ MaxFiles \in Nat \ {0}         \* a queue holds at least the seed

VARIABLES
  queue,     \* queue[f]: the files in f's queue/
  resume,    \* resume[f]: the files in f's _resume/
  mark,      \* mark[f]: f's directory holds the file is_main_node
  synced,    \* synced[f][g]: the number in f's file .synced/g
  session,   \* session[f]: "none" (no output directory), or how f was started
  proc,      \* proc[f]: the process: its flags, and the locals of sync_fuzzers
  passed,    \* passed[f]: test cases of others that f has run and judged, or
             \* came by while their file was missing or empty (ghost)
  finds, trims, faults

files == <<queue, resume, mark, synced>>
bounds == <<finds, trims, faults>>
vars == <<files, session, proc, passed, bounds>>

Seed == 0                       \* the one input read_the_testcase reads
Case == 0..MaxFinds
State == {"absent", "empty", "full"}
File == [case : Case, st : State]
Full(c) == [case |-> c, st |-> "full"]

\* Names, as ids and test cases, of the files in dir with a state in these.
Names(dir, these) ==
  {[id |-> i - 1, case |-> dir[i].case] : i \in {j \in DOMAIN dir : dir[j].st \in these}}

Idle == [pc |-> "fuzz", is_secondary_node |-> FALSE, is_main_node |-> FALSE, stop |-> FALSE, file |-> 0,
         input |-> {}, in_place_resume |-> FALSE,
         todo |-> {}, from |-> {}, found |-> FALSE, list |-> {}, next |-> 0]
Down == [Idle EXCEPT !.pc = "down"]

Up(f) == proc[f].pc # "down"
Secondary(f) == proc[f].is_secondary_node
\* f is at pc, and not in the middle of creating a file.
At(f, pc) == proc[f].pc = pc /\ proc[f].file = 0

Init ==
  /\ queue = [f \in Fuzzers |-> <<>>] /\ resume = [f \in Fuzzers |-> <<>>]
  /\ mark = [f \in Fuzzers |-> FALSE]
  /\ synced = [f \in Fuzzers |-> [g \in Fuzzers |-> 0]]
  /\ session = [f \in Fuzzers |-> "none"]
  /\ proc = [f \in Fuzzers |-> Down]
  /\ passed = [f \in Fuzzers |-> {}]
  /\ finds = 0 /\ trims = 0 /\ faults = 0

----------------------------------------------------------------------------
(* Start: setup_dirs_fds, handle_existing_out_dir, read_testcases or       *)
(* read_the_testcase, pivot_inputs.                                        *)

\* The files read_testcases loads from a directory: it skips empty ones.
Loaded(dir) == Names(dir, {"full"})

Starting(f, role, input, in_place) ==
  /\ proc' = [proc EXCEPT ![f] = [Idle EXCEPT !.pc = "pivot",
                                              !.is_main_node = role = "-M",
                                              !.is_secondary_node = role = "-S",
                                              !.input = input, !.in_place_resume = in_place]]
  /\ mark' = [mark EXCEPT ![f] = @ \/ role = "-M"]
  /\ queue' = [queue EXCEPT ![f] = <<>>]
  /\ UNCHANGED <<passed, bounds>>

\* A start with an input directory: an old session, .synced/ included, is
\* deleted, the file is_main_node of an old session is not.
StartFresh(f, role) ==
  /\ ~Up(f)
  /\ session' = [session EXCEPT ![f] = IF @ = "none" THEN "first" ELSE "again"]
  /\ synced' = [synced EXCEPT ![f] = [g \in Fuzzers |-> 0]]
  /\ Starting(f, role, Loaded(<<Full(Seed)>>), FALSE)
  /\ UNCHANGED resume

\* MUTANT of ResumeDir: the rename replaces an old _resume/.
ResumeDir_Queue(f) == queue[f]

\* queue/ becomes _resume/, unless an earlier resume was cut short and left one.
ResumeDir(f) == IF resume[f] = <<>> THEN queue[f] ELSE resume[f]

\* A start with "-i -".
StartResume(f, role) ==
  LET dir == ResumeDir(f)
  IN  /\ ~Up(f) /\ session[f] # "none"
      /\ Loaded(dir) # {}
      /\ session' = [session EXCEPT ![f] = IF @ = "first" THEN "resumed" ELSE @]
      /\ resume' = [resume EXCEPT ![f] = dir]
      /\ Starting(f, role, Loaded(dir), TRUE)
      /\ UNCHANGED synced

\* pivot_inputs links one input into queue/, under the next id.  The inputs
\* are in the order read_testcases has put them: it walks the sorted names from
\* the last to the first.
Pivot(f) ==
  \E x \in proc[f].input :
    LET rest == proc[f].input \ {x}
    IN  /\ At(f, "pivot") /\ \A y \in rest : y.id < x.id
        /\ queue' = [queue EXCEPT ![f] = Append(@, Full(x.case))]
        /\ proc' = [proc EXCEPT ![f].input = rest,
                                ![f].pc = IF rest = {} THEN "fuzz" ELSE "pivot",
                                ![f].in_place_resume = @ /\ rest # {}]
        /\ resume' = IF rest = {} /\ proc[f].in_place_resume
                     THEN [resume EXCEPT ![f] = <<>>] ELSE resume
        /\ UNCHANGED <<mark, synced, session, passed, bounds>>

----------------------------------------------------------------------------
(* What a fuzzer does to its own queue/.                                   *)

\* save_if_interesting creates the file of a new entry, still empty.
Create(f, c, p) ==
  /\ Len(queue[f]) < MaxFiles
  /\ queue' = [queue EXCEPT ![f] = Append(@, [case |-> c, st |-> "empty"])]
  /\ proc' = [proc EXCEPT ![f] = [p EXCEPT !.file = Len(queue[f]) + 1]]

Find(f) ==
  /\ At(f, "fuzz") /\ ~proc[f].stop /\ finds < MaxFinds
  /\ finds' = finds + 1
  /\ Create(f, finds', proc[f])
  /\ UNCHANGED <<resume, mark, synced, session, passed, trims, faults>>

\* trim_case removes the file of an entry, to write it anew; -M does not trim.
TrimUnlink(f, i) ==
  /\ At(f, "fuzz") /\ ~proc[f].stop /\ Secondary(f) /\ trims < MaxTrims
  /\ i \in DOMAIN queue[f]
  /\ trims' = trims + 1
  /\ queue' = [queue EXCEPT ![f][i].st = "absent"]
  /\ proc' = [proc EXCEPT ![f].file = i]
  /\ UNCHANGED <<resume, mark, synced, session, passed, finds, faults>>

\* The next step of writing a file: create it, or fill it.
WriteFile(f) ==
  LET i == proc[f].file
      creates == queue[f][i].st = "absent"
  IN  /\ Up(f) /\ i # 0
      /\ queue' = [queue EXCEPT ![f][i].st = IF creates THEN "empty" ELSE "full"]
      /\ proc' = [proc EXCEPT ![f].file = IF creates THEN i ELSE 0]
      /\ UNCHANGED <<resume, mark, synced, session, passed, bounds>>

----------------------------------------------------------------------------
(* sync_fuzzers                                                            *)

\* main calls it when a cycle is over or the time has come.
SyncBegin(f) ==
  /\ At(f, "fuzz") /\ ~proc[f].stop
  /\ proc' = [proc EXCEPT ![f].pc = "scan", ![f].found = FALSE,
                          ![f].todo = {g \in Fuzzers \ {f} : session[g] # "none"}]
  /\ UNCHANGED <<files, session, passed, bounds>>

\* MUTANT of NewFiles: starts after the counter instead of at it.
NewFiles_After(dir, next) == {x \in Names(dir, {"empty", "full"}) : x.id > next}

\* The names from "id:<next>" on in a listing of dir; none if there is no
\* such file.
NewFiles(dir, next) ==
  LET names == {x \in Names(dir, {"empty", "full"}) : x.id >= next}
  IN  {x \in names : \E y \in names : y.id = next}

\* Between two directories; found tells whether one was synced from.
Scanning(p, found) ==
  [p EXCEPT !.pc = "scan", !.found = found, !.from = {}, !.list = {}, !.next = 0]

\* List the queue/ of g and read .synced/g.
Listing(f, g, p) ==
  LET list == NewFiles(queue[g], synced[f][g])
      gone == {x.case : x \in {y \in Range(queue[g]) : y.st = "absent"}}
  IN  /\ proc' = [proc EXCEPT ![f] =
                    IF list = {} THEN Scanning(p, TRUE)
                    ELSE [p EXCEPT !.pc = "read", !.from = {g}, !.list = list,
                                   !.next = synced[f][g]]]
      /\ passed' = [passed EXCEPT ![f] = @ \cup gone]

\* The next directory.  A secondary skips g unless g is marked as main node;
\* a temporary main node that meets another one is no longer main.
SyncVisit(f, g) ==
  LET p == [proc[f] EXCEPT !.todo = @ \ {g}]
  IN  /\ At(f, "scan") /\ g \in proc[f].todo
      /\ \/ /\ Secondary(f) /\ p.is_main_node /\ mark[g]
            /\ proc' = [proc EXCEPT ![f] = [p EXCEPT !.is_main_node = FALSE, !.pc = "demote",
                                                     !.from = {g}]]
            /\ UNCHANGED passed
         \/ /\ Secondary(f) /\ ~p.is_main_node /\ ~mark[g]
            /\ proc' = [proc EXCEPT ![f] = p]
            /\ UNCHANGED passed
         \/ /\ Secondary(f) => p.is_main_node # mark[g]
            /\ Listing(f, g, p)
      /\ UNCHANGED <<files, session, bounds>>

\* MUTANT of Unmarked: the mark is left behind.
Unmarked_Not(f) == mark

Unmarked(f) == [mark EXCEPT ![f] = FALSE]

SyncDemote(f) ==
  /\ At(f, "demote")
  /\ mark' = Unmarked(f)
  /\ \E g \in proc[f].from : Listing(f, g, proc[f])
  /\ UNCHANGED <<queue, resume, synced, session, bounds>>

\* Open the next file of the listing, in the order of the names, run it, and
\* perhaps save it.  Stopped by a signal, the scan of this directory ends without
\* its counter.
SyncFile(f) ==
  \E x \in proc[f].list, g \in proc[f].from :
    LET p == [proc[f] EXCEPT !.list = @ \ {x}, !.next = @ + 1]
        there == x.id + 1 \in DOMAIN queue[g] /\ queue[g][x.id + 1] = Full(x.case)
    IN  /\ At(f, "read") /\ \A y \in proc[f].list : x.id <= y.id
        /\ \/ /\ ~there
              /\ proc' = [proc EXCEPT ![f] = p]
              /\ passed' = [passed EXCEPT ![f] = @ \cup {x.case}]
              /\ UNCHANGED queue
           \/ /\ there /\ proc[f].stop
              /\ proc' = [proc EXCEPT ![f] = Scanning(p, TRUE)]
              /\ UNCHANGED <<queue, passed>>
           \/ /\ there /\ ~proc[f].stop
              /\ passed' = [passed EXCEPT ![f] = @ \cup {x.case}]
              /\ \/ proc' = [proc EXCEPT ![f] = p] /\ UNCHANGED queue
                 \/ /\ \A y \in Range(queue[f]) : y.case # x.case
                    /\ Create(f, x.case, p)
        /\ UNCHANGED <<resume, mark, synced, session, bounds>>

\* MUTANT of Counted: the counter is one too high.
Counted_Next(p) == p.next + 1

\* What is written to .synced/: one for each name listed, run or not.
Counted(p) == p.next

SyncCounter(f) ==
  /\ At(f, "read") /\ proc[f].list = {}
  /\ \E g \in proc[f].from : synced' = [synced EXCEPT ![f][g] = Counted(proc[f])]
  /\ proc' = [proc EXCEPT ![f] = Scanning(@, TRUE)]
  /\ UNCHANGED <<queue, resume, mark, session, passed, bounds>>

\* MUTANTS of Elects: a node that did find a main node is elected as well; a
\* node is elected only when it is alone.
Elects_Always(f) == Secondary(f)
Elects_Alone(f) == Secondary(f) /\ \A g \in Fuzzers \ {f} : session[g] = "none"

\* A secondary that found others, but none to sync from, becomes main.
Elects(f) ==
  /\ Secondary(f) /\ ~proc[f].found
  /\ \E g \in Fuzzers \ {f} : session[g] # "none"

SyncEnd(f) ==
  /\ At(f, "scan") /\ proc[f].todo = {}
  /\ mark' = [mark EXCEPT ![f] = @ \/ Elects(f)]
  /\ proc' = [proc EXCEPT ![f] = [Idle EXCEPT !.is_main_node = proc[f].is_main_node \/ Elects(f),
                                              !.is_secondary_node = Secondary(f),
                                              !.stop = proc[f].stop]]
  /\ UNCHANGED <<queue, resume, synced, session, passed, bounds>>

----------------------------------------------------------------------------
(* Stop signals and kills                                                  *)

StopSignal(f) ==
  /\ Up(f) /\ ~proc[f].stop /\ faults < MaxFaults
  /\ faults' = faults + 1
  /\ proc' = [proc EXCEPT ![f].stop = TRUE]
  /\ UNCHANGED <<files, session, passed, finds, trims>>

\* main leaves its loop and, as main node, removes the mark.
Exit(f) ==
  /\ At(f, "fuzz") /\ proc[f].stop
  /\ mark' = [mark EXCEPT ![f] = @ /\ ~proc[f].is_main_node]
  /\ proc' = [proc EXCEPT ![f] = Down]
  /\ UNCHANGED <<queue, resume, synced, session, passed, bounds>>

\* SIGKILL, or power: whatever is on disk stays there.
Kill(f) ==
  /\ Up(f)
  /\ \/ proc[f].in_place_resume /\ UNCHANGED faults
     \/ ~proc[f].in_place_resume /\ faults < MaxFaults /\ faults' = faults + 1
  /\ proc' = [proc EXCEPT ![f] = Down]
  /\ UNCHANGED <<files, session, passed, finds, trims>>

\* What a running fuzzer does sooner or later.
Step(f) ==
  \/ Pivot(f) \/ WriteFile(f)
  \/ SyncBegin(f) \/ SyncDemote(f) \/ SyncFile(f) \/ SyncCounter(f) \/ SyncEnd(f)
  \/ \E g \in Fuzzers : SyncVisit(f, g)
  \/ Exit(f)

Next ==
  \E f \in Fuzzers :
    \/ Step(f)
    \/ \E role \in Roles[f] : StartFresh(f, role) \/ StartResume(f, role)
    \/ Find(f) \/ StopSignal(f) \/ Kill(f)
    \/ \E i \in 1..MaxFiles : TrimUnlink(f, i)

\* A running fuzzer goes on: every execution ends, by itself or by its
\* timeout, and main comes back to sync_fuzzers.
Fairness == \A f \in Fuzzers : WF_vars(Step(f))

Spec == Init /\ [][Next]_vars /\ Fairness

----------------------------------------------------------------------------
(* Properties                                                              *)

\* Type invariant of the directories and the processes.
TypeOK ==
  /\ queue \in [Fuzzers -> Seq(File)] /\ resume \in [Fuzzers -> Seq(File)]
  /\ \A f \in Fuzzers : Len(queue[f]) <= MaxFiles
  /\ mark \in [Fuzzers -> BOOLEAN] /\ synced \in [Fuzzers -> [Fuzzers -> 0..MaxFiles]]
  /\ session \in [Fuzzers -> {"none", "first", "resumed", "again"}]
  /\ \A f \in Fuzzers :
       /\ proc[f].pc \in {"down", "pivot", "fuzz", "scan", "demote", "read"}
       /\ proc[f].file \in 0..Len(queue[f]) /\ proc[f].next \in 0..MaxFiles
       /\ proc[f].todo \subseteq Fuzzers \ {f} /\ proc[f].from \subseteq Fuzzers \ {f}
  /\ passed \in [Fuzzers -> SUBSET Case]

\* f has left out nothing of g's queue that was there to be read: every file
\* with an id below its counter was run, or its file was missing or empty when
\* f came by.
Covered(f, g) ==
  \A i \in 1..Len(queue[g]) :
    i - 1 < synced[f][g] => queue[g][i].case \in passed[f]

\* Counting names instead of reading ids is sound as long as the other fuzzer
\* is in its first session: whatever it saves and trims during a scan, wherever
\* the scanning fuzzer is stopped, killed or resumed, .synced/ never runs ahead
\* of what was looked at.
LookedAt ==
  \A f \in Fuzzers : \A g \in Fuzzers \ {f} : session[g] = "first" => Covered(f, g)

\* A fuzzer in its first session is main exactly when its directory
\* says so, but for the moment between stepping down and removing the mark;
\* an election, a demotion or an exit never leaves the two apart.  (With the
\* types.)
MarkTrue ==
  /\ TypeOK
  /\ \A f \in Fuzzers :
       Up(f) /\ session[f] = "first" /\ proc[f].pc # "demote" => mark[f] = proc[f].is_main_node

\* No file that stays in the queue of a running fuzzer is waited for in vain:
\* again and again the counter of a running -M node reaches its end.
CaughtUp ==
  \A f \in Fuzzers : \A g \in Fuzzers \ {f} :
    []<>(~Up(f) \/ ~Up(g) \/ Secondary(f) \/ synced[f][g] >= Len(queue[g]))

\* A temporary main node steps down for good once a real one stays.
RealMainWins ==
  \A f \in Fuzzers : \A m \in Fuzzers \ {f} :
    <>[](Up(m) /\ ~Secondary(m)) => <>[](Up(f) /\ Secondary(f) => ~proc[f].is_main_node)

\* As long as a fuzzer runs beside another one, there is again and again a
\* directory marked as main node to sync from, even if two temporary main nodes
\* make each other step down (the mark may be that of a main node killed since).
MainElected ==
  \A f \in Fuzzers : \A g \in Fuzzers \ {f} :
    []<>(~Up(f) \/ session[g] = "none" \/ \E m \in Fuzzers : mark[m])

\* The test cases of f that are whole on disk.
OnDisk(f) == {x.case : x \in {y \in Range(queue[f]) \cup Range(resume[f]) : y.st = "full"}}

\* As long as f is not started afresh, no test case it has saved is lost, but
\* for the one that is being rewritten by trimming: neither a stop nor a kill
\* during a resume, or during the resume after that, takes a file away.
NothingLost ==
  [][\A f \in Fuzzers : session'[f] \in {"first", "resumed"} =>
       \A c \in OnDisk(f) \ OnDisk(f)' : proc'[f].file # 0 /\ queue'[f][proc'[f].file].case = c]_vars

\* What the comment in sync_fuzzers says of every file of another fuzzer: it is
\* run if it has not been looked at before.  Also for a fuzzer that was resumed
\* with "-i -".
LookedAtAfterResume ==
  \A f \in Fuzzers : \A g \in Fuzzers \ {f} :
    session[g] \in {"first", "resumed"} => Covered(f, g)

=============================================================================
