----------------------------- MODULE SyncProofs -----------------------------
(***************************************************************************)
(* Proofs about Sync: types and marks, what a counter in .synced/ stands   *)
(* for, and what a resume keeps, for any number of fuzzers and any bounds. *)
(***************************************************************************)
EXTENDS Sync, SequenceTheorems, TLAPS

Name == [id : Nat, case : Case]

\* A process: its flags, and the locals of sync_fuzzers.
Proc == [pc : {"down", "pivot", "fuzz", "scan", "demote", "read"},
         is_secondary_node : BOOLEAN, is_main_node : BOOLEAN, stop : BOOLEAN, file : Nat,
         input : SUBSET Name, in_place_resume : BOOLEAN,
         todo : SUBSET Fuzzers, from : SUBSET Fuzzers, found : BOOLEAN,
         list : SUBSET Name, next : Nat]

DiskTypes ==
  /\ queue \in [Fuzzers -> Seq(File)] /\ resume \in [Fuzzers -> Seq(File)]
  /\ mark \in [Fuzzers -> BOOLEAN]
  /\ synced \in [Fuzzers -> [Fuzzers -> Nat]]
  /\ session \in [Fuzzers -> {"none", "first", "resumed", "again"}]

Types ==
  /\ DiskTypes
  /\ proc \in [Fuzzers -> Proc]
  /\ passed \in [Fuzzers -> SUBSET Case]
  /\ finds \in Case

\* The directories of f: never longer than the bound, and none at all before f
\* was first started.
Disk(f) ==
  /\ Len(queue[f]) <= MaxFiles /\ Len(resume[f]) <= MaxFiles
  /\ \A g \in Fuzzers : synced[f][g] <= MaxFiles
  /\ session[f] = "none" => /\ queue[f] = <<>> /\ resume[f] = <<>> /\ ~mark[f]
                            /\ proc[f].pc = "down"
                            /\ \A g \in Fuzzers : synced[g][f] = 0

\* The process of f: the file it writes is in its queue, the inputs it has not
\* linked yet fit into it, and those it syncs from have a directory.
Process(f) ==
  /\ proc[f].file <= Len(queue[f])
  /\ proc[f].file # 0 => proc[f].pc \in {"fuzz", "read"}
  /\ proc[f].pc = "pivot" => \A x \in proc[f].input : Len(queue[f]) + x.id < MaxFiles
  /\ proc[f].todo \subseteq Fuzzers \ {f} /\ proc[f].from \subseteq Fuzzers \ {f}
  /\ \A g \in proc[f].todo \cup proc[f].from : session[g] # "none"

\* The listing of f: one name for each id, and the counter not above any id.
Listed(f) ==
  /\ proc[f].next <= MaxFiles
  /\ \A x \in proc[f].list : proc[f].next <= x.id /\ x.id < MaxFiles
  /\ \A x, y \in proc[f].list : x.id = y.id => x = y

\* The mark of a fuzzer in its first session.
Marked(f) ==
  /\ proc[f].pc = "demote" => ~proc[f].is_main_node
  /\ Up(f) /\ session[f] = "first" /\ proc[f].pc # "demote" => mark[f] = proc[f].is_main_node

\* In a scan of g that was begun in the first session of g: what lies below the
\* counter, and what lies below a name still to come, was looked at or is a
\* name still to come.
Scanned(f, g) ==
  /\ proc[f].next <= Len(queue[g])
  /\ \A i \in 1..Len(queue[g]) : i - 1 < proc[f].next => queue[g][i].case \in passed[f]
  /\ \A x \in proc[f].list :
       /\ x.id < Len(queue[g]) /\ queue[g][x.id + 1].case = x.case
       /\ \A i \in 1..Len(queue[g]) :
            i - 1 < x.id => \/ queue[g][i].case \in passed[f]
                            \/ \E y \in proc[f].list : y.id = i - 1

\* What f has seen of g, as long as g is in its first session.
Looked(f, g) ==
  session[g] = "first" =>
    /\ synced[f][g] <= Len(queue[g])
    /\ Covered(f, g)
    /\ proc[f].pc = "read" /\ g \in proc[f].from => Scanned(f, g)

\* The test cases of a directory that are whole.
Whole(dir) == {dir[i].case : i \in {j \in DOMAIN dir : dir[j].st = "full"}}
Cases(names) == {x.case : x \in names}

\* A _resume/ is there only while its files are linked into queue/ or after a
\* kill in the middle of that; what queue/ has then comes from it, and what
\* queue/ does not have yet is still to be linked.
Kept(f) ==
  session[f] \in {"first", "resumed"} =>
    /\ resume[f] # <<>> => /\ proc[f].pc \in {"pivot", "down"}
                           /\ Whole(queue[f]) \subseteq Whole(resume[f])
    /\ proc[f].pc = "pivot" /\ ~proc[f].in_place_resume => resume[f] = <<>>
    /\ proc[f].pc = "pivot" /\ proc[f].in_place_resume =>
         /\ Cases(proc[f].input) \subseteq Whole(resume[f])
         /\ Whole(resume[f]) \subseteq Whole(queue[f]) \cup Cases(proc[f].input)

Own(f) == Disk(f) /\ Process(f) /\ Listed(f) /\ Marked(f) /\ Kept(f)
Local == \A f \in Fuzzers : Own(f)
Looks == \A f \in Fuzzers : \A g \in Fuzzers \ {f} : Looked(f, g)

\* The inductive invariant.
IInv == Types /\ Local /\ Looks

----------------------------------------------------------------------------
(* What a step of one fuzzer leaves to the others.                         *)

\* A step of f: the directories and processes of others stay, and nobody's
\* directory disappears.
Alone(f) ==
  /\ \A h \in Fuzzers \ {f} :
       /\ queue'[h] = queue[h] /\ resume'[h] = resume[h] /\ mark'[h] = mark[h]
       /\ synced'[h] = synced[h] /\ session'[h] = session[h]
       /\ proc'[h] = proc[h] /\ passed'[h] = passed[h]
  /\ session[f] # "none" => session'[f] # "none"
  /\ \A h \in Fuzzers : session'[h] = "none" => synced'[f][h] = 0

\* Files of f keep their ids and test cases in its first session.
Grows(f) ==
  session'[f] = "first" =>
    \/ session[f] = "none" /\ queue'[f] = <<>>
    \/ /\ session[f] = "first" /\ Len(queue[f]) <= Len(queue'[f])
       /\ \A i \in 1..Len(queue[f]) : queue'[f][i].case = queue[f][i].case

\* All that has to be shown of a step of f.
Good(f) ==
  /\ Types' /\ Alone(f) /\ Grows(f) /\ Own(f)'
  /\ \A g \in Fuzzers \ {f} : Looked(f, g)'

\* Who does not take part in a step keeps what it has.
LEMMA OthersOwn ==
  ASSUME IInv, NEW f \in Fuzzers, Types', Alone(f), NEW h \in Fuzzers \ {f}
  PROVE  Own(h)'
<1> USE DEF IInv, Local, Own, Alone
<1>1. Disk(h)'
  <2>1. Disk(h)
    OBVIOUS
  <2>2. /\ queue'[h] = queue[h] /\ resume'[h] = resume[h] /\ mark'[h] = mark[h]
        /\ synced'[h] = synced[h] /\ session'[h] = session[h] /\ proc'[h] = proc[h]
    OBVIOUS
  <2>3. ASSUME session'[h] = "none", NEW g \in Fuzzers PROVE synced'[g][h] = 0
    <3>1. CASE g = f
      BY <2>3, <3>1
    <3>2. CASE g # f
      <4>1. synced'[g] = synced[g] /\ session[h] = "none"
        BY <2>2, <2>3, <3>2
      <4> QED
        BY <2>1, <4>1 DEF Disk
    <3> QED
      BY <3>1, <3>2
  <2> HIDE DEF IInv, Local, Own, Alone
  <2> QED
    BY <2>1, <2>2, <2>3 DEF Disk
<1> HIDE DEF IInv, Local, Own, Alone
<1>2. Process(h)'
  BY DEF IInv, Local, Own, Process, Alone, Types, DiskTypes
<1>3. Listed(h)'
  BY DEF IInv, Local, Own, Listed, Alone
<1>4. Marked(h)'
  BY DEF IInv, Local, Own, Marked, Alone, Up
<1>5. Kept(h)'
  BY DEF IInv, Local, Own, Kept, Alone
<1> QED
  BY <1>1, <1>2, <1>3, <1>4, <1>5 DEF Own

\* Neither does what one of them has seen of another change, nor what it has
\* seen of f.
LEMMA OthersLooked ==
  ASSUME IInv, NEW f \in Fuzzers, Types', Alone(f), Grows(f),
         NEW h \in Fuzzers \ {f}, NEW g \in Fuzzers \ {h}
  PROVE  Looked(h, g)'
<1>1. Looked(h, g)
  BY DEF IInv, Looks
<1>2. CASE g # f
  BY <1>1, <1>2 DEF Looked, Covered, Scanned, Alone
<1>3. CASE g = f /\ session'[f] = "first" /\ session[f] = "none"
  <2>1. queue'[f] = <<>> /\ synced'[h][f] = 0 /\ f \notin proc'[h].from
    BY <1>3 DEF IInv, Local, Own, Disk, Process, Alone, Grows
  <2>2. Len(queue'[f]) = 0
    BY <2>1
  <2>3. synced'[h][f] <= Len(queue'[f]) /\ Covered(h, f)'
    BY <2>1, <2>2 DEF Covered
  <2> QED
    BY <1>3, <2>1, <2>3 DEF Looked
<1>4. CASE g = f /\ session'[f] = "first" /\ session[f] = "first"
  <2>1. /\ Len(queue[f]) <= Len(queue'[f])
        /\ \A i \in 1..Len(queue[f]) : queue'[f][i].case = queue[f][i].case
        /\ Len(queue[f]) \in Nat /\ Len(queue'[f]) \in Nat
    <3>1. queue[f] \in Seq(File) /\ queue'[f] \in Seq(File)
      BY DEF IInv, Types, DiskTypes
    <3>2. Len(queue[f]) \in Nat /\ Len(queue'[f]) \in Nat
      BY <3>1
    <3> QED
      BY <1>4, <3>2 DEF Grows
  <2>2. /\ synced'[h][f] = synced[h][f] /\ synced[h][f] \in Nat
        /\ proc'[h] = proc[h] /\ proc[h].next \in Nat
        /\ proc[h].list \subseteq Name /\ passed'[h] = passed[h]
    <3>1. proc[h] \in Proc
      BY DEF IInv, Types
    <3>2. proc[h].next \in Nat /\ proc[h].list \subseteq Name
      BY <3>1 DEF Proc
    <3>3. synced[h][f] \in Nat
      BY DEF IInv, Types, DiskTypes
    <3> QED
      BY <3>2, <3>3 DEF Alone
  <2>3. synced'[h][f] <= Len(queue'[f]) /\ Covered(h, f)'
    BY <1>1, <1>4, <2>1, <2>2 DEF Looked, Covered
  <2>4. ASSUME proc'[h].pc = "read", f \in proc'[h].from PROVE Scanned(h, f)'
    <3>1. Scanned(h, f)
      BY <1>1, <1>4, <2>2, <2>4 DEF Looked
    <3>2. \A x \in proc[h].list : x.id \in Nat
      BY <2>2 DEF Name
    <3>3. ASSUME NEW i \in 1..Len(queue'[f]), i - 1 < Len(queue[f])
          PROVE  i \in 1..Len(queue[f]) /\ queue'[f][i].case = queue[f][i].case
      BY <2>1, <3>3
    <3>4. /\ proc'[h].next <= Len(queue'[f])
          /\ \A i \in 1..Len(queue'[f]) : i - 1 < proc'[h].next => queue'[f][i].case \in passed'[h]
      BY <2>1, <2>2, <3>1, <3>3 DEF Scanned
    <3>5. ASSUME NEW x \in proc'[h].list
          PROVE  /\ x.id < Len(queue'[f]) /\ queue'[f][x.id + 1].case = x.case
                 /\ \A i \in 1..Len(queue'[f]) :
                      i - 1 < x.id => \/ queue'[f][i].case \in passed'[h]
                                      \/ \E y \in proc'[h].list : y.id = i - 1
      <4>1. x.id \in Nat /\ x.id < Len(queue[f]) /\ queue[f][x.id + 1].case = x.case
        BY <2>2, <3>1, <3>2, <3>5 DEF Scanned
      <4>2. x.id < Len(queue'[f]) /\ queue'[f][x.id + 1].case = x.case
        BY <2>1, <4>1
      <4>3. ASSUME NEW i \in 1..Len(queue'[f]), i - 1 < x.id
            PROVE  \/ queue'[f][i].case \in passed'[h]
                   \/ \E y \in proc'[h].list : y.id = i - 1
        <5>1. i \in 1..Len(queue[f]) /\ queue'[f][i].case = queue[f][i].case
          BY <4>1, <4>3, <3>3, <2>1
        <5> QED
          BY <5>1, <4>3, <2>2, <3>1, <3>5 DEF Scanned
      <4> QED
        BY <4>2, <4>3
    <3> QED
      BY <3>4, <3>5 DEF Scanned
  <2> QED
    BY <1>4, <2>3, <2>4 DEF Looked
<1>5. CASE g = f /\ session'[f] # "first"
  BY <1>5 DEF Looked
<1> QED
  BY <1>2, <1>3, <1>4, <1>5 DEF Grows

\* A good step keeps the invariant.
LEMMA GoodKeeps ==
  ASSUME IInv, NEW f \in Fuzzers, Good(f)
  PROVE  IInv'
<1>1. Local'
  BY OthersOwn DEF Good, Local
<1>2. Looks'
  BY OthersLooked DEF Good, Looks
<1> QED
  BY <1>1, <1>2 DEF Good, IInv

----------------------------------------------------------------------------
(* Operators and initial states                                            *)

\* The names of a listing, and what they name.
LEMMA NamesAre ==
  ASSUME NEW dir \in Seq(File), NEW these
  PROVE  /\ Names(dir, these) \subseteq Name
         /\ \A x \in Names(dir, these) :
              /\ x.id + 1 \in 1..Len(dir) /\ x.case = dir[x.id + 1].case
              /\ dir[x.id + 1].st \in these
         /\ \A i \in 1..Len(dir) :
              dir[i].st \in these => [id |-> i - 1, case |-> dir[i].case] \in Names(dir, these)
         /\ \A x, y \in Names(dir, these) : x.id = y.id => x = y
<1>1. DOMAIN dir = 1..Len(dir) /\ Len(dir) \in Nat /\ \A i \in 1..Len(dir) : dir[i] \in File
  OBVIOUS
<1>2. \A i \in 1..Len(dir) : dir[i].case \in Case
  BY <1>1 DEF File
<1>3. ASSUME NEW x \in Names(dir, these)
      PROVE  /\ x \in Name /\ x = [id |-> x.id, case |-> dir[x.id + 1].case]
             /\ x.id + 1 \in 1..Len(dir) /\ dir[x.id + 1].st \in these
  <2>1. PICK i \in DOMAIN dir : dir[i].st \in these /\ x = [id |-> i - 1, case |-> dir[i].case]
    BY DEF Names
  <2>2. i \in 1..Len(dir) /\ i - 1 \in Nat /\ (i - 1) + 1 = i
    BY <1>1
  <2>3. x.id = i - 1
    BY <2>1
  <2> QED
    BY <2>1, <2>2, <2>3, <1>2 DEF Name
<1>4. \A x \in Names(dir, these) : x.case = dir[x.id + 1].case
  BY <1>3
<1>5. ASSUME NEW i \in 1..Len(dir), dir[i].st \in these
      PROVE  [id |-> i - 1, case |-> dir[i].case] \in Names(dir, these)
  BY <1>1, <1>5 DEF Names
<1>6. \A x, y \in Names(dir, these) : x.id = y.id => x = y
  BY <1>3
<1> QED
  BY <1>3, <1>4, <1>5, <1>6

\* read_testcases loads exactly what is whole.
LEMMA LoadedWhole ==
  ASSUME NEW dir \in Seq(File)
  PROVE  Cases(Loaded(dir)) = Whole(dir)
<1>1. DOMAIN dir = 1..Len(dir)
  OBVIOUS
<1>2. ASSUME NEW c \in Cases(Loaded(dir)) PROVE c \in Whole(dir)
  <2>1. PICK x \in Loaded(dir) : c = x.case
    BY DEF Cases
  <2>2. x.id + 1 \in 1..Len(dir) /\ x.case = dir[x.id + 1].case /\ dir[x.id + 1].st \in {"full"}
    BY NamesAre DEF Loaded
  <2> QED
    BY <1>1, <2>1, <2>2 DEF Whole
<1>3. ASSUME NEW c \in Whole(dir) PROVE c \in Cases(Loaded(dir))
  <2>1. PICK i \in 1..Len(dir) : dir[i].st = "full" /\ c = dir[i].case
    BY <1>1 DEF Whole
  <2>2. [id |-> i - 1, case |-> dir[i].case] \in Loaded(dir)
    BY <2>1, NamesAre DEF Loaded
  <2>3. [id |-> i - 1, case |-> dir[i].case].case = c
    BY <2>1
  <2> QED
    BY <2>2, <2>3 DEF Cases
<1> QED
  BY <1>2, <1>3

\* A file appended to a queue.
LEMMA Appended ==
  ASSUME NEW dir \in Seq(File), NEW x \in File
  PROVE  /\ Append(dir, x) \in Seq(File) /\ Len(Append(dir, x)) = Len(dir) + 1
         /\ Len(dir) \in Nat
         /\ \A i \in 1..Len(dir) : Append(dir, x)[i] = dir[i]
         /\ Append(dir, x)[Len(dir) + 1] = x
  BY AppendProperties

\* What is whole in a queue after a file was appended.
LEMMA AppendedWhole ==
  ASSUME NEW dir \in Seq(File), NEW x \in File
  PROVE  /\ Whole(dir) \subseteq Whole(Append(dir, x))
         /\ Whole(Append(dir, x)) \subseteq Whole(dir) \cup {x.case}
         /\ x.st = "full" => x.case \in Whole(Append(dir, x))
<1> DEFINE new == Append(dir, x)
<1>1. /\ new \in Seq(File) /\ Len(new) = Len(dir) + 1 /\ Len(dir) \in Nat
      /\ \A i \in 1..Len(dir) : new[i] = dir[i]
      /\ new[Len(dir) + 1] = x
  BY Appended
<1>2. DOMAIN dir = 1..Len(dir) /\ DOMAIN new = 1..Len(new)
  BY <1>1
<1> HIDE DEF new
<1>3. Whole(dir) \subseteq Whole(new)
  BY <1>1, <1>2 DEF Whole
<1>4. Whole(new) \subseteq Whole(dir) \cup {x.case}
  BY <1>1, <1>2 DEF Whole
<1>5. x.st = "full" => x.case \in Whole(new)
  BY <1>1, <1>2 DEF Whole
<1> QED
  BY <1>3, <1>4, <1>5 DEF new

\* A process between two syncs, and one that is down, has nothing to do.
LEMMA IdleIs ==
  /\ Idle \in Proc /\ Down \in Proc
  /\ Idle.pc = "fuzz" /\ Idle.file = 0 /\ Idle.input = {} /\ Idle.todo = {} /\ Idle.from = {}
  /\ Idle.list = {} /\ Idle.next = 0 /\ ~Idle.in_place_resume
  /\ Down.pc = "down" /\ Down.file = 0 /\ Down.input = {} /\ Down.todo = {} /\ Down.from = {}
  /\ Down.list = {} /\ Down.next = 0 /\ ~Down.in_place_resume
  BY DEF Idle, Down, Proc

\* No directory exists at first.
LEMMA InitIInv == Init => IInv
<1> SUFFICES ASSUME Init PROVE IInv
  OBVIOUS
<1>1. Types
  <2>1. 0 \in Case
    BY BoundsAssumption DEF Case
  <2> QED
    BY <2>1, IdleIs DEF Init, Types, DiskTypes
<1>2. ASSUME NEW f \in Fuzzers PROVE Own(f)
  <2>1. /\ queue[f] = <<>> /\ resume[f] = <<>> /\ mark[f] = FALSE /\ session[f] = "none"
        /\ proc[f] = Down /\ \A g \in Fuzzers : synced[f][g] = 0 /\ synced[g][f] = 0
    BY DEF Init
  <2>2. Len(<<>>) = 0 /\ 0 <= MaxFiles
    BY BoundsAssumption
  <2> QED
    BY <2>1, <2>2, IdleIs DEF Own, Disk, Process, Listed, Marked, Kept, Up
<1>3. Looks
  BY DEF Init, Looks, Looked
<1> QED
  BY <1>1, <1>2, <1>3 DEF IInv, Local

\* What f has seen stays as it is in a step that neither reads nor counts.
LEMMA SelfLooked ==
  ASSUME IInv, NEW f \in Fuzzers, Types', Alone(f),
         synced'[f] = synced[f], passed[f] \subseteq passed'[f],
         proc'[f].pc = "read" => /\ proc[f].pc = "read" /\ proc'[f].from = proc[f].from
                                 /\ proc'[f].list = proc[f].list /\ proc'[f].next = proc[f].next,
         NEW g \in Fuzzers \ {f}
  PROVE  Looked(f, g)'
<1>1. Looked(f, g) /\ session'[g] = session[g] /\ queue'[g] = queue[g]
  BY DEF IInv, Looks, Alone
<1>2. ASSUME session'[g] = "first" PROVE synced'[f][g] <= Len(queue'[g]) /\ Covered(f, g)'
  BY <1>1, <1>2 DEF Looked, Covered
<1>3. ASSUME session'[g] = "first", proc'[f].pc = "read", g \in proc'[f].from
      PROVE  Scanned(f, g)'
  <2>1. Scanned(f, g)
    BY <1>1, <1>3 DEF Looked
  <2> QED
    BY <1>1, <1>3, <2>1 DEF Scanned
<1> QED
  BY <1>2, <1>3 DEF Looked

----------------------------------------------------------------------------
(* Start                                                                   *)

\* A process that has just been started.
LEMMA Started ==
  ASSUME IInv, NEW f \in Fuzzers, NEW role \in Roles[f], NEW input \in SUBSET Name,
         NEW in_place \in BOOLEAN, Starting(f, role, input, in_place),
         session' \in [Fuzzers -> {"none", "first", "resumed", "again"}],
         resume' \in [Fuzzers -> Seq(File)], synced' \in [Fuzzers -> [Fuzzers -> Nat]]
  PROVE  /\ Types'
         /\ proc'[f].pc = "pivot" /\ proc'[f].is_main_node = (role = "-M")
         /\ proc'[f].input = input /\ proc'[f].in_place_resume = in_place
         /\ proc'[f].file = 0 /\ proc'[f].todo = {} /\ proc'[f].from = {}
         /\ proc'[f].list = {} /\ proc'[f].next = 0
         /\ mark'[f] = (mark[f] \/ role = "-M") /\ queue'[f] = <<>>
         /\ \A h \in Fuzzers \ {f} : /\ proc'[h] = proc[h] /\ mark'[h] = mark[h]
                                     /\ queue'[h] = queue[h]
         /\ passed' = passed
<1> DEFINE new == [Idle EXCEPT !.pc = "pivot", !.is_main_node = role = "-M",
                               !.is_secondary_node = role = "-S",
                               !.input = input, !.in_place_resume = in_place]
<1>1. /\ new.pc = "pivot" /\ new.is_main_node = (role = "-M") /\ new.input = input
      /\ new.in_place_resume = in_place /\ new.file = 0 /\ new.todo = {} /\ new.from = {}
      /\ new.list = {} /\ new.next = 0
  BY DEF Idle
<1>2. new \in Proc
  BY DEF Idle, Proc
<1> HIDE DEF new
<1>3. proc' = [proc EXCEPT ![f] = new] /\ proc \in [Fuzzers -> Proc]
  BY DEF Starting, new, IInv, Types
<1>4. proc' \in [Fuzzers -> Proc] /\ proc'[f] = new /\ \A h \in Fuzzers \ {f} : proc'[h] = proc[h]
  BY <1>2, <1>3
<1>5. /\ mark' \in [Fuzzers -> BOOLEAN] /\ mark'[f] = (mark[f] \/ role = "-M")
      /\ \A h \in Fuzzers \ {f} : mark'[h] = mark[h]
  BY DEF Starting, IInv, Types, DiskTypes
<1>6. /\ queue' \in [Fuzzers -> Seq(File)] /\ queue'[f] = <<>>
      /\ \A h \in Fuzzers \ {f} : queue'[h] = queue[h]
  BY DEF Starting, IInv, Types, DiskTypes
<1>7. passed' = passed /\ finds' = finds
  BY DEF Starting, bounds
<1>8. Types'
  BY <1>4, <1>5, <1>6, <1>7 DEF IInv, Types, DiskTypes
<1> QED
  BY <1>1, <1>4, <1>5, <1>6, <1>7, <1>8

\* A start with an input directory: only a first start stays a first session,
\* and then nobody has looked at anything yet.
LEMMA StartFreshStep ==
  ASSUME IInv, NEW f \in Fuzzers, NEW role \in Roles[f], StartFresh(f, role)
  PROVE  Good(f)
<1> DEFINE input == Loaded(<<Full(Seed)>>)
<1>1. <<Full(Seed)>> \in Seq(File) /\ Len(<<Full(Seed)>>) = 1
  BY BoundsAssumption DEF Full, Seed, File, State, Case
<1>2. input \in SUBSET Name /\ \A x \in input : x.id = 0
  <2>1. input \subseteq Name /\ \A x \in input : x.id + 1 \in 1..Len(<<Full(Seed)>>)
    BY <1>1, NamesAre DEF Loaded
  <2>2. \A x \in input : x.id \in Nat
    BY <2>1 DEF Name
  <2> HIDE DEF input
  <2> QED
    BY <1>1, <2>1, <2>2
<1> HIDE DEF input
<1>3. /\ session' \in [Fuzzers -> {"none", "first", "resumed", "again"}]
      /\ session'[f] = (IF session[f] = "none" THEN "first" ELSE "again")
      /\ \A h \in Fuzzers \ {f} : session'[h] = session[h]
  BY DEF StartFresh, IInv, Types, DiskTypes
<1>4. /\ synced' \in [Fuzzers -> [Fuzzers -> Nat]] /\ \A g \in Fuzzers : synced'[f][g] = 0
      /\ \A h \in Fuzzers \ {f} : synced'[h] = synced[h]
  BY DEF StartFresh, IInv, Types, DiskTypes
<1>5. resume' = resume /\ Starting(f, role, input, FALSE)
  BY DEF StartFresh, input
<1>6. /\ Types'
      /\ proc'[f].pc = "pivot" /\ proc'[f].is_main_node = (role = "-M")
      /\ proc'[f].input = input /\ proc'[f].in_place_resume = FALSE
      /\ proc'[f].file = 0 /\ proc'[f].todo = {} /\ proc'[f].from = {}
      /\ proc'[f].list = {} /\ proc'[f].next = 0
      /\ mark'[f] = (mark[f] \/ role = "-M") /\ queue'[f] = <<>>
      /\ \A h \in Fuzzers \ {f} : /\ proc'[h] = proc[h] /\ mark'[h] = mark[h]
                                  /\ queue'[h] = queue[h]
      /\ passed' = passed
  BY <1>2, <1>3, <1>4, <1>5, Started DEF IInv, Types, DiskTypes
<1>7. Len(queue'[f]) = 0 /\ MaxFiles \in Nat /\ MaxFiles > 0
  BY <1>6, BoundsAssumption
<1>8. Alone(f)
  BY <1>3, <1>4, <1>5, <1>6 DEF Alone
<1>9. Grows(f)
  BY <1>3, <1>6 DEF Grows
<1>10. Own(f)
  BY DEF IInv, Local
<1>11. Disk(f)'
  BY <1>3, <1>4, <1>5, <1>7, <1>10 DEF Own, Disk
<1>12. Process(f)' /\ Listed(f)'
  BY <1>2, <1>6, <1>7 DEF Process, Listed
<1>13. Marked(f)'
  BY <1>3, <1>6, <1>10 DEF Marked, Own, Disk
<1>14. Kept(f)'
  BY <1>3, <1>5, <1>6, <1>10 DEF Kept, Own, Disk
<1>15. ASSUME NEW g \in Fuzzers \ {f} PROVE Looked(f, g)'
  <2>1. synced'[f][g] = 0 /\ Len(queue'[g]) \in Nat /\ proc'[f].pc # "read"
    BY <1>4, <1>6 DEF Types, DiskTypes
  <2> QED
    BY <2>1 DEF Looked, Covered
<1> QED
  BY <1>6, <1>8, <1>9, <1>11, <1>12, <1>13, <1>14, <1>15 DEF Good, Own

\* A start with "-i -": queue/ is emptied, and all of it is in _resume/.
LEMMA StartResumeStep ==
  ASSUME IInv, NEW f \in Fuzzers, NEW role \in Roles[f], StartResume(f, role)
  PROVE  Good(f)
<1> DEFINE dir == ResumeDir(f)
           input == Loaded(dir)
<1>1. dir \in Seq(File) /\ Len(dir) <= MaxFiles /\ Len(dir) \in Nat
  BY DEF ResumeDir, IInv, Types, DiskTypes, Local, Own, Disk
<1>2. Cases(input) = Whole(dir)
  BY <1>1, LoadedWhole
<1>3. input \in SUBSET Name /\ \A x \in input : x.id < MaxFiles /\ x.id \in Nat
  <2>1. input \subseteq Name /\ \A x \in input : x.id + 1 \in 1..Len(dir)
    BY <1>1, NamesAre DEF Loaded
  <2>2. \A x \in input : x.id \in Nat
    BY <2>1 DEF Name
  <2> HIDE DEF dir, input
  <2> QED
    BY <1>1, <2>1, <2>2, BoundsAssumption
<1>4. /\ session[f] # "none"
      /\ session' \in [Fuzzers -> {"none", "first", "resumed", "again"}]
      /\ session'[f] = (IF session[f] = "first" THEN "resumed" ELSE session[f])
      /\ \A h \in Fuzzers \ {f} : session'[h] = session[h]
  BY DEF StartResume, IInv, Types, DiskTypes
<1>5. /\ synced' = synced /\ Starting(f, role, input, TRUE)
      /\ resume' = [resume EXCEPT ![f] = dir]
  BY DEF StartResume
<1> HIDE DEF dir, input
<1>6. /\ resume' \in [Fuzzers -> Seq(File)] /\ resume'[f] = dir
      /\ \A h \in Fuzzers \ {f} : resume'[h] = resume[h]
  BY <1>1, <1>5 DEF IInv, Types, DiskTypes
<1>7. /\ Types'
      /\ proc'[f].pc = "pivot" /\ proc'[f].is_main_node = (role = "-M")
      /\ proc'[f].input = input /\ proc'[f].in_place_resume = TRUE
      /\ proc'[f].file = 0 /\ proc'[f].todo = {} /\ proc'[f].from = {}
      /\ proc'[f].list = {} /\ proc'[f].next = 0
      /\ mark'[f] = (mark[f] \/ role = "-M") /\ queue'[f] = <<>>
      /\ \A h \in Fuzzers \ {f} : /\ proc'[h] = proc[h] /\ mark'[h] = mark[h]
                                  /\ queue'[h] = queue[h]
      /\ passed' = passed
  BY <1>3, <1>4, <1>5, <1>6, Started DEF IInv, Types, DiskTypes
<1>8. Len(queue'[f]) = 0 /\ MaxFiles \in Nat /\ MaxFiles > 0
  BY <1>7, BoundsAssumption
<1>9. Own(f) /\ \A h \in Fuzzers : Disk(h)
  BY DEF IInv, Local, Own
<1>10. Alone(f)
  <2>1. \A h \in Fuzzers : session'[h] = "none" => session[h] = "none"
    BY <1>4
  <2>2. \A h \in Fuzzers : session'[h] = "none" => synced'[f][h] = 0
    BY <1>5, <1>9, <2>1 DEF Disk
  <2>3. \A h \in Fuzzers \ {f} : synced'[h] = synced[h]
    BY <1>5
  <2> QED
    BY <1>4, <1>6, <1>7, <2>2, <2>3 DEF Alone
<1>11. Grows(f)
  BY <1>4 DEF Grows
<1>12. Disk(f)'
  BY <1>1, <1>4, <1>5, <1>6, <1>8, <1>9 DEF Own, Disk
<1>13. Process(f)' /\ Listed(f)'
  BY <1>3, <1>7, <1>8 DEF Process, Listed
<1>14. Marked(f)'
  BY <1>4, <1>7 DEF Marked
<1>15. Kept(f)'
  <2>1. Whole(queue'[f]) = {}
    BY <1>7 DEF Whole
  <2> QED
    BY <1>2, <1>6, <1>7, <2>1 DEF Kept
<1>16. \A g \in Fuzzers \ {f} : Looked(f, g)'
  BY <1>5, <1>7, <1>10, SelfLooked
<1> QED
  BY <1>7, <1>10, <1>11, <1>12, <1>13, <1>14, <1>15, <1>16 DEF Good, Own

----------------------------------------------------------------------------
(* What a fuzzer does to its own queue/.                                   *)

\* Facts about f that every step starts from.
LEMMA Have ==
  ASSUME IInv, NEW f \in Fuzzers
  PROVE  /\ queue[f] \in Seq(File) /\ Len(queue[f]) \in Nat /\ DOMAIN queue[f] = 1..Len(queue[f])
         /\ resume[f] \in Seq(File) /\ mark[f] \in BOOLEAN
         /\ proc[f] \in Proc /\ passed[f] \in SUBSET Case /\ finds \in Nat
         /\ MaxFiles \in Nat /\ MaxFiles > 0
         /\ proc[f].file \in Nat /\ proc[f].next \in Nat
         /\ proc[f].input \in SUBSET Name /\ proc[f].list \in SUBSET Name
         /\ Disk(f) /\ Process(f) /\ Listed(f) /\ Marked(f) /\ Kept(f)
<1>1. proc[f] \in Proc
  BY DEF IInv, Types
<1>2. /\ proc[f].file \in Nat /\ proc[f].next \in Nat
      /\ proc[f].input \in SUBSET Name /\ proc[f].list \in SUBSET Name
  BY <1>1 DEF Proc
<1>3. /\ queue[f] \in Seq(File) /\ resume[f] \in Seq(File) /\ mark[f] \in BOOLEAN
      /\ passed[f] \in SUBSET Case
  BY DEF IInv, Types, DiskTypes
<1>4. finds \in Nat /\ MaxFiles \in Nat /\ MaxFiles > 0
  BY BoundsAssumption DEF IInv, Types, Case
<1>5. Disk(f) /\ Process(f) /\ Listed(f) /\ Marked(f) /\ Kept(f)
  BY DEF IInv, Local, Own
<1>6. Len(queue[f]) \in Nat /\ DOMAIN queue[f] = 1..Len(queue[f])
  BY <1>3
<1> QED
  BY <1>1, <1>2, <1>3, <1>4, <1>5, <1>6

\* A step of f that starts nothing and counts nothing.
LEMMA StaysAlone ==
  ASSUME IInv, NEW f \in Fuzzers, session' = session, synced' = synced,
         \A h \in Fuzzers \ {f} :
           /\ queue'[h] = queue[h] /\ resume'[h] = resume[h] /\ mark'[h] = mark[h]
           /\ proc'[h] = proc[h] /\ passed'[h] = passed[h]
  PROVE  Alone(f)
<1>1. \A h \in Fuzzers : session[h] = "none" => synced[f][h] = 0
  BY Have DEF Disk
<1> QED
  BY <1>1 DEF Alone

\* Linking one input: it fits, and what is left of _resume/ is still to come.
LEMMA PivotStep ==
  ASSUME IInv, NEW f \in Fuzzers, Pivot(f)
  PROVE  Good(f)
<1>1. PICK x \in proc[f].input :
        LET rest == proc[f].input \ {x}
        IN  /\ At(f, "pivot") /\ \A y \in rest : y.id < x.id
            /\ queue' = [queue EXCEPT ![f] = Append(@, Full(x.case))]
            /\ proc' = [proc EXCEPT ![f].input = rest,
                                    ![f].pc = IF rest = {} THEN "fuzz" ELSE "pivot",
                                    ![f].in_place_resume = @ /\ rest # {}]
            /\ resume' = IF rest = {} /\ proc[f].in_place_resume
                         THEN [resume EXCEPT ![f] = <<>>] ELSE resume
            /\ UNCHANGED <<mark, synced, session, passed, bounds>>
  BY DEF Pivot
<1> DEFINE rest == proc[f].input \ {x}
           p == proc[f]
<1>2. /\ p \in Proc /\ p.input \in SUBSET Name /\ queue[f] \in Seq(File) /\ Len(queue[f]) \in Nat
      /\ DOMAIN queue[f] = 1..Len(queue[f]) /\ resume[f] \in Seq(File)
      /\ MaxFiles \in Nat /\ MaxFiles > 0
      /\ Disk(f) /\ Process(f) /\ Listed(f) /\ Marked(f) /\ Kept(f)
  BY Have
<1>3. p.pc = "pivot" /\ p.file = 0
  BY <1>1 DEF At
<1>4. x.id \in Nat /\ x.case \in Case /\ \A y \in rest : y.id \in Nat /\ y.id < x.id
  BY <1>1, <1>2 DEF Name
<1>5. Full(x.case) \in File /\ Full(x.case).st = "full" /\ Full(x.case).case = x.case
  BY <1>4 DEF Full, File, State
<1>6. /\ queue' \in [Fuzzers -> Seq(File)] /\ queue'[f] = Append(queue[f], Full(x.case))
      /\ \A h \in Fuzzers \ {f} : queue'[h] = queue[h]
  BY <1>1, <1>5, Appended DEF IInv, Types, DiskTypes
<1>7. /\ Len(queue'[f]) = Len(queue[f]) + 1
      /\ \A i \in 1..Len(queue[f]) : queue'[f][i] = queue[f][i]
  BY <1>2, <1>5, <1>6, Appended
<1>8. /\ proc' \in [Fuzzers -> Proc] /\ \A h \in Fuzzers \ {f} : proc'[h] = proc[h]
      /\ proc'[f].input = rest /\ proc'[f].pc = (IF rest = {} THEN "fuzz" ELSE "pivot")
      /\ proc'[f].in_place_resume = (p.in_place_resume /\ rest # {})
      /\ proc'[f].file = p.file /\ proc'[f].todo = p.todo /\ proc'[f].from = p.from
      /\ proc'[f].list = p.list /\ proc'[f].next = p.next
      /\ proc'[f].is_main_node = p.is_main_node
  <2> DEFINE new == [p EXCEPT !.input = rest, !.pc = IF rest = {} THEN "fuzz" ELSE "pivot",
                              !.in_place_resume = @ /\ rest # {}]
  <2>1. proc' = [proc EXCEPT ![f] = new]
    BY <1>1, <1>2 DEF IInv, Types
  <2>2. new \in Proc
    BY <1>2 DEF Proc
  <2>3. /\ new.input = rest /\ new.pc = (IF rest = {} THEN "fuzz" ELSE "pivot")
        /\ new.in_place_resume = (p.in_place_resume /\ rest # {})
        /\ new.file = p.file /\ new.todo = p.todo /\ new.from = p.from
        /\ new.list = p.list /\ new.next = p.next /\ new.is_main_node = p.is_main_node
    BY <1>2 DEF Proc
  <2> HIDE DEF new
  <2>4. proc' \in [Fuzzers -> Proc] /\ proc'[f] = new /\ \A h \in Fuzzers \ {f} : proc'[h] = proc[h]
    BY <2>1, <2>2 DEF IInv, Types
  <2> QED
    BY <2>3, <2>4
<1>9. /\ resume' \in [Fuzzers -> Seq(File)]
      /\ resume'[f] = (IF rest = {} /\ p.in_place_resume THEN <<>> ELSE resume[f])
      /\ \A h \in Fuzzers \ {f} : resume'[h] = resume[h]
  <2>1. resume' = IF rest = {} /\ p.in_place_resume THEN [resume EXCEPT ![f] = <<>>] ELSE resume
    BY <1>1
  <2>2. resume \in [Fuzzers -> Seq(File)] /\ <<>> \in Seq(File)
    BY DEF IInv, Types, DiskTypes
  <2> HIDE DEF rest, p
  <2> QED
    BY <2>1, <2>2
<1>10. mark' = mark /\ synced' = synced /\ session' = session /\ passed' = passed /\ finds' = finds
  BY <1>1 DEF bounds
<1> HIDE DEF rest, p
<1>11. Types'
  BY <1>6, <1>8, <1>9, <1>10 DEF IInv, Types, DiskTypes
<1>12. Alone(f)
  BY <1>6, <1>8, <1>9, <1>10, StaysAlone
<1>13. Grows(f)
  BY <1>2, <1>7, <1>10 DEF Grows
<1>14. Disk(f)'
  <2>1. Len(queue[f]) + x.id < MaxFiles
    BY <1>2, <1>3 DEF Process, p
  <2>2. Len(queue'[f]) <= MaxFiles /\ Len(resume'[f]) <= MaxFiles
    BY <1>2, <1>4, <1>7, <1>9, <2>1 DEF Disk
  <2> QED
    BY <1>2, <1>3, <1>10, <2>2 DEF Disk, p
<1>15. Process(f)'
  <2>1. \A y \in rest : Len(queue[f]) + y.id + 1 < MaxFiles
    BY <1>2, <1>3, <1>4 DEF Process, p, rest
  <2>2. proc'[f].pc = "pivot" => \A y \in proc'[f].input : Len(queue'[f]) + y.id < MaxFiles
    BY <1>2, <1>4, <1>7, <1>8, <2>1
  <2> QED
    BY <1>2, <1>3, <1>7, <1>8, <1>10, <2>2 DEF Process, p
<1>16. Listed(f)'
  BY <1>2, <1>8 DEF Listed, p
<1>17. Marked(f)'
  BY <1>2, <1>3, <1>8, <1>10 DEF Marked, p, Up
<1>18. Kept(f)'
  <2>1. /\ Whole(queue[f]) \subseteq Whole(queue'[f])
        /\ Whole(queue'[f]) \subseteq Whole(queue[f]) \cup {x.case}
        /\ x.case \in Whole(queue'[f])
    BY <1>2, <1>5, <1>6, AppendedWhole
  <2>2. Cases(p.input) = Cases(rest) \cup {x.case}
    BY DEF Cases, rest, p
  <2>3. CASE rest = {}
    BY <1>2, <1>3, <1>8, <1>9, <1>10, <2>3 DEF Kept, p
  <2>4. CASE rest # {}
    <3>1. resume'[f] = resume[f] /\ proc'[f].pc = "pivot" /\ proc'[f].in_place_resume = p.in_place_resume
          /\ proc'[f].input = rest /\ session'[f] = session[f]
      BY <1>2, <1>8, <1>9, <1>10, <2>4 DEF Proc
    <3> QED
      BY <1>2, <1>3, <2>1, <2>2, <3>1 DEF Kept, p
  <2> QED
    BY <2>3, <2>4
<1>19. \A g \in Fuzzers \ {f} : Looked(f, g)'
  BY <1>8, <1>10, <1>11, <1>12, SelfLooked
<1> QED
  BY <1>11, <1>12, <1>13, <1>14, <1>15, <1>16, <1>17, <1>18, <1>19 DEF Good, Own

\* A file created in the queue of f.
LEMMA Created ==
  ASSUME IInv, NEW f \in Fuzzers, NEW c \in Case, NEW p \in Proc, Create(f, c, p)
  PROVE  /\ queue' \in [Fuzzers -> Seq(File)] /\ proc' \in [Fuzzers -> Proc]
         /\ \A h \in Fuzzers \ {f} : queue'[h] = queue[h] /\ proc'[h] = proc[h]
         /\ Len(queue[f]) < MaxFiles /\ Len(queue'[f]) = Len(queue[f]) + 1
         /\ \A i \in 1..Len(queue[f]) : queue'[f][i] = queue[f][i]
         /\ Whole(queue[f]) \subseteq Whole(queue'[f])
         /\ proc'[f].file = Len(queue'[f])
         /\ proc'[f].pc = p.pc /\ proc'[f].is_main_node = p.is_main_node
         /\ proc'[f].todo = p.todo /\ proc'[f].from = p.from
         /\ proc'[f].list = p.list /\ proc'[f].next = p.next
<1> DEFINE x == [case |-> c, st |-> "empty"]
           new == [p EXCEPT !.file = Len(queue[f]) + 1]
<1>1. x \in File
  BY DEF File, State
<1>2. queue[f] \in Seq(File) /\ Len(queue[f]) \in Nat
  BY Have
<1>3. /\ Len(queue[f]) < MaxFiles /\ queue' = [queue EXCEPT ![f] = Append(@, x)]
      /\ proc' = [proc EXCEPT ![f] = new]
  BY DEF Create
<1>4. /\ new \in Proc /\ new.file = Len(queue[f]) + 1
      /\ new.pc = p.pc /\ new.is_main_node = p.is_main_node
      /\ new.todo = p.todo /\ new.from = p.from /\ new.list = p.list /\ new.next = p.next
  BY <1>2 DEF Proc
<1>5. /\ Append(queue[f], x) \in Seq(File) /\ Len(Append(queue[f], x)) = Len(queue[f]) + 1
      /\ \A i \in 1..Len(queue[f]) : Append(queue[f], x)[i] = queue[f][i]
      /\ Whole(queue[f]) \subseteq Whole(Append(queue[f], x))
  BY <1>1, <1>2, Appended, AppendedWhole
<1> HIDE DEF x, new
<1>6. /\ queue' \in [Fuzzers -> Seq(File)] /\ queue'[f] = Append(queue[f], x)
      /\ \A h \in Fuzzers \ {f} : queue'[h] = queue[h]
  BY <1>3, <1>5 DEF IInv, Types, DiskTypes
<1>7. /\ proc' \in [Fuzzers -> Proc] /\ proc'[f] = new
      /\ \A h \in Fuzzers \ {f} : proc'[h] = proc[h]
  BY <1>3, <1>4 DEF IInv, Types
<1> QED
  BY <1>3, <1>4, <1>5, <1>6, <1>7 DEF new

\* A find adds a file at the end, above every counter.
LEMMA FindStep ==
  ASSUME IInv, NEW f \in Fuzzers, Find(f)
  PROVE  Good(f)
<1> DEFINE p == proc[f]
<1>1. /\ p \in Proc /\ queue[f] \in Seq(File) /\ Len(queue[f]) \in Nat /\ finds \in Nat
      /\ MaxFiles \in Nat /\ Disk(f) /\ Process(f) /\ Listed(f) /\ Marked(f) /\ Kept(f)
  BY Have
<1>2. /\ p.pc = "fuzz" /\ finds' = finds + 1 /\ finds' \in Case
      /\ resume' = resume /\ mark' = mark /\ synced' = synced /\ session' = session
      /\ passed' = passed
  BY <1>1, BoundsAssumption DEF Find, At, Case
<1>3. PICK c \in Case : Create(f, c, p)
  BY <1>2 DEF Find, Create
<1>4. /\ queue' \in [Fuzzers -> Seq(File)] /\ proc' \in [Fuzzers -> Proc]
      /\ \A h \in Fuzzers \ {f} : queue'[h] = queue[h] /\ proc'[h] = proc[h]
      /\ Len(queue[f]) < MaxFiles /\ Len(queue'[f]) = Len(queue[f]) + 1
      /\ \A i \in 1..Len(queue[f]) : queue'[f][i] = queue[f][i]
      /\ proc'[f].file = Len(queue'[f])
      /\ proc'[f].pc = p.pc /\ proc'[f].is_main_node = p.is_main_node
      /\ proc'[f].todo = p.todo /\ proc'[f].from = p.from
      /\ proc'[f].list = p.list /\ proc'[f].next = p.next
  BY <1>1, <1>2, <1>3, Created
<1> HIDE DEF p
<1>5. Types'
  BY <1>2, <1>4 DEF IInv, Types, DiskTypes
<1>6. Alone(f)
  BY <1>2, <1>4, StaysAlone
<1>7. Grows(f)
  BY <1>1, <1>2, <1>4 DEF Grows
<1>8. Disk(f)'
  BY <1>1, <1>2, <1>4 DEF Disk, p
<1>9. Process(f)' /\ Listed(f)'
  BY <1>1, <1>2, <1>4 DEF Process, Listed, p
<1>10. Marked(f)' /\ Kept(f)'
  BY <1>1, <1>2, <1>4 DEF Marked, Kept, Up, p
<1>11. \A g \in Fuzzers \ {f} : Looked(f, g)'
  BY <1>2, <1>4, <1>5, <1>6, SelfLooked
<1> QED
  BY <1>5, <1>6, <1>7, <1>8, <1>9, <1>10, <1>11 DEF Good, Own

\* A file whose state on disk changes.
Rewrite(dir, i, st) == [dir EXCEPT ![i].st = st]

\* A new state of one file changes no test case and no other file.
LEMMA Rewritten ==
  ASSUME NEW dir \in Seq(File), NEW i \in 1..Len(dir), NEW st \in State
  PROVE  /\ Rewrite(dir, i, st) \in Seq(File) /\ Len(Rewrite(dir, i, st)) = Len(dir)
         /\ \A j \in 1..Len(dir) : /\ Rewrite(dir, i, st)[j].case = dir[j].case
                                   /\ j # i => Rewrite(dir, i, st)[j] = dir[j]
         /\ Rewrite(dir, i, st)[i].st = st
<1>1. dir[i] \in File /\ DOMAIN dir = 1..Len(dir) /\ Len(dir) \in Nat
  OBVIOUS
<1> DEFINE x == [dir[i] EXCEPT !.st = st]
<1>2. x \in File /\ x.st = st /\ x.case = dir[i].case
  BY <1>1 DEF File
<1> HIDE DEF x
<1>3. Rewrite(dir, i, st) = [dir EXCEPT ![i] = x]
  BY DEF x, Rewrite
<1>4. [dir EXCEPT ![i] = x] \in Seq(File) /\ Len([dir EXCEPT ![i] = x]) = Len(dir)
  BY <1>1, <1>2, ExceptSeq
<1> QED
  BY <1>1, <1>2, <1>3, <1>4

\* The steps that write an existing file, except for what f does next.
LEMMA Written ==
  ASSUME IInv, NEW f \in Fuzzers, NEW i \in 1..Len(queue[f]), NEW st \in State, NEW file \in Nat,
         proc[f].pc \in {"fuzz", "read"}, file <= Len(queue[f]),
         queue' = [queue EXCEPT ![f][i].st = st], proc' = [proc EXCEPT ![f].file = file],
         UNCHANGED <<resume, mark, synced, session, passed, finds>>
  PROVE  Good(f)
<1> DEFINE p == proc[f]
           new == Rewrite(queue[f], i, st)
<1>1. /\ p \in Proc /\ queue[f] \in Seq(File) /\ Len(queue[f]) \in Nat
      /\ Disk(f) /\ Process(f) /\ Listed(f) /\ Marked(f) /\ Kept(f)
  BY Have
<1>2. /\ new \in Seq(File) /\ Len(new) = Len(queue[f])
      /\ \A j \in 1..Len(queue[f]) : new[j].case = queue[f][j].case
  BY <1>1, Rewritten
<1>3. queue' = [queue EXCEPT ![f] = new]
  BY DEF Rewrite
<1> HIDE DEF new
<1>4. /\ queue' \in [Fuzzers -> Seq(File)] /\ queue'[f] = new
      /\ \A h \in Fuzzers \ {f} : queue'[h] = queue[h]
  BY <1>2, <1>3 DEF IInv, Types, DiskTypes
<1>5. /\ proc' \in [Fuzzers -> Proc] /\ proc'[f] = [p EXCEPT !.file = file]
      /\ \A h \in Fuzzers \ {f} : proc'[h] = proc[h]
  <2>1. [p EXCEPT !.file = file] \in Proc
    BY <1>1 DEF Proc
  <2>2. proc' = [proc EXCEPT ![f] = [p EXCEPT !.file = file]]
    OBVIOUS
  <2> QED
    BY <2>1, <2>2 DEF IInv, Types
<1>6. /\ proc'[f].file = file /\ proc'[f].pc = p.pc /\ proc'[f].is_main_node = p.is_main_node
      /\ proc'[f].todo = p.todo /\ proc'[f].from = p.from
      /\ proc'[f].list = p.list /\ proc'[f].next = p.next
  BY <1>1, <1>5 DEF Proc
<1> HIDE DEF p
<1>7. Types'
  BY <1>4, <1>5 DEF IInv, Types, DiskTypes
<1>8. Alone(f)
  BY <1>4, <1>5, StaysAlone
<1>9. Grows(f)
  BY <1>1, <1>2, <1>4 DEF Grows
<1>10. Disk(f)'
  BY <1>1, <1>2, <1>4, <1>6 DEF Disk, p
<1>11. Process(f)' /\ Listed(f)'
  BY <1>1, <1>2, <1>4, <1>6 DEF Process, Listed, p
<1>12. Marked(f)' /\ Kept(f)'
  BY <1>1, <1>6 DEF Marked, Kept, Up, p
<1>13. \A g \in Fuzzers \ {f} : Looked(f, g)'
  BY <1>6, <1>7, <1>8, SelfLooked DEF p
<1> QED
  BY <1>7, <1>8, <1>9, <1>10, <1>11, <1>12, <1>13 DEF Good, Own

\* Trimming takes away a file and keeps its name.
LEMMA TrimUnlinkStep ==
  ASSUME IInv, NEW f \in Fuzzers, NEW i \in 1..MaxFiles, TrimUnlink(f, i)
  PROVE  Good(f)
<1>1. i \in 1..Len(queue[f]) /\ Len(queue[f]) \in Nat
  BY Have DEF TrimUnlink
<1>2. proc[f].pc = "fuzz" /\ i <= Len(queue[f]) /\ i \in Nat
  BY <1>1 DEF TrimUnlink, At
<1>3. "absent" \in State
  BY DEF State
<1> QED
  BY <1>1, <1>2, <1>3, Written DEF TrimUnlink

\* Writing a file keeps its name.
LEMMA WriteFileStep ==
  ASSUME IInv, NEW f \in Fuzzers, WriteFile(f)
  PROVE  Good(f)
<1> DEFINE i == proc[f].file
           st == IF queue[f][i].st = "absent" THEN "empty" ELSE "full"
           file == IF queue[f][i].st = "absent" THEN i ELSE 0
<1>1. i \in 1..Len(queue[f]) /\ proc[f].pc \in {"fuzz", "read"} /\ Len(queue[f]) \in Nat
  BY Have DEF WriteFile, Process
<1>2. st \in State /\ file \in Nat /\ file <= Len(queue[f])
  BY <1>1 DEF State
<1>3. /\ queue' = [queue EXCEPT ![f][i].st = st] /\ proc' = [proc EXCEPT ![f].file = file]
      /\ UNCHANGED <<resume, mark, synced, session, passed, finds>>
  BY DEF WriteFile, bounds
<1> HIDE DEF i, st, file
<1> QED
  BY <1>1, <1>2, <1>3, Written

----------------------------------------------------------------------------
(* sync_fuzzers                                                            *)

\* What a scan may make of its locals.
Locals(f, p) ==
  /\ p.pc \notin {"pivot", "down"} /\ (proc[f].file # 0 => p.pc \in {"fuzz", "read"})
  /\ p.file = proc[f].file
  /\ p.todo \subseteq Fuzzers \ {f} /\ p.from \subseteq Fuzzers \ {f}
  /\ \A g \in p.todo \cup p.from : session[g] # "none"
  /\ p.next <= MaxFiles
  /\ \A x \in p.list : p.next <= x.id /\ x.id < MaxFiles
  /\ \A x, y \in p.list : x.id = y.id => x = y

\* A step of a scan that saves nothing: all but what f has seen then.
LEMMA Scan ==
  ASSUME IInv, NEW f \in Fuzzers, NEW p \in Proc, Locals(f, p), proc' = [proc EXCEPT ![f] = p],
         proc[f].pc \notin {"pivot", "down"},
         UNCHANGED <<queue, resume, session, finds>>,
         mark' \in [Fuzzers -> BOOLEAN], \A h \in Fuzzers \ {f} : mark'[h] = mark[h],
         p.pc = "demote" => ~p.is_main_node,
         session[f] = "first" /\ p.pc # "demote" => mark'[f] = p.is_main_node,
         passed' \in [Fuzzers -> SUBSET Case], \A h \in Fuzzers \ {f} : passed'[h] = passed[h],
         synced' \in [Fuzzers -> [Fuzzers -> Nat]],
         \A h \in Fuzzers \ {f} : synced'[h] = synced[h],
         \A g \in Fuzzers : synced'[f][g] <= MaxFiles,
         \A g \in Fuzzers : session[g] = "none" => synced'[f][g] = 0
  PROVE  Types' /\ proc'[f] = p /\ Alone(f) /\ Grows(f) /\ Own(f)'
<1>1. /\ queue[f] \in Seq(File) /\ Len(queue[f]) \in Nat
      /\ Disk(f) /\ Process(f) /\ Listed(f) /\ Marked(f) /\ Kept(f)
  BY Have
<1>2. /\ proc' \in [Fuzzers -> Proc] /\ proc'[f] = p
      /\ \A h \in Fuzzers \ {f} : proc'[h] = proc[h]
  BY DEF IInv, Types
<1>3. Types'
  BY <1>2 DEF IInv, Types, DiskTypes
<1>4. Alone(f)
  BY <1>2 DEF Alone
<1>5. Grows(f)
  BY <1>1 DEF Grows
<1>6. Disk(f)'
  BY <1>1 DEF Disk
<1>7. Process(f)' /\ Listed(f)'
  BY <1>1, <1>2 DEF Process, Listed, Locals
<1>8. Marked(f)' /\ Kept(f)'
  BY <1>1, <1>2 DEF Marked, Kept, Up, Locals
<1> QED
  BY <1>2, <1>3, <1>4, <1>5, <1>6, <1>7, <1>8 DEF Own

\* The same when the step touches neither marks nor counters nor what was seen.
LEMMA QuietScan ==
  ASSUME IInv, NEW f \in Fuzzers, NEW p \in Proc, Locals(f, p), proc' = [proc EXCEPT ![f] = p],
         proc[f].pc \notin {"pivot", "down"},
         UNCHANGED <<queue, resume, session, finds, mark, passed, synced>>,
         p.pc = "demote" => ~p.is_main_node,
         session[f] = "first" /\ p.pc # "demote" => mark[f] = p.is_main_node,
         p.pc = "read" => proc[f].pc = "read" /\ p.from = proc[f].from
                          /\ p.list = proc[f].list /\ p.next = proc[f].next
  PROVE  Good(f)
<1>1. /\ mark \in [Fuzzers -> BOOLEAN] /\ passed \in [Fuzzers -> SUBSET Case]
      /\ synced \in [Fuzzers -> [Fuzzers -> Nat]]
  BY DEF IInv, Types, DiskTypes
<1>2. \A g \in Fuzzers : synced[f][g] <= MaxFiles /\ (session[g] = "none" => synced[f][g] = 0)
  BY Have DEF Disk
<1>3. Types' /\ proc'[f] = p /\ Alone(f) /\ Grows(f) /\ Own(f)'
  BY <1>1, <1>2, Scan
<1>4. \A g \in Fuzzers \ {f} : Looked(f, g)'
  BY <1>3, SelfLooked
<1> QED
  BY <1>3, <1>4 DEF Good

\* A scan begins with the others that have a directory.
LEMMA SyncBeginStep ==
  ASSUME IInv, NEW f \in Fuzzers, SyncBegin(f)
  PROVE  Good(f)
<1> DEFINE todo == {g \in Fuzzers \ {f} : session[g] # "none"}
           p == [proc[f] EXCEPT !.pc = "scan", !.found = FALSE, !.todo = todo]
<1>1. /\ proc[f] \in Proc /\ Disk(f) /\ Process(f) /\ Listed(f) /\ Marked(f)
  BY Have
<1>2. /\ p \in Proc /\ p.pc = "scan" /\ p.file = proc[f].file /\ p.todo = todo
      /\ p.from = proc[f].from /\ p.list = proc[f].list /\ p.next = proc[f].next
      /\ p.is_main_node = proc[f].is_main_node
  BY <1>1 DEF Proc
<1>3. proc' = [proc EXCEPT ![f] = p] /\ proc[f].pc = "fuzz" /\ proc[f].file = 0
  BY DEF SyncBegin, At
<1>4. UNCHANGED <<queue, resume, session, finds, mark, passed, synced>>
  BY DEF SyncBegin, files, bounds
<1> HIDE DEF p
<1>5. Locals(f, p)
  BY <1>1, <1>2, <1>3 DEF Locals, Process, Listed
<1>6. session[f] = "first" => mark[f] = p.is_main_node
  BY <1>1, <1>2, <1>3 DEF Marked, Up
<1> QED
  BY <1>2, <1>3, <1>4, <1>5, <1>6, QuietScan

\* The listing that a scan works on.
LEMMA NewFilesAre ==
  ASSUME NEW dir \in Seq(File), NEW next \in Nat
  PROVE  /\ NewFiles(dir, next) \subseteq Name
         /\ \A x \in NewFiles(dir, next) :
              /\ next <= x.id /\ x.id \in Nat /\ x.id < Len(dir) /\ x.case = dir[x.id + 1].case
              /\ \A i \in 1..Len(dir) :
                   next <= i - 1 /\ dir[i].st # "absent" =>
                     \E y \in NewFiles(dir, next) : y.id = i - 1
         /\ \A x, y \in NewFiles(dir, next) : x.id = y.id => x = y
<1> DEFINE all == Names(dir, {"empty", "full"})
           names == {x \in all : x.id >= next}
<1>1. /\ all \subseteq Name
      /\ \A x \in all : x.id + 1 \in 1..Len(dir) /\ x.case = dir[x.id + 1].case
      /\ \A i \in 1..Len(dir) :
           dir[i].st \in {"empty", "full"} => [id |-> i - 1, case |-> dir[i].case] \in all
      /\ \A x, y \in all : x.id = y.id => x = y
  BY NamesAre
<1>2. \A x \in all : x.id \in Nat
  BY <1>1 DEF Name
<1>3. Len(dir) \in Nat /\ \A i \in 1..Len(dir) : dir[i].st # "absent" => dir[i].st \in {"empty", "full"}
  <2>1. \A i \in 1..Len(dir) : dir[i] \in File
    OBVIOUS
  <2> QED
    BY <2>1 DEF File, State
<1> HIDE DEF all
<1>4. NewFiles(dir, next) = {x \in names : \E y \in names : y.id = next}
  BY DEF NewFiles, all
<1>5. NewFiles(dir, next) \subseteq names
  BY <1>4
<1>6. ASSUME NEW x \in NewFiles(dir, next), NEW i \in 1..Len(dir), next <= i - 1,
             dir[i].st # "absent"
      PROVE  \E y \in NewFiles(dir, next) : y.id = i - 1
  <2> DEFINE z == [id |-> i - 1, case |-> dir[i].case]
  <2>1. z.id = i - 1 /\ i - 1 \in Nat
    OBVIOUS
  <2>2. z \in all
    BY <1>1, <1>3, <1>6
  <2> HIDE DEF z
  <2>3. z \in names
    BY <1>6, <2>1, <2>2
  <2>4. z \in NewFiles(dir, next)
    BY <1>4, <1>6, <2>3
  <2> QED
    BY <2>1, <2>4
<1>7. \A x \in NewFiles(dir, next) :
        next <= x.id /\ x.id \in Nat /\ x.id < Len(dir) /\ x.case = dir[x.id + 1].case
  BY <1>1, <1>2, <1>3, <1>5
<1> QED
  BY <1>1, <1>5, <1>6, <1>7

\* A listing begins at the counter: every id below it has been looked at, and
\* what is missing from the listing is not there to be read.
LEMMA ListingStep ==
  ASSUME IInv, NEW f \in Fuzzers, NEW g \in Fuzzers \ {f}, session[g] # "none",
         NEW p \in Proc, proc[f].pc \in {"scan", "demote"}, proc[f].file = 0, p.file = 0,
         p.todo \subseteq proc[f].todo, Listing(f, g, p),
         UNCHANGED <<queue, resume, session, finds, synced>>,
         mark' \in [Fuzzers -> BOOLEAN], \A h \in Fuzzers \ {f} : mark'[h] = mark[h],
         session[f] = "first" => mark'[f] = p.is_main_node
  PROVE  Good(f)
<1> DEFINE dir == queue[g]
           next == synced[f][g]
           list == NewFiles(dir, next)
           gone == {x.case : x \in {y \in Range(dir) : y.st = "absent"}}
           q == [p EXCEPT !.pc = "read", !.from = {g}, !.list = list, !.next = next]
           new == IF list = {} THEN Scanning(p, TRUE) ELSE q
<1>1. /\ dir \in Seq(File) /\ next \in Nat /\ Len(dir) \in Nat /\ DOMAIN dir = 1..Len(dir)
      /\ MaxFiles \in Nat /\ Len(dir) <= MaxFiles /\ next <= MaxFiles
  <2>1. next \in Nat
    BY DEF IInv, Types, DiskTypes
  <2> QED
    BY <2>1, Have DEF Disk
<1>2. /\ list \subseteq Name
      /\ \A x \in list :
           /\ next <= x.id /\ x.id \in Nat /\ x.id < Len(dir) /\ x.case = dir[x.id + 1].case
           /\ \A i \in 1..Len(dir) :
                next <= i - 1 /\ dir[i].st # "absent" => \E y \in list : y.id = i - 1
      /\ \A x, y \in list : x.id = y.id => x = y
  BY <1>1, NewFilesAre
<1>3. gone \subseteq Case /\ \A i \in 1..Len(dir) : dir[i].st = "absent" => dir[i].case \in gone
  <2>1. \A i \in 1..Len(dir) : dir[i] \in File
    BY <1>1
  <2> QED
    BY <1>1, <2>1 DEF File, Range
<1>4. proc' = [proc EXCEPT ![f] = new] /\ passed' = [passed EXCEPT ![f] = @ \cup gone]
  BY DEF Listing
<1> HIDE DEF dir, next, list, gone
<1>5. /\ passed' \in [Fuzzers -> SUBSET Case] /\ passed'[f] = passed[f] \cup gone
      /\ \A h \in Fuzzers \ {f} : passed'[h] = passed[h]
  BY <1>3, <1>4 DEF IInv, Types
<1>6. CASE list = {}
  <2>1. new = Scanning(p, TRUE)
    BY <1>6
  <2>2. /\ new \in Proc /\ new.pc = "scan" /\ new.file = 0 /\ new.todo = p.todo /\ new.from = {}
        /\ new.list = {} /\ new.next = 0 /\ new.is_main_node = p.is_main_node
    BY <2>1 DEF Scanning, Proc
  <2> HIDE DEF new
  <2>3. Locals(f, new)
    BY <1>1, <2>2, Have DEF Locals, Process
  <2>4. \A h \in Fuzzers : synced[f][h] <= MaxFiles /\ (session[h] = "none" => synced[f][h] = 0)
    BY Have DEF Disk
  <2>5. synced' \in [Fuzzers -> [Fuzzers -> Nat]]
    BY DEF IInv, Types, DiskTypes
  <2>6. Types' /\ proc'[f] = new /\ Alone(f) /\ Grows(f) /\ Own(f)'
    BY <1>4, <1>5, <2>2, <2>3, <2>4, <2>5, Scan
  <2>7. \A h \in Fuzzers \ {f} : Looked(f, h)'
    BY <1>5, <2>2, <2>6, SelfLooked
  <2> QED
    BY <2>6, <2>7 DEF Good
<1>7. CASE list # {}
  <2>1. new = q
    BY <1>7
  <2>2. /\ new \in Proc /\ new.pc = "read" /\ new.file = 0 /\ new.todo = p.todo /\ new.from = {g}
        /\ new.list = list /\ new.next = next /\ new.is_main_node = p.is_main_node
    <3>1. list \in SUBSET Name /\ next \in Nat /\ {g} \in SUBSET Fuzzers
      BY <1>1, <1>2
    <3>2. q \in Proc
      BY <3>1 DEF Proc
    <3>3. /\ q.pc = "read" /\ q.file = 0 /\ q.todo = p.todo /\ q.from = {g}
          /\ q.list = list /\ q.next = next /\ q.is_main_node = p.is_main_node
      BY <3>1 DEF Proc
    <3> HIDE DEF new, q
    <3> QED
      BY <2>1, <3>2, <3>3
  <2> HIDE DEF new, q
  <2>3. Locals(f, new)
    <3>1. \A x \in list : next <= x.id /\ x.id < MaxFiles
      BY <1>1, <1>2
    <3>2. p.todo \subseteq Fuzzers \ {f} /\ \A h \in p.todo : session[h] # "none"
      BY Have DEF Process
    <3> QED
      BY <1>1, <1>2, <2>2, <3>1, <3>2 DEF Locals
  <2>4. \A h \in Fuzzers : synced[f][h] <= MaxFiles /\ (session[h] = "none" => synced[f][h] = 0)
    BY Have DEF Disk
  <2>5. synced' \in [Fuzzers -> [Fuzzers -> Nat]]
    BY DEF IInv, Types, DiskTypes
  <2>6. Types' /\ proc'[f] = new /\ Alone(f) /\ Grows(f) /\ Own(f)'
    BY <1>4, <1>5, <2>2, <2>3, <2>4, <2>5, Scan
  <2>7. ASSUME NEW h \in Fuzzers \ {f}, session'[h] = "first" PROVE Looked(f, h)'
    <3>1. Looked(f, h) /\ session[h] = "first" /\ queue'[h] = queue[h] /\ synced'[f] = synced[f]
      BY <2>7 DEF IInv, Looks
    <3>2. synced'[f][h] <= Len(queue'[h]) /\ Covered(f, h)'
      BY <3>1, <1>5 DEF Looked, Covered
    <3>3. ASSUME h = g PROVE Scanned(f, h)'
      <4>1. next <= Len(dir) /\ \A i \in 1..Len(dir) : i - 1 < next => dir[i].case \in passed[f]
        BY <3>1, <3>3 DEF Looked, Covered, dir, next
      <4>2. ASSUME NEW x \in list
            PROVE  /\ x.id < Len(dir) /\ dir[x.id + 1].case = x.case
                   /\ \A i \in 1..Len(dir) :
                        i - 1 < x.id => dir[i].case \in passed'[f] \/ \E y \in list : y.id = i - 1
        <5>1. ASSUME NEW i \in 1..Len(dir)
              PROVE  dir[i].case \in passed'[f] \/ \E y \in list : y.id = i - 1
          <6>1. CASE i - 1 < next
            BY <6>1, <4>1, <1>5
          <6>2. CASE dir[i].st = "absent"
            BY <6>2, <1>3, <1>5
          <6>3. CASE next <= i - 1 /\ dir[i].st # "absent"
            BY <6>3, <1>2
          <6> QED
            BY <6>1, <6>2, <6>3, <1>1
        <5> QED
          BY <5>1, <1>2
      <4>3. queue'[h] = dir
        BY <3>1, <3>3 DEF dir
      <4> QED
        BY <4>1, <4>2, <4>3, <2>2, <2>6, <1>5 DEF Scanned
    <3> QED
      BY <3>2, <3>3, <2>2, <2>6 DEF Looked
  <2>8. \A h \in Fuzzers \ {f} : Looked(f, h)'
    BY <2>7 DEF Looked
  <2> QED
    BY <2>6, <2>8 DEF Good
<1> QED
  BY <1>6, <1>7

\* The next directory is skipped, listed, or makes f step down.
LEMMA SyncVisitStep ==
  ASSUME IInv, NEW f \in Fuzzers, NEW g \in Fuzzers, SyncVisit(f, g)
  PROVE  Good(f)
<1> DEFINE p == [proc[f] EXCEPT !.todo = @ \ {g}]
           q == [p EXCEPT !.is_main_node = FALSE, !.pc = "demote", !.from = {g}]
<1>1. /\ proc[f] \in Proc /\ Disk(f) /\ Process(f) /\ Listed(f) /\ Marked(f)
  BY Have
<1>2. /\ p \in Proc /\ p.pc = proc[f].pc /\ p.file = proc[f].file /\ p.todo = proc[f].todo \ {g}
      /\ p.from = proc[f].from /\ p.list = proc[f].list /\ p.next = proc[f].next
      /\ p.is_main_node = proc[f].is_main_node
  BY <1>1 DEF Proc
<1>3. /\ proc[f].pc = "scan" /\ proc[f].file = 0 /\ g \in proc[f].todo
      /\ UNCHANGED <<queue, resume, session, finds, synced, mark>>
  BY DEF SyncVisit, At, files, bounds
<1>4. g \in Fuzzers \ {f} /\ session[g] # "none"
  BY <1>1, <1>3 DEF Process
<1>5. session[f] = "first" => mark[f] = p.is_main_node
  BY <1>1, <1>2, <1>3 DEF Marked, Up
<1>6. CASE proc' = [proc EXCEPT ![f] = q] /\ UNCHANGED passed
  <2>1. /\ q \in Proc /\ q.pc = "demote" /\ q.file = p.file /\ q.todo = p.todo /\ q.from = {g}
        /\ q.list = p.list /\ q.next = p.next /\ q.is_main_node = FALSE
    BY <1>2 DEF Proc
  <2> HIDE DEF p, q
  <2>2. Locals(f, q)
    BY <1>1, <1>2, <1>3, <1>4, <2>1 DEF Locals, Process, Listed
  <2> QED
    BY <1>3, <1>6, <2>1, <2>2, QuietScan
<1>7. CASE proc' = [proc EXCEPT ![f] = p] /\ UNCHANGED passed
  <2> HIDE DEF p
  <2>1. Locals(f, p)
    BY <1>1, <1>2, <1>3 DEF Locals, Process, Listed
  <2> QED
    BY <1>2, <1>3, <1>5, <1>7, <2>1, QuietScan
<1>8. CASE Listing(f, g, p)
  <2> HIDE DEF p
  <2>1. mark' \in [Fuzzers -> BOOLEAN] /\ \A h \in Fuzzers \ {f} : mark'[h] = mark[h]
    BY <1>3 DEF IInv, Types, DiskTypes
  <2> QED
    BY <1>2, <1>3, <1>4, <1>5, <1>8, <2>1, ListingStep
<1> QED
  BY <1>6, <1>7, <1>8 DEF SyncVisit

\* Removing the mark makes it agree with the process again.
LEMMA SyncDemoteStep ==
  ASSUME IInv, NEW f \in Fuzzers, SyncDemote(f)
  PROVE  Good(f)
<1>1. /\ proc[f] \in Proc /\ Process(f) /\ Marked(f)
  BY Have
<1>2. /\ proc[f].pc = "demote" /\ proc[f].file = 0
      /\ UNCHANGED <<queue, resume, session, finds, synced>>
      /\ mark' = [mark EXCEPT ![f] = FALSE]
  BY DEF SyncDemote, At, Unmarked, bounds
<1>3. PICK g \in proc[f].from : Listing(f, g, proc[f])
  BY DEF SyncDemote
<1>4. g \in Fuzzers \ {f} /\ session[g] # "none"
  BY <1>1 DEF Process
<1>5. /\ mark' \in [Fuzzers -> BOOLEAN] /\ \A h \in Fuzzers \ {f} : mark'[h] = mark[h]
      /\ mark'[f] = FALSE
  BY <1>2 DEF IInv, Types, DiskTypes
<1>6. mark'[f] = proc[f].is_main_node
  <2>1. proc[f].is_main_node \in BOOLEAN /\ ~proc[f].is_main_node
    BY <1>1, <1>2 DEF Proc, Marked
  <2> QED
    BY <1>5, <2>1
<1> QED
  BY <1>1, <1>2, <1>3, <1>4, <1>5, <1>6, ListingStep

\* What f has seen of h when it has come by the next name of its listing.
LEMMA ReadOn ==
  ASSUME IInv, NEW f \in Fuzzers, proc[f].pc = "read", NEW x \in proc[f].list,
         \A y \in proc[f].list : x.id <= y.id,
         NEW h \in Fuzzers \ {f}, session'[h] = session[h], queue'[h] = queue[h],
         synced'[f] = synced[f], passed'[f] = passed[f] \cup {x.case},
         proc'[f].from = proc[f].from, proc'[f].list = proc[f].list \ {x},
         proc'[f].next = proc[f].next + 1
  PROVE  Looked(f, h)'
<1> DEFINE dir == queue[h]
           next == proc[f].next
           list == proc[f].list
<1>1. SUFFICES ASSUME session[h] = "first" PROVE Looked(f, h)'
  BY DEF Looked
<1>2. Looked(f, h) /\ Listed(f) /\ next \in Nat /\ list \in SUBSET Name /\ Len(dir) \in Nat
  BY Have DEF IInv, Looks
<1>3. synced'[f][h] <= Len(queue'[h]) /\ Covered(f, h)'
  BY <1>1, <1>2 DEF Looked, Covered
<1>4. x.id \in Nat /\ next <= x.id /\ \A y \in list : y.id \in Nat /\ (y.id = x.id => y = x)
  BY <1>2 DEF Listed, Name
<1>5. ASSUME h \in proc[f].from PROVE Scanned(f, h)'
  <2>1. Scanned(f, h)
    BY <1>1, <1>2, <1>5 DEF Looked
  <2>2. /\ next <= Len(dir)
        /\ \A i \in 1..Len(dir) : i - 1 < next => dir[i].case \in passed[f]
        /\ x.id < Len(dir) /\ dir[x.id + 1].case = x.case
        /\ \A i \in 1..Len(dir) :
             i - 1 < x.id => dir[i].case \in passed[f] \/ \E y \in list : y.id = i - 1
    BY <2>1 DEF Scanned
  <2>3. ASSUME NEW i \in 1..Len(dir), i - 1 < next + 1 PROVE dir[i].case \in passed'[f]
    <3>1. i - 1 <= x.id
      BY <2>3, <1>2, <1>4
    <3>2. CASE i - 1 = x.id
      <4>1. i = x.id + 1
        BY <3>2, <1>4
      <4> QED
        BY <2>2, <4>1
    <3>3. CASE i - 1 < x.id
      <4>1. ~ \E y \in list : y.id = i - 1
        BY <3>3, <1>4
      <4> QED
        BY <2>2, <3>3, <4>1
    <3> QED
      BY <3>1, <3>2, <3>3, <1>4
  <2>4. ASSUME NEW y \in list \ {x}
        PROVE  /\ y.id < Len(dir) /\ dir[y.id + 1].case = y.case
               /\ \A i \in 1..Len(dir) :
                    i - 1 < y.id => \/ dir[i].case \in passed'[f]
                                    \/ \E z \in list \ {x} : z.id = i - 1
    <3>1. /\ y.id < Len(dir) /\ dir[y.id + 1].case = y.case
          /\ \A i \in 1..Len(dir) :
               i - 1 < y.id => dir[i].case \in passed[f] \/ \E z \in list : z.id = i - 1
      BY <2>1 DEF Scanned
    <3>2. ASSUME NEW i \in 1..Len(dir), i - 1 = x.id PROVE dir[i].case \in passed'[f]
      BY <2>3, <3>2, <2>2, <1>4
    <3> QED
      BY <3>1, <3>2
  <2>5. next + 1 <= Len(dir)
    BY <2>2, <1>2, <1>4
  <2> QED
    BY <2>3, <2>4, <2>5 DEF Scanned
<1> QED
  BY <1>3, <1>5 DEF Looked

\* A name is struck off the listing only with its test case looked at; a saved
\* copy goes to the end of f's own queue.
LEMMA SyncFileStep ==
  ASSUME IInv, NEW f \in Fuzzers, SyncFile(f)
  PROVE  Good(f)
<1>1. PICK x \in proc[f].list, g \in proc[f].from :
        LET p == [proc[f] EXCEPT !.list = @ \ {x}, !.next = @ + 1]
            there == x.id + 1 \in DOMAIN queue[g] /\ queue[g][x.id + 1] = Full(x.case)
        IN  /\ At(f, "read") /\ \A y \in proc[f].list : x.id <= y.id
            /\ \/ /\ ~there
                  /\ proc' = [proc EXCEPT ![f] = p]
                  /\ passed' = [passed EXCEPT ![f] = @ \cup {x.case}]
                  /\ UNCHANGED queue
               \/ /\ there /\ proc[f].stop
                  /\ proc' = [proc EXCEPT ![f] = Scanning(p, TRUE)]
                  /\ UNCHANGED <<queue, passed>>
               \/ /\ there /\ ~proc[f].stop
                  /\ passed' = [passed EXCEPT ![f] = @ \cup {x.case}]
                  /\ \/ proc' = [proc EXCEPT ![f] = p] /\ UNCHANGED queue
                     \/ /\ \A y \in Range(queue[f]) : y.case # x.case
                        /\ Create(f, x.case, p)
            /\ UNCHANGED <<resume, mark, synced, session, bounds>>
  BY DEF SyncFile
<1> DEFINE p == [proc[f] EXCEPT !.list = @ \ {x}, !.next = @ + 1]
           q == Scanning(p, TRUE)
<1>2. /\ proc[f] \in Proc /\ proc[f].list \in SUBSET Name /\ proc[f].next \in Nat
      /\ MaxFiles \in Nat /\ Len(queue[f]) \in Nat
      /\ Disk(f) /\ Process(f) /\ Listed(f) /\ Marked(f) /\ Kept(f)
  BY Have
<1>3. /\ proc[f].pc = "read" /\ proc[f].file = 0 /\ \A y \in proc[f].list : x.id <= y.id
      /\ UNCHANGED <<resume, mark, synced, session, finds>>
  BY <1>1 DEF At, bounds
<1>4. \/ /\ proc' = [proc EXCEPT ![f] = p] /\ UNCHANGED queue
         /\ passed' = [passed EXCEPT ![f] = @ \cup {x.case}]
      \/ proc' = [proc EXCEPT ![f] = q] /\ UNCHANGED <<queue, passed>>
      \/ Create(f, x.case, p) /\ passed' = [passed EXCEPT ![f] = @ \cup {x.case}]
  BY <1>1
<1>5. /\ p \in Proc /\ p.pc = "read" /\ p.file = 0 /\ p.todo = proc[f].todo
      /\ p.from = proc[f].from /\ p.list = proc[f].list \ {x} /\ p.next = proc[f].next + 1
      /\ p.is_main_node = proc[f].is_main_node
  <2>1. proc[f].list \ {x} \in SUBSET Name /\ proc[f].next + 1 \in Nat /\ proc[f] \in Proc
    BY <1>2
  <2>2. p \in Proc
    BY <2>1 DEF Proc
  <2>3. /\ p.pc = proc[f].pc /\ p.file = proc[f].file /\ p.todo = proc[f].todo
        /\ p.from = proc[f].from /\ p.list = proc[f].list \ {x} /\ p.next = proc[f].next + 1
        /\ p.is_main_node = proc[f].is_main_node
    BY <2>1 DEF Proc
  <2> HIDE DEF p
  <2> QED
    BY <1>3, <2>2, <2>3
<1>6. /\ q \in Proc /\ q.pc = "scan" /\ q.file = 0 /\ q.todo = p.todo /\ q.from = {}
      /\ q.list = {} /\ q.next = 0 /\ q.is_main_node = p.is_main_node
  <2> HIDE DEF p
  <2> QED
    BY <1>5 DEF Scanning, Proc
<1> HIDE DEF p, q
<1>7. x.id \in Nat /\ x.case \in Case /\ proc[f].next <= x.id /\ x.id < MaxFiles
  BY <1>2 DEF Name, Listed
<1>8. /\ p.next <= MaxFiles /\ \A y \in p.list : p.next <= y.id /\ y.id < MaxFiles
      /\ \A y, z \in p.list : y.id = z.id => y = z
  <2>1. ASSUME NEW y \in p.list PROVE p.next <= y.id /\ y.id < MaxFiles
    <3>1. y \in proc[f].list /\ y # x /\ y.id \in Nat
      BY <1>2, <1>5 DEF Name
    <3>2. x.id <= y.id /\ x.id # y.id /\ y.id < MaxFiles
      BY <1>2, <1>3, <3>1 DEF Listed
    <3> QED
      BY <1>2, <1>5, <1>7, <3>1, <3>2
  <2> QED
    BY <1>2, <1>5, <1>7, <2>1 DEF Listed
<1>9. Locals(f, p) /\ Locals(f, q)
  <2>1. /\ p.todo \subseteq Fuzzers \ {f} /\ p.from \subseteq Fuzzers \ {f}
        /\ \A h \in p.todo \cup p.from : session[h] # "none"
    BY <1>2, <1>5 DEF Process
  <2> QED
    BY <1>2, <1>3, <1>5, <1>6, <1>8, <2>1 DEF Locals
<1>10. session[f] = "first" => mark[f] = p.is_main_node
  BY <1>2, <1>3, <1>5 DEF Marked, Up
<1>11. ASSUME passed' = [passed EXCEPT ![f] = @ \cup {x.case}]
       PROVE  /\ passed' \in [Fuzzers -> SUBSET Case] /\ passed'[f] = passed[f] \cup {x.case}
              /\ \A h \in Fuzzers \ {f} : passed'[h] = passed[h]
  BY <1>7, <1>11 DEF IInv, Types
<1>12. CASE proc' = [proc EXCEPT ![f] = p] /\ UNCHANGED queue
            /\ passed' = [passed EXCEPT ![f] = @ \cup {x.case}]
  <2>1. /\ mark' \in [Fuzzers -> BOOLEAN] /\ synced' \in [Fuzzers -> [Fuzzers -> Nat]]
        /\ \A h \in Fuzzers \ {f} : mark'[h] = mark[h] /\ synced'[h] = synced[h]
    BY <1>3 DEF IInv, Types, DiskTypes
  <2>2. \A h \in Fuzzers : /\ synced'[f][h] <= MaxFiles
                           /\ session[h] = "none" => synced'[f][h] = 0
    BY <1>3, Have DEF Disk
  <2>3. Types' /\ proc'[f] = p /\ Alone(f) /\ Grows(f) /\ Own(f)'
    BY <1>3, <1>5, <1>9, <1>10, <1>11, <1>12, <2>1, <2>2, Scan
  <2>4. \A h \in Fuzzers \ {f} : Looked(f, h)'
    BY <1>3, <1>5, <1>11, <1>12, <2>3, ReadOn
  <2> QED
    BY <2>3, <2>4 DEF Good
<1>13. CASE proc' = [proc EXCEPT ![f] = q] /\ UNCHANGED <<queue, passed>>
  BY <1>3, <1>6, <1>9, <1>10, <1>13, QuietScan
<1>14. CASE Create(f, x.case, p) /\ passed' = [passed EXCEPT ![f] = @ \cup {x.case}]
  <2>1. /\ queue' \in [Fuzzers -> Seq(File)] /\ proc' \in [Fuzzers -> Proc]
        /\ \A h \in Fuzzers \ {f} : queue'[h] = queue[h] /\ proc'[h] = proc[h]
        /\ Len(queue[f]) < MaxFiles /\ Len(queue'[f]) = Len(queue[f]) + 1
        /\ \A i \in 1..Len(queue[f]) : queue'[f][i] = queue[f][i]
        /\ proc'[f].file = Len(queue'[f])
        /\ proc'[f].pc = p.pc /\ proc'[f].is_main_node = p.is_main_node
        /\ proc'[f].todo = p.todo /\ proc'[f].from = p.from
        /\ proc'[f].list = p.list /\ proc'[f].next = p.next
    BY <1>5, <1>7, <1>14, Created
  <2>2. Types'
    BY <1>3, <1>11, <1>14, <2>1 DEF IInv, Types, DiskTypes
  <2>3. Alone(f)
    BY <1>3, <1>11, <1>14, <2>1, StaysAlone
  <2>4. Grows(f)
    BY <1>2, <1>3, <2>1 DEF Grows
  <2>5. Disk(f)'
    BY <1>2, <1>3, <2>1 DEF Disk
  <2>6. Process(f)' /\ Listed(f)'
    BY <1>2, <1>3, <1>5, <1>8, <2>1 DEF Process, Listed
  <2>7. Marked(f)' /\ Kept(f)'
    BY <1>2, <1>3, <1>5, <1>10, <2>1 DEF Marked, Kept, Up
  <2>8. \A h \in Fuzzers \ {f} : Looked(f, h)'
    BY <1>3, <1>5, <1>11, <1>14, <2>1, ReadOn
  <2> QED
    BY <2>2, <2>3, <2>4, <2>5, <2>6, <2>7, <2>8 DEF Good, Own
<1> QED
  BY <1>4, <1>12, <1>13, <1>14

\* The number written to .synced/ covers only what has been looked at.
LEMMA SyncCounterStep ==
  ASSUME IInv, NEW f \in Fuzzers, SyncCounter(f)
  PROVE  Good(f)
<1> DEFINE p == Scanning(proc[f], TRUE)
           next == proc[f].next
<1>1. /\ proc[f] \in Proc /\ next \in Nat /\ MaxFiles \in Nat
      /\ Disk(f) /\ Process(f) /\ Listed(f) /\ Marked(f)
  BY Have
<1>2. /\ proc[f].pc = "read" /\ proc[f].file = 0 /\ proc[f].list = {}
      /\ proc' = [proc EXCEPT ![f] = p]
      /\ UNCHANGED <<queue, resume, mark, session, passed, finds>>
  BY DEF SyncCounter, At, bounds
<1>3. PICK g \in proc[f].from : synced' = [synced EXCEPT ![f][g] = next]
  BY DEF SyncCounter, Counted
<1>4. /\ p \in Proc /\ p.pc = "scan" /\ p.file = proc[f].file /\ p.todo = proc[f].todo
      /\ p.from = {} /\ p.list = {} /\ p.next = 0 /\ p.is_main_node = proc[f].is_main_node
  BY <1>1 DEF Scanning, Proc
<1> HIDE DEF p, next
<1>5. g \in Fuzzers \ {f} /\ session[g] # "none"
  BY <1>1 DEF Process
<1>6. /\ synced' \in [Fuzzers -> [Fuzzers -> Nat]] /\ synced'[f][g] = next
      /\ \A h \in Fuzzers \ {f} : synced'[h] = synced[h]
      /\ \A h \in Fuzzers \ {g} : synced'[f][h] = synced[f][h]
  BY <1>1, <1>3, <1>5 DEF IInv, Types, DiskTypes
<1>7. \A h \in Fuzzers : /\ synced'[f][h] <= MaxFiles
                         /\ session[h] = "none" => synced'[f][h] = 0
  <2>1. \A h \in Fuzzers : /\ synced[f][h] <= MaxFiles
                           /\ session[h] = "none" => synced[f][h] = 0
    BY Have DEF Disk
  <2>2. next <= MaxFiles
    BY <1>1 DEF Listed, next
  <2> QED
    BY <1>5, <1>6, <2>1, <2>2
<1>8. Locals(f, p)
  BY <1>1, <1>2, <1>4 DEF Locals, Process
<1>9. /\ mark' \in [Fuzzers -> BOOLEAN] /\ passed' \in [Fuzzers -> SUBSET Case]
      /\ \A h \in Fuzzers \ {f} : mark'[h] = mark[h] /\ passed'[h] = passed[h]
  BY <1>2 DEF IInv, Types, DiskTypes
<1>10. session[f] = "first" => mark'[f] = p.is_main_node
  BY <1>1, <1>2, <1>4 DEF Marked, Up
<1>11. Types' /\ proc'[f] = p /\ Alone(f) /\ Grows(f) /\ Own(f)'
  BY <1>2, <1>4, <1>6, <1>7, <1>8, <1>9, <1>10, Scan
<1>12. ASSUME NEW h \in Fuzzers \ {f}, session[h] = "first" PROVE Looked(f, h)'
  <2>1. Looked(f, h) /\ queue'[h] = queue[h] /\ passed'[f] = passed[f] /\ proc'[f].pc = "scan"
    BY <1>2, <1>4, <1>11 DEF IInv, Looks
  <2>2. CASE h # g
    <3>1. synced'[f][h] = synced[f][h]
      BY <1>6, <2>2
    <3> QED
      BY <1>12, <2>1, <3>1 DEF Looked, Covered
  <2>3. CASE h = g
    <3>1. Scanned(f, g)
      BY <1>2, <1>12, <2>1, <2>3 DEF Looked
    <3> QED
      BY <1>6, <2>1, <2>3, <3>1 DEF Scanned, Looked, Covered, next
  <2> QED
    BY <2>2, <2>3
<1>13. \A h \in Fuzzers \ {f} : Looked(f, h)'
  BY <1>2, <1>12 DEF Looked
<1> QED
  BY <1>11, <1>13 DEF Good

\* An election sets flag and mark together.
LEMMA SyncEndStep ==
  ASSUME IInv, NEW f \in Fuzzers, SyncEnd(f)
  PROVE  Good(f)
<1> DEFINE main == proc[f].is_main_node \/ Elects(f)
           p == [Idle EXCEPT !.is_main_node = main, !.is_secondary_node = Secondary(f),
                             !.stop = proc[f].stop]
<1>1. proc[f] \in Proc /\ MaxFiles \in Nat /\ Disk(f) /\ Marked(f)
  BY Have
<1>2. /\ proc[f].pc = "scan" /\ proc[f].file = 0
      /\ mark' = [mark EXCEPT ![f] = @ \/ Elects(f)] /\ proc' = [proc EXCEPT ![f] = p]
      /\ UNCHANGED <<queue, resume, synced, session, passed, finds>>
  BY DEF SyncEnd, At, bounds
<1>3. /\ Secondary(f) \in BOOLEAN /\ proc[f].stop \in BOOLEAN /\ proc[f].is_main_node \in BOOLEAN
  BY <1>1 DEF Proc, Secondary
<1>4. main \in BOOLEAN
  OBVIOUS
<1> HIDE DEF main
<1>5. /\ p \in Proc /\ p.pc = "fuzz" /\ p.file = 0 /\ p.todo = {} /\ p.from = {}
      /\ p.list = {} /\ p.next = 0 /\ p.is_main_node = main
  BY <1>3, <1>4 DEF Idle, Proc
<1> HIDE DEF p
<1>6. Locals(f, p)
  BY <1>1, <1>2, <1>5 DEF Locals
<1>7. /\ mark' \in [Fuzzers -> BOOLEAN] /\ mark'[f] = (mark[f] \/ Elects(f))
      /\ \A h \in Fuzzers \ {f} : mark'[h] = mark[h]
  BY <1>2 DEF IInv, Types, DiskTypes
<1>8. session[f] = "first" => mark'[f] = p.is_main_node
  BY <1>1, <1>2, <1>3, <1>5, <1>7 DEF Marked, Up, main
<1>9. /\ passed' \in [Fuzzers -> SUBSET Case] /\ synced' \in [Fuzzers -> [Fuzzers -> Nat]]
      /\ \A h \in Fuzzers \ {f} : passed'[h] = passed[h] /\ synced'[h] = synced[h]
  BY <1>2 DEF IInv, Types, DiskTypes
<1>10. \A h \in Fuzzers : /\ synced'[f][h] <= MaxFiles
                          /\ session[h] = "none" => synced'[f][h] = 0
  BY <1>2, Have DEF Disk
<1>11. Types' /\ proc'[f] = p /\ Alone(f) /\ Grows(f) /\ Own(f)'
  BY <1>2, <1>5, <1>6, <1>7, <1>8, <1>9, <1>10, Scan
<1>12. \A g \in Fuzzers \ {f} : Looked(f, g)'
  BY <1>2, <1>5, <1>11, SelfLooked
<1> QED
  BY <1>11, <1>12 DEF Good

----------------------------------------------------------------------------
(* Stop signals and kills                                                  *)

\* A stop signal only raises a flag.
LEMMA StopSignalStep ==
  ASSUME IInv, NEW f \in Fuzzers, StopSignal(f)
  PROVE  Good(f)
<1> DEFINE p == [proc[f] EXCEPT !.stop = TRUE]
<1>1. /\ proc[f] \in Proc /\ Len(queue[f]) \in Nat
      /\ Disk(f) /\ Process(f) /\ Listed(f) /\ Marked(f) /\ Kept(f)
  BY Have
<1>2. /\ proc' = [proc EXCEPT ![f] = p]
      /\ UNCHANGED <<queue, resume, mark, synced, session, passed, finds>>
  BY DEF StopSignal, files
<1>3. /\ p \in Proc /\ p.pc = proc[f].pc /\ p.file = proc[f].file /\ p.todo = proc[f].todo
      /\ p.from = proc[f].from /\ p.list = proc[f].list /\ p.next = proc[f].next
      /\ p.is_main_node = proc[f].is_main_node /\ p.input = proc[f].input
      /\ p.in_place_resume = proc[f].in_place_resume
  BY <1>1 DEF Proc
<1> HIDE DEF p
<1>4. /\ proc' \in [Fuzzers -> Proc] /\ proc'[f] = p
      /\ \A h \in Fuzzers \ {f} : proc'[h] = proc[h]
  BY <1>2, <1>3 DEF IInv, Types
<1>5. Types'
  BY <1>2, <1>4 DEF IInv, Types, DiskTypes
<1>6. Alone(f)
  BY <1>2, <1>4, StaysAlone
<1>7. Grows(f)
  BY <1>1, <1>2 DEF Grows
<1>8. Own(f)'
  BY <1>1, <1>2, <1>3, <1>4 DEF Own, Disk, Process, Listed, Marked, Kept, Up
<1>9. \A g \in Fuzzers \ {f} : Looked(f, g)'
  BY <1>2, <1>3, <1>4, <1>5, <1>6, SelfLooked
<1> QED
  BY <1>5, <1>6, <1>7, <1>8, <1>9 DEF Good

\* An exit and a kill leave the directories as they are, but for the mark.
LEMMA DownStep ==
  ASSUME IInv, NEW f \in Fuzzers, Exit(f) \/ Kill(f)
  PROVE  Good(f)
<1>1. /\ proc[f] \in Proc /\ Len(queue[f]) \in Nat /\ MaxFiles \in Nat
      /\ Disk(f) /\ Process(f) /\ Listed(f) /\ Marked(f) /\ Kept(f)
  BY Have
<1>2. /\ proc' = [proc EXCEPT ![f] = Down] /\ proc[f].pc # "down"
      /\ UNCHANGED <<queue, resume, synced, session, passed, finds>>
  BY DEF Exit, Kill, files, bounds, At, Up
<1>3. /\ mark' \in [Fuzzers -> BOOLEAN] /\ \A h \in Fuzzers \ {f} : mark'[h] = mark[h]
  BY DEF Exit, Kill, files, IInv, Types, DiskTypes
<1>4. /\ proc' \in [Fuzzers -> Proc] /\ proc'[f] = Down
      /\ \A h \in Fuzzers \ {f} : proc'[h] = proc[h]
  BY <1>2, IdleIs DEF IInv, Types
<1>5. Types'
  BY <1>2, <1>3, <1>4 DEF IInv, Types, DiskTypes
<1>6. Alone(f)
  BY <1>2, <1>3, <1>4, StaysAlone
<1>7. Grows(f)
  BY <1>1, <1>2 DEF Grows
<1>8. Own(f)'
  BY <1>1, <1>2, <1>4, IdleIs DEF Own, Disk, Process, Listed, Marked, Kept, Up
<1>9. \A g \in Fuzzers \ {f} : Looked(f, g)'
  BY <1>2, <1>4, <1>5, <1>6, SelfLooked, IdleIs
<1> QED
  BY <1>5, <1>6, <1>7, <1>8, <1>9 DEF Good

----------------------------------------------------------------------------
(* Theorems                                                                *)

\* Every step is a good step of one of the fuzzers.
LEMMA NextGood == IInv /\ Next => \E f \in Fuzzers : Good(f)
<1> SUFFICES ASSUME IInv, Next PROVE \E f \in Fuzzers : Good(f)
  OBVIOUS
<1>1. PICK f \in Fuzzers :
        \/ Step(f)
        \/ \E role \in Roles[f] : StartFresh(f, role) \/ StartResume(f, role)
        \/ Find(f) \/ StopSignal(f) \/ Kill(f)
        \/ \E i \in 1..MaxFiles : TrimUnlink(f, i)
  BY DEF Next
<1>2. CASE Step(f)
  BY <1>2, PivotStep, WriteFileStep, SyncBeginStep, SyncDemoteStep, SyncFileStep,
     SyncCounterStep, SyncEndStep, SyncVisitStep, DownStep DEF Step
<1>3. CASE \E role \in Roles[f] : StartFresh(f, role) \/ StartResume(f, role)
  BY <1>3, StartFreshStep, StartResumeStep
<1>4. CASE Find(f) \/ StopSignal(f) \/ Kill(f)
  BY <1>4, FindStep, StopSignalStep, DownStep
<1>5. CASE \E i \in 1..MaxFiles : TrimUnlink(f, i)
  BY <1>5, TrimUnlinkStep
<1> QED
  BY <1>1, <1>2, <1>3, <1>4, <1>5

\* The invariant is inductive.
LEMMA NextIInv == IInv /\ [Next]_vars => IInv'
<1>1. IInv /\ Next => IInv'
  BY NextGood, GoodKeeps
<1>2. IInv /\ UNCHANGED vars => IInv'
  BY DEF vars, files, bounds, IInv, Types, DiskTypes, Local, Looks, Own, Disk, Process, Listed,
         Marked, Kept, Looked, Covered, Scanned, Up
<1> QED
  BY <1>1, <1>2

\* The inductive invariant of the fuzzers and their directories.
THEOREM Invariance == Spec => []IInv
BY InitIInv, NextIInv, PTL DEF Spec

\* Counting names instead of reading ids is sound for a fuzzer in its first
\* session, however many fuzzers there are: sync_fuzzers never writes a counter
\* to .synced/ that is ahead of what was looked at.
THEOREM CounterIsSound == Spec => []LookedAt
<1>1. IInv => LookedAt
  BY DEF IInv, Looks, Looked, LookedAt
<1> QED
  BY <1>1, Invariance, PTL

\* Types, and the file is_main_node says who is main.
THEOREM MarkIsTrue == Spec => []MarkTrue
<1>1. ASSUME IInv PROVE TypeOK
  <2>1. /\ queue \in [Fuzzers -> Seq(File)] /\ resume \in [Fuzzers -> Seq(File)]
        /\ mark \in [Fuzzers -> BOOLEAN]
        /\ session \in [Fuzzers -> {"none", "first", "resumed", "again"}]
        /\ passed \in [Fuzzers -> SUBSET Case]
    BY <1>1 DEF IInv, Types, DiskTypes
  <2>2. synced \in [Fuzzers -> [Fuzzers -> 0..MaxFiles]]
    <3>1. synced \in [Fuzzers -> [Fuzzers -> Nat]]
      BY <1>1 DEF IInv, Types, DiskTypes
    <3>2. \A f, g \in Fuzzers : synced[f][g] <= MaxFiles /\ MaxFiles \in Nat
      BY <1>1, Have DEF Disk
    <3>3. \A f, g \in Fuzzers : synced[f][g] \in 0..MaxFiles
      BY <3>1, <3>2
    <3> QED
      BY <3>1, <3>3
  <2>3. ASSUME NEW f \in Fuzzers
        PROVE  /\ Len(queue[f]) <= MaxFiles
               /\ proc[f].pc \in {"down", "pivot", "fuzz", "scan", "demote", "read"}
               /\ proc[f].file \in 0..Len(queue[f]) /\ proc[f].next \in 0..MaxFiles
               /\ proc[f].todo \subseteq Fuzzers \ {f} /\ proc[f].from \subseteq Fuzzers \ {f}
    <3>1. /\ proc[f] \in Proc /\ proc[f].file \in Nat /\ proc[f].next \in Nat
          /\ Len(queue[f]) \in Nat /\ MaxFiles \in Nat /\ Disk(f) /\ Process(f) /\ Listed(f)
      BY <1>1, Have
    <3>2. proc[f].pc \in {"down", "pivot", "fuzz", "scan", "demote", "read"}
      BY <3>1 DEF Proc
    <3> QED
      BY <3>1, <3>2 DEF Disk, Process, Listed
  <2> QED
    BY <2>1, <2>2, <2>3 DEF TypeOK
<1>2. IInv => MarkTrue
  BY <1>1, Have DEF MarkTrue, Marked
<1> QED
  BY <1>2, Invariance, PTL

----------------------------------------------------------------------------
(* Nothing is lost                                                         *)

\* What f has lost in a step is being rewritten.
Keeps(f) ==
  session'[f] \in {"first", "resumed"} =>
    \A c \in (Whole(queue[f]) \cup Whole(resume[f])) \ (Whole(queue'[f]) \cup Whole(resume'[f])) :
      proc'[f].file # 0 /\ queue'[f][proc'[f].file].case = c

\* A start moves the files and loses none.
LEMMA StartKeeps ==
  ASSUME IInv, NEW f \in Fuzzers, NEW role \in Roles[f],
         StartFresh(f, role) \/ StartResume(f, role)
  PROVE  Keeps(f)
<1>1. CASE StartFresh(f, role)
  <2>1. session'[f] \in {"first", "resumed"} => session[f] = "none"
    BY <1>1 DEF StartFresh, IInv, Types, DiskTypes
  <2>2. session[f] = "none" => Whole(queue[f]) = {} /\ Whole(resume[f]) = {}
    BY Have DEF Disk, Whole
  <2> QED
    BY <2>1, <2>2 DEF Keeps
<1>2. CASE StartResume(f, role)
  <2>1. session'[f] \in {"first", "resumed"} => session[f] \in {"first", "resumed"}
    BY <1>2 DEF StartResume, IInv, Types, DiskTypes
  <2>2. resume'[f] = IF resume[f] = <<>> THEN queue[f] ELSE resume[f]
    BY <1>2 DEF StartResume, ResumeDir, IInv, Types, DiskTypes
  <2>3. CASE resume[f] = <<>>
    <3>1. Whole(resume[f]) = {}
      BY <2>3 DEF Whole
    <3> QED
      BY <2>2, <2>3, <3>1 DEF Keeps
  <2>4. CASE resume[f] # <<>>
    <3>1. session[f] \in {"first", "resumed"} => Whole(queue[f]) \subseteq Whole(resume[f])
      BY <2>4, Have DEF Kept
    <3> QED
      BY <2>1, <2>2, <2>4, <3>1 DEF Keeps
  <2> QED
    BY <2>3, <2>4
<1> QED
  BY <1>1, <1>2

\* The last input is linked before _resume/ is removed.
LEMMA PivotKeeps ==
  ASSUME IInv, NEW f \in Fuzzers, Pivot(f)
  PROVE  Keeps(f)
<1>1. PICK x \in proc[f].input :
        LET rest == proc[f].input \ {x}
        IN  /\ At(f, "pivot")
            /\ queue' = [queue EXCEPT ![f] = Append(@, Full(x.case))]
            /\ resume' = IF rest = {} /\ proc[f].in_place_resume
                         THEN [resume EXCEPT ![f] = <<>>] ELSE resume
            /\ session' = session
  BY DEF Pivot
<1>2. /\ queue[f] \in Seq(File) /\ proc[f].input \in SUBSET Name /\ Kept(f)
  BY Have
<1>3. Full(x.case) \in File /\ Full(x.case).st = "full" /\ Full(x.case).case = x.case
  <2>1. x.case \in Case
    BY <1>2 DEF Name
  <2> QED
    BY <2>1 DEF Full, File, State
<1>4. queue'[f] = Append(queue[f], Full(x.case))
  BY <1>1 DEF IInv, Types, DiskTypes
<1>5. Whole(queue[f]) \subseteq Whole(queue'[f]) /\ x.case \in Whole(queue'[f])
  BY <1>2, <1>3, <1>4, AppendedWhole
<1>6. CASE proc[f].input \ {x} = {} /\ proc[f].in_place_resume
  <2>1. Cases(proc[f].input) = {x.case}
    BY <1>6 DEF Cases
  <2>2. session[f] \in {"first", "resumed"} =>
          Whole(resume[f]) \subseteq Whole(queue[f]) \cup {x.case}
    BY <1>1, <1>2, <1>6, <2>1 DEF Kept, At
  <2> QED
    BY <1>1, <1>5, <2>2 DEF Keeps
<1>7. CASE ~(proc[f].input \ {x} = {} /\ proc[f].in_place_resume)
  <2>1. resume' = resume
    BY <1>1, <1>7
  <2> QED
    BY <1>5, <2>1 DEF Keeps
<1> QED
  BY <1>6, <1>7

\* Rewriting a file takes away nothing but that file.
LEMMA RewrittenWhole ==
  ASSUME NEW dir \in Seq(File), NEW i \in 1..Len(dir), NEW st \in State
  PROVE  /\ Whole(dir) \subseteq Whole(Rewrite(dir, i, st)) \cup {dir[i].case}
         /\ dir[i].st # "full" \/ st = "full" => Whole(dir) \subseteq Whole(Rewrite(dir, i, st))
<1> DEFINE new == Rewrite(dir, i, st)
<1>1. /\ new \in Seq(File) /\ Len(new) = Len(dir)
      /\ \A j \in 1..Len(dir) : new[j].case = dir[j].case /\ (j # i => new[j] = dir[j])
      /\ new[i].st = st
  BY Rewritten
<1>2. DOMAIN new = 1..Len(dir) /\ DOMAIN dir = 1..Len(dir)
  BY <1>1
<1> HIDE DEF new
<1>3. ASSUME NEW c \in Whole(dir)
      PROVE  /\ c \in Whole(new) \/ c = dir[i].case
             /\ dir[i].st # "full" \/ st = "full" => c \in Whole(new)
  <2>1. PICK j \in 1..Len(dir) : dir[j].st = "full" /\ c = dir[j].case
    BY <1>2 DEF Whole
  <2>2. new[j].st = "full" => c \in Whole(new)
    BY <1>1, <1>2, <2>1 DEF Whole
  <2>3. j # i => new[j].st = "full"
    BY <1>1, <2>1
  <2> QED
    BY <1>1, <2>1, <2>2, <2>3
<1> QED
  BY <1>3 DEF new

\* Only the file being written changes its state.
LEMMA FileKeeps ==
  ASSUME IInv, NEW f \in Fuzzers, WriteFile(f) \/ \E i \in 1..MaxFiles : TrimUnlink(f, i)
  PROVE  Keeps(f)
<1>1. queue[f] \in Seq(File) /\ Len(queue[f]) \in Nat /\ DOMAIN queue[f] = 1..Len(queue[f])
      /\ proc[f] \in Proc
  BY Have
<1>2. CASE WriteFile(f)
  <2> DEFINE i == proc[f].file
             st == IF queue[f][i].st = "absent" THEN "empty" ELSE "full"
  <2>1. i \in 1..Len(queue[f])
    BY <1>2, Have DEF WriteFile, Process
  <2>2. queue' = [queue EXCEPT ![f] = Rewrite(@, i, st)] /\ resume' = resume
    BY <1>2 DEF WriteFile, Rewrite
  <2>3. st \in State /\ (queue[f][i].st # "full" \/ st = "full")
    BY DEF State
  <2> HIDE DEF i, st
  <2>4. queue'[f] = Rewrite(queue[f], i, st)
    BY <2>2 DEF IInv, Types, DiskTypes
  <2>5. Whole(queue[f]) \subseteq Whole(queue'[f])
    BY <1>1, <2>1, <2>3, <2>4, RewrittenWhole
  <2> QED
    BY <2>2, <2>5 DEF Keeps
<1>3. ASSUME NEW i \in 1..MaxFiles, TrimUnlink(f, i) PROVE Keeps(f)
  <2>1. i \in 1..Len(queue[f]) /\ "absent" \in State
    BY <1>1, <1>3 DEF TrimUnlink, State
  <2>2. /\ queue' = [queue EXCEPT ![f] = Rewrite(@, i, "absent")] /\ resume' = resume
        /\ proc' = [proc EXCEPT ![f].file = i]
    BY <1>3 DEF TrimUnlink, Rewrite
  <2>3. queue'[f] = Rewrite(queue[f], i, "absent")
    BY <2>2 DEF IInv, Types, DiskTypes
  <2>4. proc'[f].file = i
    BY <1>1, <2>2 DEF IInv, Types, Proc
  <2>5. Whole(queue[f]) \subseteq Whole(queue'[f]) \cup {queue[f][i].case}
    BY <1>1, <2>1, <2>3, RewrittenWhole
  <2>6. queue'[f][i].case = queue[f][i].case
    BY <1>1, <2>1, <2>3, Rewritten
  <2> QED
    BY <2>1, <2>2, <2>4, <2>5, <2>6 DEF Keeps
<1> QED
  BY <1>2, <1>3

\* A step that only adds files.
LEMMA CreateKeeps ==
  ASSUME IInv, NEW f \in Fuzzers, Find(f) \/ SyncFile(f)
  PROVE  Keeps(f)
<1>1. resume' = resume
  BY DEF Find, SyncFile
<1>2. proc[f] \in Proc /\ proc[f].list \in SUBSET Name /\ finds \in Nat
      /\ proc[f].next \in Nat
  BY Have
<1>3. Whole(queue[f]) \subseteq Whole(queue'[f])
  <2>1. CASE Find(f)
    <3>1. finds' \in Case
      BY <1>2, <2>1, BoundsAssumption DEF Find, Case
    <3>2. PICK c \in Case : Create(f, c, proc[f])
      BY <2>1, <3>1 DEF Find, Create
    <3> QED
      BY <1>2, <3>2, Created
  <2>2. CASE SyncFile(f)
    <3>1. PICK x \in proc[f].list :
            \/ queue' = queue
            \/ Create(f, x.case, [proc[f] EXCEPT !.list = @ \ {x}, !.next = @ + 1])
      BY <2>2 DEF SyncFile
    <3> DEFINE p == [proc[f] EXCEPT !.list = @ \ {x}, !.next = @ + 1]
    <3>2. x.case \in Case
      BY <1>2 DEF Name
    <3>3. p \in Proc
      <4>1. proc[f].list \ {x} \in SUBSET Name /\ proc[f].next + 1 \in Nat
        BY <1>2
      <4> QED
        BY <1>2, <4>1 DEF Proc
    <3>4. queue' = queue \/ Create(f, x.case, p)
      BY <3>1
    <3> HIDE DEF p
    <3>5. CASE Create(f, x.case, p)
      BY <3>2, <3>3, <3>5, Created
    <3> QED
      BY <3>4, <3>5
  <2> QED
    BY <2>1, <2>2
<1> QED
  BY <1>1, <1>3 DEF Keeps

\* The other steps touch neither directory.
LEMMA OtherKeeps ==
  ASSUME NEW f \in Fuzzers, queue' = queue, resume' = resume
  PROVE  Keeps(f)
BY DEF Keeps

\* A resume that is stopped or killed, and the one after that, loses no file,
\* however many fuzzers there are and however often it happens.
THEOREM ResumeKeepsAll == Spec => NothingLost
<1> DEFINE A == \A f \in Fuzzers : session'[f] \in {"first", "resumed"} =>
                  \A c \in OnDisk(f) \ OnDisk(f)' :
                    proc'[f].file # 0 /\ queue'[f][proc'[f].file].case = c
<1>1. ASSUME IInv, Next PROVE A
  <2>1. PICK f \in Fuzzers :
          \/ Step(f)
          \/ \E role \in Roles[f] : StartFresh(f, role) \/ StartResume(f, role)
          \/ Find(f) \/ StopSignal(f) \/ Kill(f)
          \/ \E i \in 1..MaxFiles : TrimUnlink(f, i)
    BY <1>1 DEF Next
  <2>2. CASE Pivot(f) \/ WriteFile(f) \/ Find(f) \/ SyncFile(f)
             \/ (\E i \in 1..MaxFiles : TrimUnlink(f, i))
             \/ \E role \in Roles[f] : StartFresh(f, role) \/ StartResume(f, role)
    <3>1. Keeps(f)
      BY <1>1, <2>2, PivotKeeps, FileKeeps, CreateKeeps, StartKeeps
    <3>2. Good(f)
      BY <1>1, <2>2, PivotStep, WriteFileStep, FindStep, SyncFileStep, TrimUnlinkStep,
         StartFreshStep, StartResumeStep
    <3>3. \A h \in Fuzzers \ {f} : queue'[h] = queue[h] /\ resume'[h] = resume[h]
      BY <3>2 DEF Good, Alone
    <3>4. \A h \in Fuzzers : Keeps(h)
      BY <3>1, <3>3 DEF Keeps
    <3>5. \A h \in Fuzzers : /\ OnDisk(h) = Whole(queue[h]) \cup Whole(resume[h])
                             /\ OnDisk(h)' = Whole(queue'[h]) \cup Whole(resume'[h])
      BY DEF OnDisk, Whole, Range
    <3> QED
      BY <3>4, <3>5 DEF Keeps
  <2>3. CASE SyncBegin(f) \/ SyncDemote(f) \/ SyncCounter(f) \/ SyncEnd(f) \/ Exit(f)
             \/ StopSignal(f) \/ Kill(f) \/ \E g \in Fuzzers : SyncVisit(f, g)
    <3>1. queue' = queue /\ resume' = resume
      BY <2>3 DEF SyncBegin, SyncDemote, SyncCounter, SyncEnd, Exit, StopSignal, Kill, SyncVisit,
                  files
    <3>2. \A h \in Fuzzers : OnDisk(h)' = OnDisk(h)
      BY <3>1 DEF OnDisk
    <3> QED
      BY <3>2
  <2> QED
    BY <2>1, <2>2, <2>3 DEF Step
<1>2. IInv /\ [Next]_vars => [A]_vars
  BY <1>1
<1> QED
  BY <1>2, Invariance, PTL DEF Spec, NothingLost

=============================================================================
