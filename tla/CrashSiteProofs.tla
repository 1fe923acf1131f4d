-------------------------- MODULE CrashSiteProofs ---------------------------
(***************************************************************************)
(* Proofs about the crash site: the scan of the call-stack file finds the  *)
(* innermost known frame below every blocked one, for stacks of any depth, *)
(* and the queue keeps to the site of the matrix.                          *)
(***************************************************************************)
EXTENDS CrashSite, FiniteSums, SequenceTheorems

Lines == Frames \cup {NULL}

\* The lines up to n at which the site may be: known, and below every blocked
\* frame so far.
Below(lines, n) ==
  {i \in 1..n : /\ lines[i] \in SiteFrames
                /\ \A j \in 1..n : lines[j] \in BlockedFrames => j < i}

Scanned(lines, n) == IF Below(lines, n) = {} THEN NULL ELSE lines[Min(Below(lines, n))]

\* h is what the scan computes, line after line.
Scans(h, lines) ==
  h = [n \in 0..Len(lines) |-> IF n = 0 THEN NULL ELSE Found(lines[n], h[n - 1])]

\* The entry at work: seeds come one after the other, then the entry after the
\* last of the queue, which becomes the last when it is queued.
Resting == pc \in {"idle", "ended"}

Place ==
  /\ caller = "matrix" => cur = 1 /\ pc \in {"cal", "ret"}
  /\ caller \in {"matrix", "seed"} => queued_items = Seeds /\ pc # "drop" /\ (~Resting => cur <= Seeds)
  /\ caller = "entry" => pc # "drop" /\ (~Resting => cur = queued_items)
  /\ caller = "input" => pc # "cal" /\ (~Resting => cur = queued_items + 1)
  /\ caller = "input" /\ pc = "ret" => fault = "CRASH"
  /\ ~Resting => cur \in Ids
  /\ pc = "cmp" => crash_mode_lv3
  /\ pc = "back" /\ caller = "seed" /\ ~same => cur \in disabled

Live(h) == {b \in Blocks : h[b] # NULL}

\* The fields c read, through the heap, as the site at their offset.
Holds(c, h) ==
  /\ c.module = NULL <=> c.offset = NULL
  /\ c.module # NULL => h[c.module] = target_path
  /\ c.symbol = NULL <=> SymbolOf(c.offset) = NULL
  /\ c.symbol # NULL => h[c.symbol] = SymbolOf(c.offset)

Distinct(c) == c.symbol = NULL \/ c.symbol # c.module

\* What the fields and tmp hold is theirs alone, and nobody holds another block.
Owned ==
  /\ Distinct(crash) /\ Distinct(tmp) /\ Ptrs(crash) \cap Ptrs(tmp) = {}
  /\ pc # "cmp" => tmp = NoSite
  /\ pc = "ended" => Live(heap) = {}
  /\ pc # "ended" => /\ Live(heap) = Ptrs(crash) \cup Ptrs(tmp)
                     /\ Holds(crash, heap) /\ Holds(tmp, heap)

\* The site of the matrix: nothing before its birth, then in the fields, or in
\* tmp while same_crash_site compares.
AtMatrix ==
  /\ caller = "matrix" => crash = NoSite
  /\ crash_mode_lv3 /\ caller # "matrix" => (IF pc = "cmp" THEN tmp ELSE crash).offset = matrix

\* The file holds a stack that a run of the entry at work wrote: after a crash
\* that was reported, and until the end of the calibration of a new entry.  The
\* site found in it is one of the entry at work.
OwnFile ==
  always_reports =>
    /\ \/ pc = "ret" /\ fault = "CRASH"
       \/ caller = "input" /\ pc \in {"ret", "cmp", "back"}
       \/ caller = "entry" /\ pc \in {"cal", "ret"}
       => SiteOf(file) \in ran[cur]
    /\ cur \notin disabled /\ (pc = "cmp" \/ (pc = "back" /\ same))
       => crash.offset \in ran[cur]

\* Whether entry q is through, and whether its detail is written.
Through(q) == IF Resting THEN q <= queued_items ELSE q < cur
Detailed(q) == Through(q) \/ (q = cur /\ pc = "back" /\ caller # "input" /\ ~same)

Texts == {LineOf(f) : f \in Sited}

\* DetailOwn and QueueAtMatrixSite for the entries that are through, or, for
\* the site, queued.
Details ==
  /\ detail \in [Ids -> Seq(Texts)]
  /\ \A q \in Ids :
       /\ Detailed(q) => Len(detail[q]) = 1
       /\ ~Detailed(q) => detail[q] = <<>>
       /\ Detailed(q) /\ always_reports /\ q \notin disabled
            => detail[q][1] \in {LineOf(f) : f \in ran[q]}

Sites ==
  crash_mode_lv3 /\ always_reports =>
    \A q \in Ids : q \notin disabled /\ (Through(q) \/ (caller = "entry" /\ q <= queued_items))
                     => matrix \in ran[q]

IInv == TypeOK /\ Place /\ Owned /\ AtMatrix /\ OwnFile /\ Details /\ Sites

----------------------------------------------------------------------------
(* find_crash_site                                                         *)

\* The innermost line at which the site may be holds a known frame.
LEMMA ScannedKnown ==
  ASSUME NEW lines, NEW n \in Nat, Below(lines, n) # {}
  PROVE  /\ Min(Below(lines, n)) \in Below(lines, n)
         /\ \A i \in Below(lines, n) : Min(Below(lines, n)) <= i
         /\ Scanned(lines, n) \in SiteFrames /\ Scanned(lines, n) # NULL
<1> DEFINE B == Below(lines, n)
<1>1. B \in SUBSET Nat /\ \A i \in B : lines[i] \in SiteFrames
  BY DEF Below
<1>2. Min(B) \in B /\ \A i \in B : Min(B) <= i
  <2> HIDE DEF B
  <2>1. B # {}
    BY DEF B
  <2> QED
    BY <1>1, <2>1, MinNat
<1>3. Scanned(lines, n) = lines[Min(B)]
  BY DEF Scanned
<1> QED
  BY <1>1, <1>2, <1>3, FramesAssumption DEF Frames

\* One more line.
LEMMA ScannedNext ==
  ASSUME NEW lines, NEW n \in Nat \ {0}
  PROVE  Scanned(lines, n) = Found(lines[n], Scanned(lines, n - 1))
<1> DEFINE A == Below(lines, n - 1)
           B == Below(lines, n)
<1>1. CASE lines[n] \in BlockedFrames
  <2>1. B = {}
    BY <1>1 DEF Below
  <2> QED
    BY <1>1, <2>1 DEF Scanned, Found
<1>2. CASE lines[n] \notin BlockedFrames /\ lines[n] \in SiteFrames
  <2>1. B = A \cup {n} /\ \A i \in A : i < n
    BY <1>2 DEF Below
  <2>2. CASE A = {}
    <3>1. B = {n} /\ Min({n}) = n
      BY <2>1, <2>2, MinIs
    <3>2. Scanned(lines, n) = lines[n] /\ Scanned(lines, n - 1) = NULL
      BY <2>2, <3>1 DEF Scanned
    <3> QED
      BY <1>2, <3>2 DEF Found
  <2>3. CASE A # {}
    <3>1. /\ Min(A) \in A /\ \A i \in A : Min(A) <= i
          /\ Scanned(lines, n - 1) # NULL /\ n - 1 \in Nat
      BY <2>3, ScannedKnown
    <3>2. B \in SUBSET Nat /\ A \in SUBSET Nat /\ B # {}
      BY <2>1 DEF Below
    <3>3. Min(A) \in B /\ \A i \in B : Min(A) <= i
      BY <2>1, <3>1, <3>2
    <3>4. Min(B) = Min(A)
      <4> HIDE DEF A, B
      <4> QED
        BY <3>2, <3>3, MinIs
    <3>5. Scanned(lines, n) = Scanned(lines, n - 1)
      BY <2>3, <3>2, <3>4 DEF Scanned
    <3> QED
      BY <1>2, <3>1, <3>5 DEF Found
  <2> QED
    BY <2>2, <2>3
<1>3. CASE lines[n] \notin BlockedFrames /\ lines[n] \notin SiteFrames
  <2>1. B = A
    BY <1>3 DEF Below
  <2> QED
    BY <1>3, <2>1 DEF Scanned, Found
<1> QED
  BY <1>1, <1>2, <1>3

\* The scan of any file finds its site.
LEMMA FindIs ==
  ASSUME NEW lines \in Seq(Lines)
  PROVE  find_crash_site(lines) = Scanned(lines, Len(lines))
<1> DEFINE N == Len(lines)
           g == [n \in 0..N |-> Scanned(lines, n)]
<1>1. N \in Nat
  BY LenProperties
<1>2. Scans(g, lines)
  <2>1. \A n \in 0..N : g[n] = IF n = 0 THEN NULL ELSE Found(lines[n], g[n - 1])
    <3> TAKE n \in 0..N
    <3>1. CASE n = 0
      BY <3>1 DEF Scanned, Below
    <3>2. CASE n # 0
      <4>1. n \in Nat \ {0} /\ n - 1 \in 0..N
        BY <1>1, <3>2
      <4> QED
        BY <3>2, <4>1, ScannedNext
    <3> QED
      BY <3>1, <3>2
  <2> QED
    BY <2>1 DEF Scans
<1>3. ASSUME NEW h, Scans(h, lines) PROVE h[N] = g[N]
  <2> DEFINE Bad == {n \in 0..N : h[n] # g[n]}
  <2> SUFFICES ASSUME Bad # {} PROVE FALSE
    BY <1>1
  <2>1. Bad \in SUBSET Nat
    BY <1>1
  <2>2. PICK n \in Bad : \A m \in Bad : n <= m
    <3> HIDE DEF Bad
    <3> QED
      BY <2>1, LeastNat
  <2>3. h[n] = IF n = 0 THEN NULL ELSE Found(lines[n], h[n - 1])
    BY <1>3 DEF Scans
  <2>4. g[n] = IF n = 0 THEN NULL ELSE Found(lines[n], g[n - 1])
    BY <1>2 DEF Scans
  <2>5. n # 0 => h[n - 1] = g[n - 1]
    BY <1>1, <2>1, <2>2
  <2> QED
    BY <2>2, <2>3, <2>4, <2>5
<1>4. find_crash_site(lines) = (CHOOSE h : Scans(h, lines))[N]
  BY Zenon DEF find_crash_site, Scans
<1>5. Scans(CHOOSE h : Scans(h, lines), lines)
  BY <1>2
<1>6. find_crash_site(lines) = g[N]
  BY <1>3, <1>4, <1>5
<1> QED
  BY <1>1, <1>6

\* The site of a stack is what the lines below every blocked frame hold.
LEMMA SiteIs ==
  ASSUME NEW lines \in Seq(Lines)
  PROVE  SiteOf(lines) = Scanned(lines, Len(lines))
<1> DEFINE N == Len(lines)
           T == {0} \cup {i \in DOMAIN lines : lines[i] \in BlockedFrames}
           below == {i \in DOMAIN lines : i > Max(T) /\ lines[i] \in SiteFrames}
<1>1. N \in Nat /\ DOMAIN lines = 1..N
  BY LenProperties
<1>2. T \in SUBSET (0..N) /\ T # {}
  BY <1>1
<1>3. Max(T) \in T /\ \A m \in T : m <= Max(T)
  <2> HIDE DEF T
  <2> QED
    BY <1>1, <1>2, MaxNat
<1>4. \A i \in 1..N : i > Max(T) <=> \A j \in 1..N : lines[j] \in BlockedFrames => j < i
  BY <1>1, <1>2, <1>3
<1>5. below = Below(lines, N)
  <2> HIDE DEF T
  <2> QED
    BY <1>1, <1>4 DEF Below
<1>6. SiteOf(lines) = IF below = {} THEN NULL ELSE lines[Min(below)]
  BY Zenon DEF SiteOf
<1> QED
  BY <1>5, <1>6 DEF Scanned

Files == {<<>>} \cup Stacks \cup {Flushed(s) : s \in Stacks}

\* A stack is a sequence of frames with a blocked one on top.
LEMMA StackSeq ==
  ASSUME NEW s \in Stacks
  PROVE  s \in Seq(Frames) /\ s # <<>> /\ Len(s) \in Nat \ {0} /\ s[1] \in BlockedFrames
<1>1. PICK n \in 1..MaxDepth : s \in [1..n -> Frames]
  BY DEF Stacks
<1>2. n \in Nat \ {0} /\ s[1] \in BlockedFrames
  BY FramesAssumption DEF Stacks
<1>3. s \in Seq(Frames)
  BY <1>1, <1>2, SeqDef
<1>4. DOMAIN s = 1..Len(s) /\ Len(s) \in Nat
  BY <1>3, LenProperties
<1>5. 1 \in DOMAIN s
  BY <1>1, <1>2
<1> QED
  BY <1>2, <1>3, <1>4, <1>5, EmptySeq

\* The flush keeps the length of a file that is not empty, and spoils its first
\* line only.
LEMMA FlushSeq ==
  ASSUME NEW f \in Seq(Lines), f # <<>>
  PROVE  /\ Flushed(f) \in Seq(Lines) /\ Len(Flushed(f)) = Len(f) /\ Len(f) \in Nat \ {0}
         /\ Flushed(f) # <<>> /\ Flushed(f)[1] = NULL
         /\ \A i \in 1..Len(f) : i # 1 => Flushed(f)[i] = f[i]
<1>1. Len(f) \in Nat \ {0} /\ NULL \in Lines
  BY EmptySeq DEF Lines
<1>2. 1 \in 1..Len(f) /\ Flushed(f) = [f EXCEPT ![1] = NULL]
  BY <1>1 DEF Flushed
<1>3. /\ Flushed(f) \in Seq(Lines) /\ Len(Flushed(f)) = Len(f)
      /\ \A i \in 1..Len(f) : Flushed(f)[i] = IF i = 1 THEN NULL ELSE f[i]
  BY <1>1, <1>2, ExceptSeq
<1>4. Flushed(f) # <<>>
  BY <1>1, <1>3, EmptySeq
<1> QED
  BY <1>1, <1>2, <1>3, <1>4

\* No file has a known frame in its first line.
LEMMA FileFacts ==
  ASSUME NEW f \in Files
  PROVE  f \in Seq(Lines) /\ (f # <<>> => f[1] \notin SiteFrames)
<1>1. CASE f = <<>>
  BY <1>1, EmptySeq
<1>2. ASSUME NEW s \in Stacks PROVE s \in Seq(Lines) /\ s # <<>> /\ s[1] \notin SiteFrames
  <2>1. s \in Seq(Frames) /\ s # <<>> /\ s[1] \in BlockedFrames
    BY StackSeq
  <2>2. s \in Seq(Lines)
    BY <2>1, SeqMonotonic DEF Lines
  <2> QED
    BY <2>1, <2>2, FramesAssumption
<1>3. CASE f \in Stacks
  BY <1>2, <1>3
<1>4. CASE f \in {Flushed(s) : s \in Stacks}
  <2>1. PICK s \in Stacks : f = Flushed(s)
    BY <1>4
  <2>2. s \in Seq(Lines) /\ s # <<>>
    BY <1>2
  <2>3. f \in Seq(Lines) /\ f[1] = NULL
    BY <2>1, <2>2, FlushSeq
  <2> QED
    BY <2>3, FramesAssumption DEF Frames
<1> QED
  BY <1>1, <1>3, <1>4 DEF Files

\* So the scan finds the site of every file, and the flush does not move it.
LEMMA SiteFacts ==
  ASSUME NEW f \in Files
  PROVE  /\ find_crash_site(f) = SiteOf(f) /\ SiteOf(f) \in Sited
         /\ Flushed(f) \in Files /\ SiteOf(Flushed(f)) = SiteOf(f)
<1>1. f \in Seq(Lines) /\ (f # <<>> => f[1] \notin SiteFrames)
  BY FileFacts
<1>2. find_crash_site(f) = SiteOf(f) /\ SiteOf(f) = Scanned(f, Len(f))
  BY <1>1, FindIs, SiteIs
<1>3. Scanned(f, Len(f)) \in Sited
  <2>1. Len(f) \in Nat
    BY <1>1, LenProperties
  <2>2. CASE Below(f, Len(f)) = {}
    BY <2>2 DEF Scanned, Sited
  <2>3. CASE Below(f, Len(f)) # {}
    BY <2>1, <2>3, ScannedKnown DEF Sited
  <2> QED
    BY <2>2, <2>3
<1>4. CASE f = <<>>
  BY <1>2, <1>3, <1>4 DEF Flushed
<1>5. CASE f # <<>>
  <2> DEFINE g == Flushed(f)
             n == Len(f)
  <2>1. /\ g \in Seq(Lines) /\ Len(g) = n /\ n \in Nat \ {0} /\ g # <<>> /\ g[1] = NULL
        /\ \A i \in 1..n : i # 1 => g[i] = f[i]
    BY <1>1, <1>5, FlushSeq
  <2>2. g \in Files
    <3>1. CASE f \in Stacks
      BY <3>1 DEF Files
    <3>2. CASE f \notin Stacks
      <4>1. PICK s \in Stacks : f = Flushed(s)
        BY <1>5, <3>2 DEF Files
      <4>2. s \in Files /\ s # <<>>
        BY StackSeq DEF Files
      <4>3. s \in Seq(Lines)
        BY <4>2, FileFacts
      <4>4. f[1] = NULL
        BY <4>1, <4>2, <4>3, FlushSeq
      <4>5. \A i \in 1..n : g[i] = f[i]
        BY <2>1, <4>4
      <4>6. g = f
        BY <1>1, <2>1, <4>5, SeqEqual
      <4> QED
        BY <4>6
    <3> QED
      BY <3>1, <3>2
  <2>3. NULL \notin SiteFrames /\ NULL \notin BlockedFrames
    BY FramesAssumption DEF Frames
  <2> HIDE DEF g, n
  <2>4. Below(g, n) = Below(f, n) /\ \A i \in Below(f, n) : g[i] = f[i]
    BY <1>1, <1>5, <2>1, <2>3 DEF Below
  <2>5. Scanned(g, n) = Scanned(f, n)
    <3>1. CASE Below(f, n) = {}
      BY <2>4, <3>1 DEF Scanned
    <3>2. CASE Below(f, n) # {}
      <4>1. Min(Below(f, n)) \in Below(f, n)
        BY <2>1, <3>2, ScannedKnown
      <4> QED
        BY <2>4, <4>1 DEF Scanned
    <3> QED
      BY <3>1, <3>2
  <2>6. SiteOf(g) = Scanned(g, n)
    BY <2>1, SiteIs
  <2>7. SiteOf(g) = SiteOf(f)
    BY <1>2, <2>5, <2>6 DEF n
  <2> QED
    BY <1>2, <1>3, <2>2, <2>7 DEF g
<1> QED
  BY <1>4, <1>5

----------------------------------------------------------------------------
(* The fields and the heap                                                 *)

HeapTexts == {NULL, target_path} \cup {Func[f] : f \in SiteFrames}

\* Fields that hold a site read as that site.
LEMMA HoldsLine ==
  ASSUME NEW c \in Fields, NEW h, Holds(c, h)
  PROVE  Line(c, h) = LineOf(c.offset) /\ Line(c, h) \in Texts
<1>1. c.offset \in Sited
  BY DEF Fields
<1>2. Line(c, h) = LineOf(c.offset)
  <2>1. (IF c.module = NULL THEN NULL ELSE <<h[c.module], c.offset>>)
          = IF c.offset = NULL THEN NULL ELSE <<target_path, c.offset>>
    BY DEF Holds
  <2>2. (IF c.symbol = NULL THEN NULL ELSE h[c.symbol]) = SymbolOf(c.offset)
    BY DEF Holds
  <2> QED
    BY <2>1, <2>2, Zenon DEF Line, LineOf
<1> QED
  BY <1>1, <1>2 DEF Texts

\* The fields hold their site in every heap that agrees on their blocks.
LEMMA HoldsStays ==
  ASSUME NEW c \in Fields, NEW h, NEW g, Holds(c, h), \A b \in Ptrs(c) : g[b] = h[b]
  PROVE  Holds(c, g)
  BY DEF Holds, Ptrs

\* Without a site there is nothing to hold.
LEMMA NoSiteFacts ==
  ASSUME NEW h
  PROVE  NoSite \in Fields /\ Holds(NoSite, h) /\ Distinct(NoSite) /\ Ptrs(NoSite) = {}
  BY DEF NoSite, Fields, Holds, Distinct, Ptrs, Pointers, Sited, SymbolOf

\* ck_free.
LEMMA FreeFacts ==
  ASSUME NEW h \in [Blocks -> HeapTexts], NEW S
  PROVE  /\ Free(h, S) \in [Blocks -> HeapTexts] /\ Live(Free(h, S)) = Live(h) \ S
         /\ \A b \in Blocks \ S : Free(h, S)[b] = h[b]
  BY DEF Free, Live, HeapTexts

\* find_crash_site leaves the site of the file in the fields, in blocks that
\* were free, and does not touch the others.
LEMMA FindFacts ==
  ASSUME TypeOK, NEW h \in [Blocks -> HeapTexts], FindSite(h)
  PROVE  /\ crash' \in Fields /\ heap' \in [Blocks -> HeapTexts]
         /\ crash'.offset = SiteOf(file) /\ Holds(crash', heap') /\ Distinct(crash')
         /\ Ptrs(crash') \cap Live(h) = {}
         /\ Live(heap') = Live(h) \cup Ptrs(crash')
         /\ \A b \in Live(h) : heap'[b] = h[b]
<1> DEFINE x == find_crash_site(file)
<1>1. x = SiteOf(file) /\ x \in Sited
  BY SiteFacts DEF TypeOK, Files
<1>2. PICK s \in Blocks, m \in Blocks :
        /\ s # m /\ h[s] = NULL /\ h[m] = NULL
        /\ heap' = [h EXCEPT ![s] = SymbolOf(x), ![m] = ModuleOf(x)]
        /\ crash' = [symbol |-> IF SymbolOf(x) = NULL THEN NULL ELSE s,
                     module |-> IF x = NULL THEN NULL ELSE m,
                     offset |-> x]
  BY DEF FindSite
<1> HIDE DEF x
<1>3. SymbolOf(x) \in HeapTexts /\ ModuleOf(x) \in HeapTexts /\ (ModuleOf(x) = NULL <=> x = NULL)
  BY <1>1, FramesAssumption DEF SymbolOf, ModuleOf, HeapTexts, Sited
<1>4. /\ crash'.offset = x /\ crash'.symbol = IF SymbolOf(x) = NULL THEN NULL ELSE s
      /\ crash'.module = IF x = NULL THEN NULL ELSE m
      /\ crash' \in Fields
  BY <1>1, <1>2 DEF Fields, Pointers
<1>5. /\ heap' \in [Blocks -> HeapTexts] /\ heap'[s] = SymbolOf(x) /\ heap'[m] = ModuleOf(x)
      /\ \A b \in Blocks : b # s /\ b # m => heap'[b] = h[b]
  BY <1>2, <1>3
<1>6. NULL \notin Blocks
  BY FramesAssumption
<1>7. Holds(crash', heap')
  BY <1>2, <1>3, <1>4, <1>5, <1>6 DEF Holds, ModuleOf
<1>8. Distinct(crash') /\ Ptrs(crash') \cap Live(h) = {}
  BY <1>2, <1>4, <1>6 DEF Distinct, Ptrs, Live
<1>9. Ptrs(crash') = {b \in {s, m} : heap'[b] # NULL}
  BY <1>2, <1>3, <1>4, <1>5, <1>6 DEF Ptrs
<1>10. Live(heap') = Live(h) \cup Ptrs(crash') /\ \A b \in Live(h) : heap'[b] = h[b]
  BY <1>2, <1>5, <1>9 DEF Live
<1> QED
  BY <1>1, <1>4, <1>5, <1>7, <1>8, <1>10

\* What a step that leaves the fields and the heap alone keeps.
LEMMA FieldsStay ==
  ASSUME Owned, UNCHANGED fields, pc # "cmp", pc' # "cmp", pc # "ended", pc' # "ended"
  PROVE  Owned'
<1>1. crash' = crash /\ tmp' = tmp /\ heap' = heap
  BY DEF fields
<1> QED
  BY <1>1 DEF Owned, Distinct, Ptrs, Live, Holds, NoSite

----------------------------------------------------------------------------
(* The steps                                                               *)

\* A run for entry q: the file is left alone, or holds a site of the entry.
LEMMA RunFacts ==
  ASSUME TypeOK, NEW q \in Ids, Run(q)
  PROVE  /\ file' \in Files /\ fault' \in {"CRASH", "TMOUT"}
         /\ ran' \in [Ids -> SUBSET Sited]
         /\ \A p \in Ids : ran[p] \subseteq ran'[p] /\ (p # q => ran'[p] = ran[p])
         /\ \/ SiteOf(file') \in ran'[q]
            \/ file' = file /\ ran' = ran /\ (always_reports => fault' = "TMOUT")
<1>1. file \in Files /\ ran \in [Ids -> SUBSET Sited] /\ NULL \in Sited
  BY DEF TypeOK, Files, Sited
<1>2. fault' \in {"CRASH", "TMOUT"}
  BY DEF Run
<1>3. CASE \E s \in Stacks \cup {<<>>} :
             file' = s /\ ran' = [ran EXCEPT ![q] = @ \cup {SiteOf(s)}]
  <2>1. file' \in Files /\ ran' = [ran EXCEPT ![q] = @ \cup {SiteOf(file')}]
    BY <1>3 DEF Files
  <2>2. SiteOf(file') \in Sited
    BY <2>1, SiteFacts
  <2> QED
    BY <1>1, <1>2, <2>1, <2>2
<1>4. CASE (~always_reports \/ fault' = "TMOUT") /\ UNCHANGED <<file, ran>>
  BY <1>1, <1>2, <1>4
<1> QED
  BY <1>3, <1>4 DEF Run

\* calibrate_case runs the entry once more.
LEMMA CalRunStep ==
  ASSUME IInv, CalRun
  PROVE  IInv'
<1> USE DEF IInv
<1>1. /\ pc = "cal" /\ pc' \in {"cal", "ret"} /\ Run(cur) /\ cur \in Ids /\ caller # "input"
      /\ UNCHANGED <<crash_mode_lv3, queued_items, disabled, detail, cur, caller>>
      /\ UNCHANGED fields
  BY DEF CalRun, Place, Resting, entries
<1>2. /\ file' \in Files /\ fault' \in {"CRASH", "TMOUT"}
      /\ ran' \in [Ids -> SUBSET Sited]
      /\ \A p \in Ids : ran[p] \subseteq ran'[p] /\ (p # cur => ran'[p] = ran[p])
      /\ \/ SiteOf(file') \in ran'[cur]
         \/ file' = file /\ ran' = ran /\ (always_reports => fault' = "TMOUT")
  BY <1>1, RunFacts
<1>3. TypeOK'
  BY <1>1, <1>2 DEF TypeOK, Files, fields
<1>4. Place'
  BY <1>1 DEF Place, Resting, fields
<1>5. OwnFile'
  BY <1>1, <1>2 DEF OwnFile
<1>6. \A q \in Ids : ((Through(q))' <=> Through(q)) /\ ((Detailed(q))' <=> Detailed(q))
  BY <1>1 DEF Through, Detailed, Resting
<1>7. Details'
  BY <1>1, <1>2, <1>6 DEF Details
<1>8. Sites'
  BY <1>1, <1>2, <1>6 DEF Sites, fields
<1>9. Owned' /\ AtMatrix'
  BY <1>1, FieldsStay DEF AtMatrix, fields
<1> QED
  BY <1>3, <1>4, <1>5, <1>7, <1>8, <1>9

\* An input runs as the entry after the last.
LEMMA FuzzStep ==
  ASSUME IInv, FuzzRun
  PROVE  IInv'
<1> USE DEF IInv
<1> DEFINE q == queued_items + 1
<1>1. /\ pc = "idle" /\ q \in Ids /\ queued_items \in Nat /\ Run(q) /\ cur' = q /\ caller' = "input"
      /\ caller # "matrix" /\ pc' = IF fault' = "CRASH" THEN "ret" ELSE "drop"
      /\ UNCHANGED <<crash_mode_lv3, queued_items, disabled, detail>>
      /\ UNCHANGED fields
  BY FramesAssumption DEF FuzzRun, TypeOK, Place, Ids, entries
<1>2. /\ file' \in Files /\ fault' \in {"CRASH", "TMOUT"}
      /\ ran' \in [Ids -> SUBSET Sited]
      /\ \A p \in Ids : ran[p] \subseteq ran'[p] /\ (p # q => ran'[p] = ran[p])
      /\ \/ SiteOf(file') \in ran'[q]
         \/ file' = file /\ ran' = ran /\ (always_reports => fault' = "TMOUT")
  BY <1>1, RunFacts
<1>3. TypeOK'
  <2>1. pc' \in {"ret", "drop"} /\ cur' \in 1..(MaxEntries + 1)
    BY <1>1, FramesAssumption DEF Ids
  <2> QED
    BY <1>1, <1>2, <2>1 DEF TypeOK, Files, fields
<1>4. Place'
  BY <1>1, <1>2 DEF Place, Resting
<1>5. OwnFile'
  BY <1>1, <1>2 DEF OwnFile
<1>6. \A p \in Ids : ((Through(p))' <=> Through(p)) /\ ((Detailed(p))' <=> Detailed(p))
  BY <1>1, <1>2 DEF Through, Detailed, Resting, Ids
<1>7. Details'
  BY <1>1, <1>2, <1>6 DEF Details
<1>8. Sites'
  BY <1>1, <1>2, <1>6 DEF Sites, fields
<1>9. Owned' /\ AtMatrix'
  BY <1>1, FieldsStay DEF AtMatrix, fields
<1> QED
  BY <1>3, <1>4, <1>5, <1>7, <1>8, <1>9

\* The site of the matrix is taken.
LEMMA MatrixStep ==
  ASSUME IInv, MatrixSite
  PROVE  IInv'
<1> USE DEF IInv
<1>1. /\ pc = "ret" /\ caller = "matrix" /\ caller' = "seed" /\ cur = 1 /\ crash = NoSite /\ tmp = NoSite
      /\ UNCHANGED <<crash_mode_lv3, queued_items, disabled, detail, tmp, same, file, ran, fault, cur, pc>>
  BY DEF MatrixSite, Place, Owned, AtMatrix, entries
<1>2. Live(heap) = {} /\ heap \in [Blocks -> HeapTexts]
  BY <1>1, NoSiteFacts DEF Owned, TypeOK, HeapTexts
<1>3. /\ crash' \in Fields /\ heap' \in [Blocks -> HeapTexts] /\ matrix' \in Sited
      /\ Holds(crash', heap') /\ Distinct(crash') /\ Live(heap') = Ptrs(crash')
      /\ crash_mode_lv3 => crash'.offset = matrix'
  <2>1. CASE crash_mode_lv3
    <3>1. FindSite(heap) /\ matrix' = crash'.offset
      BY <2>1 DEF MatrixSite
    <3>2. /\ crash' \in Fields /\ heap' \in [Blocks -> HeapTexts]
          /\ Holds(crash', heap') /\ Distinct(crash') /\ Live(heap') = Live(heap) \cup Ptrs(crash')
      BY <1>2, <3>1, FindFacts
    <3> QED
      BY <1>2, <3>1, <3>2 DEF Fields
  <2>2. CASE ~crash_mode_lv3
    <3>1. crash' = NoSite /\ heap' = heap /\ matrix' = matrix
      BY <1>1, <2>2 DEF MatrixSite
    <3> QED
      BY <1>2, <2>2, <3>1, NoSiteFacts DEF TypeOK
  <2> QED
    BY <2>1, <2>2
<1>4. TypeOK'
  BY <1>1, <1>3 DEF TypeOK, HeapTexts
<1>5. Place' /\ OwnFile'
  BY <1>1 DEF Place, OwnFile, Resting
<1>6. Owned'
  BY <1>1, <1>3, NoSiteFacts DEF Owned
<1>7. AtMatrix'
  BY <1>1, <1>3 DEF AtMatrix
<1>8. \A q \in Ids : /\ ~Through(q) /\ ~(Through(q))'
                     /\ (Detailed(q))' <=> Detailed(q)
  BY <1>1 DEF Through, Detailed, Resting, Ids
<1>9. Details'
  BY <1>1, <1>8 DEF Details
<1>10. Sites'
  BY <1>1, <1>8 DEF Sites, Through, Resting, Ids
<1> QED
  BY <1>4, <1>5, <1>6, <1>7, <1>9, <1>10

\* A seed that timed out is disabled before its site is looked up.
LEMMA SeedResultFacts ==
  ASSUME IInv, SeedResult, pc = "ret", caller # "matrix"
  PROVE  /\ disabled' \subseteq Ids /\ disabled \subseteq disabled' /\ cur \in Ids
         /\ \A q \in Ids : q # cur => (q \in disabled' <=> q \in disabled)
         /\ always_reports /\ cur \notin disabled' => SiteOf(file) \in ran[cur]
<1>1. cur \in Ids /\ disabled \subseteq Ids /\ fault \in {"CRASH", "TMOUT"}
      /\ caller \in {"seed", "input", "entry"}
  BY DEF IInv, Place, TypeOK, Resting
<1>2. always_reports /\ cur \notin disabled' => SiteOf(file) \in ran[cur]
  BY <1>1 DEF SeedResult, IInv, OwnFile
<1> QED
  BY <1>1, <1>2 DEF SeedResult

\* The site of an entry takes the place of the last one.
LEMMA NewSiteStep ==
  ASSUME IInv, NewSite
  PROVE  IInv'
<1> USE DEF IInv
<1>1. /\ pc = "ret" /\ caller \in {"seed", "entry"} /\ ~crash_mode_lv3 /\ tmp = NoSite
      /\ FindSite(Free(heap, Ptrs(crash))) /\ SeedResult
      /\ file' = Flushed(file) /\ same' = TRUE /\ pc' = "back"
      /\ UNCHANGED <<crash_mode_lv3, tmp, matrix, queued_items, detail, ran, fault, cur, caller>>
  BY DEF NewSite, Owned
<1>2. /\ disabled' \subseteq Ids /\ disabled \subseteq disabled' /\ cur \in Ids
      /\ \A q \in Ids : q # cur => (q \in disabled' <=> q \in disabled)
      /\ always_reports /\ cur \notin disabled' => SiteOf(file) \in ran[cur]
  BY <1>1, SeedResultFacts
<1> DEFINE h == Free(heap, Ptrs(crash))
<1>3. h \in [Blocks -> HeapTexts] /\ Live(h) = {}
  <2>1. heap \in [Blocks -> HeapTexts] /\ Live(heap) = Ptrs(crash)
    BY <1>1, NoSiteFacts DEF TypeOK, HeapTexts, Owned
  <2> QED
    BY <2>1, FreeFacts
<1> HIDE DEF h
<1>4. /\ crash' \in Fields /\ heap' \in [Blocks -> HeapTexts] /\ crash'.offset = SiteOf(file)
      /\ Holds(crash', heap') /\ Distinct(crash') /\ Live(heap') = Ptrs(crash')
  BY <1>1, <1>3, FindFacts DEF h
<1>5. file' \in Files
  BY <1>1, SiteFacts DEF TypeOK, Files
<1>6. TypeOK'
  BY <1>1, <1>2, <1>4, <1>5 DEF TypeOK, HeapTexts, Files
<1>7. Place'
  BY <1>1, <1>2 DEF Place, Resting
<1>8. Owned'
  BY <1>1, <1>4, NoSiteFacts DEF Owned
<1>9. AtMatrix' /\ OwnFile'
  BY <1>1, <1>2, <1>4 DEF AtMatrix, OwnFile
<1>10. \A q \in Ids : ((Through(q))' <=> Through(q)) /\ ((Detailed(q))' <=> Detailed(q)) /\ ~Detailed(cur)
  BY <1>1, <1>2 DEF Through, Detailed, Resting, Ids
<1>11. Details'
  BY <1>1, <1>2, <1>10 DEF Details
<1>12. Sites'
  BY <1>1 DEF Sites
<1> QED
  BY <1>6, <1>7, <1>8, <1>9, <1>11, <1>12

\* same_crash_site puts the fields aside and finds the site of the last run.
LEMMA FindOtherStep ==
  ASSUME IInv, FindOther
  PROVE  IInv'
<1> USE DEF IInv
<1>1. /\ pc = "ret" /\ caller # "matrix" /\ crash_mode_lv3 /\ tmp' = crash /\ tmp = NoSite
      /\ FindSite(heap) /\ SeedResult
      /\ file' = Flushed(file) /\ pc' = "cmp"
      /\ UNCHANGED <<crash_mode_lv3, same, matrix, queued_items, detail, ran, fault, cur, caller>>
  BY DEF FindOther, Owned
<1>2. /\ disabled' \subseteq Ids /\ disabled \subseteq disabled' /\ cur \in Ids
      /\ \A q \in Ids : q # cur => (q \in disabled' <=> q \in disabled)
      /\ always_reports /\ cur \notin disabled' => SiteOf(file) \in ran[cur]
  BY <1>1, SeedResultFacts
<1>3. heap \in [Blocks -> HeapTexts] /\ Live(heap) = Ptrs(crash) /\ crash \in Fields
      /\ Holds(crash, heap) /\ Distinct(crash)
  BY <1>1, NoSiteFacts DEF TypeOK, HeapTexts, Owned
<1>4. /\ crash' \in Fields /\ heap' \in [Blocks -> HeapTexts] /\ crash'.offset = SiteOf(file)
      /\ Holds(crash', heap') /\ Distinct(crash') /\ Ptrs(crash') \cap Live(heap) = {}
      /\ Live(heap') = Live(heap) \cup Ptrs(crash')
      /\ \A b \in Live(heap) : heap'[b] = heap[b]
  BY <1>1, <1>3, FindFacts
<1>5. Holds(crash, heap')
  BY <1>3, <1>4, HoldsStays
<1>6. file' \in Files /\ SiteOf(file') = SiteOf(file)
  BY <1>1, SiteFacts DEF TypeOK, Files
<1>7. TypeOK'
  BY <1>1, <1>2, <1>3, <1>4, <1>6 DEF TypeOK, HeapTexts, Files
<1>8. Place'
  BY <1>1, <1>2 DEF Place, Resting
<1>9. Owned'
  BY <1>1, <1>3, <1>4, <1>5 DEF Owned
<1>10. AtMatrix' /\ OwnFile'
  BY <1>1, <1>2, <1>4, <1>6 DEF AtMatrix, OwnFile, Place
<1>11. \A q \in Ids : ((Through(q))' <=> Through(q)) /\ ((Detailed(q))' <=> Detailed(q))
  BY <1>1, <1>2 DEF Through, Detailed, Resting, Ids
<1>12. Details'
  BY <1>1, <1>2, <1>11 DEF Details
<1>13. Sites'
  BY <1>1, <1>2, <1>11 DEF Sites
<1> QED
  BY <1>7, <1>8, <1>9, <1>10, <1>12, <1>13

\* A sequence of one.
LEMMA OneLine ==
  ASSUME NEW s \in Texts
  PROVE  Append(<<>>, s) \in Seq(Texts) /\ Len(Append(<<>>, s)) = 1 /\ Append(<<>>, s)[1] = s
  BY EmptySeq

\* same_crash_site keeps the new fields or restores the old ones.
LEMMA CompareStep ==
  ASSUME IInv, CompareSite
  PROVE  IInv'
<1> USE DEF IInv
<1>1. /\ pc = "cmp" /\ pc' = "back" /\ crash_mode_lv3 /\ caller # "matrix" /\ cur \in Ids
      /\ same' = SameSite /\ crash' = IF SameSite THEN crash ELSE tmp
      /\ heap' = Free(heap, Dropped) /\ tmp' = NoSite
      /\ detail' = IF ~SameSite /\ caller # "input"
                   THEN [detail EXCEPT ![cur] = Append(@, Line(crash, heap))] ELSE detail
      /\ disabled' = IF ~SameSite /\ caller = "seed" THEN disabled \cup {cur} ELSE disabled
      /\ UNCHANGED <<crash_mode_lv3, file, matrix, queued_items, ran, fault, cur, caller>>
  BY DEF CompareSite, Restored, Place, Resting
<1>2. /\ heap \in [Blocks -> HeapTexts] /\ crash \in Fields /\ tmp \in Fields /\ tmp.offset = matrix
      /\ Live(heap) = Ptrs(crash) \cup Ptrs(tmp) /\ Ptrs(crash) \cap Ptrs(tmp) = {}
      /\ Holds(crash, heap) /\ Holds(tmp, heap) /\ Distinct(crash) /\ Distinct(tmp)
  BY <1>1 DEF TypeOK, HeapTexts, Owned, AtMatrix
<1>3. /\ heap' \in [Blocks -> HeapTexts] /\ Live(heap') = Live(heap) \ Dropped
      /\ \A b \in Blocks \ Dropped : heap'[b] = heap[b]
  BY <1>1, <1>2, FreeFacts
<1>4. Dropped = IF SameSite THEN Ptrs(tmp) ELSE Ptrs(crash)
  BY DEF Dropped
<1>5. Live(heap') = Ptrs(crash') /\ Ptrs(crash') \subseteq Blocks \ Dropped
  BY <1>1, <1>2, <1>3, <1>4 DEF Live
<1>6. crash' \in Fields /\ Distinct(crash') /\ crash'.offset = matrix
  BY <1>1, <1>2 DEF SameSite
<1>7. Holds(crash', heap')
  <2>1. Holds(crash', heap)
    BY <1>1, <1>2
  <2> QED
    BY <1>3, <1>5, <1>6, <2>1, HoldsStays
<1>8. SameSite \in BOOLEAN
  BY DEF SameSite
<1>9. Line(crash, heap) = LineOf(crash.offset) /\ Line(crash, heap) \in Texts
  BY <1>2, HoldsLine
<1>10. detail \in [Ids -> Seq(Texts)] /\ detail[cur] = <<>> /\ ~Detailed(cur)
  BY <1>1 DEF Details, Detailed, Through, Resting, Ids
<1>11. /\ detail' \in [Ids -> Seq(Texts)]
       /\ \A q \in Ids : q # cur \/ SameSite \/ caller = "input" => detail'[q] = detail[q]
       /\ ~SameSite /\ caller # "input" =>
            Len(detail'[cur]) = 1 /\ detail'[cur][1] = LineOf(crash.offset)
  BY <1>1, <1>9, <1>10, OneLine
<1>12. disabled' \subseteq Ids /\ disabled \subseteq disabled'
       /\ \A q \in Ids : q # cur => (q \in disabled' <=> q \in disabled)
  BY <1>1 DEF TypeOK
<1>13. always_reports /\ cur \notin disabled' => crash.offset \in ran[cur]
  BY <1>1, <1>12 DEF OwnFile
<1>14. TypeOK'
  <2>1. \A q \in Ids : \A i \in DOMAIN detail'[q] : detail'[q][i] \in Texts
    BY <1>11, LenProperties
  <2> QED
    BY <1>1, <1>3, <1>6, <1>8, <1>12, <2>1, NoSiteFacts DEF TypeOK, HeapTexts, Texts
<1>15. Place'
  BY <1>1, <1>8 DEF Place, Resting
<1>16. Owned'
  BY <1>1, <1>5, <1>6, <1>7, NoSiteFacts DEF Owned
<1>17. AtMatrix' /\ OwnFile'
  BY <1>1, <1>6, <1>8, <1>13 DEF AtMatrix, OwnFile
<1>18. \A q \in Ids : /\ (Through(q))' <=> Through(q)
                      /\ (Detailed(q))' <=> Detailed(q) \/ (q = cur /\ caller # "input" /\ ~SameSite)
  BY <1>1, <1>8 DEF Through, Detailed, Resting
<1>19. Details'
  BY <1>1, <1>8, <1>10, <1>11, <1>12, <1>13, <1>18 DEF Details
<1>20. Sites'
  BY <1>1, <1>12, <1>18 DEF Sites
<1> QED
  BY <1>14, <1>15, <1>16, <1>17, <1>19, <1>20

\* The caller of same_crash_site writes what it did not write.
LEMMA WrittenFacts ==
  ASSUME IInv, pc = "back", caller # "input", detail' = Written
  PROVE  /\ detail' \in [Ids -> Seq(Texts)] /\ cur \in Ids /\ caller # "matrix"
         /\ \A q \in Ids : q # cur => detail'[q] = detail[q]
         /\ Len(detail'[cur]) = 1
         /\ always_reports /\ cur \notin disabled => detail'[cur][1] \in {LineOf(f) : f \in ran[cur]}
<1> USE DEF IInv
<1>1. cur \in Ids /\ caller # "matrix" /\ same \in BOOLEAN /\ crash \in Fields /\ Holds(crash, heap)
  BY DEF Place, TypeOK, Owned, Resting
<1>2. Line(crash, heap) = LineOf(crash.offset) /\ Line(crash, heap) \in Texts
  BY <1>1, HoldsLine
<1>3. detail \in [Ids -> Seq(Texts)]
  BY DEF Details
<1>4. CASE same
  <2>1. detail[cur] = <<>>
    BY <1>1, <1>4 DEF Details, Detailed, Through, Resting, Ids
  <2>2. detail' = [detail EXCEPT ![cur] = Append(@, Line(crash, heap))]
    BY <1>4 DEF Written, CallerWrites
  <2>3. always_reports /\ cur \notin disabled => crash.offset \in ran[cur]
    BY <1>4 DEF OwnFile
  <2> QED
    BY <1>1, <1>2, <1>3, <2>1, <2>2, <2>3, OneLine
<1>5. CASE ~same
  <2>1. detail' = detail /\ Detailed(cur)
    BY <1>5 DEF Written, CallerWrites, Detailed
  <2> QED
    BY <1>1, <1>3, <2>1 DEF Details
<1> QED
  BY <1>4, <1>5

\* The end of a seed.
LEMMA SeedStep ==
  ASSUME IInv, SeedDetail
  PROVE  IInv'
<1> USE DEF IInv
<1>1. /\ pc = "back" /\ caller = "seed" /\ cur <= Seeds /\ queued_items = Seeds /\ detail' = Written
      /\ cur' = cur + 1 /\ pc' = IF cur < Seeds THEN "cal" ELSE "idle"
      /\ UNCHANGED <<crash_mode_lv3, queued_items, disabled, file, ran, fault, caller>>
      /\ UNCHANGED fields
  BY DEF SeedDetail, Place, Resting
<1>2. /\ detail' \in [Ids -> Seq(Texts)] /\ cur \in Ids
      /\ \A q \in Ids : q # cur => detail'[q] = detail[q]
      /\ Len(detail'[cur]) = 1
      /\ always_reports /\ cur \notin disabled => detail'[cur][1] \in {LineOf(f) : f \in ran[cur]}
  BY <1>1, WrittenFacts
<1>3. pc' \in {"cal", "idle"} /\ (pc' = "cal" <=> cur < Seeds)
  BY <1>1
<1>4. Place'
  BY <1>1, <1>2, <1>3, FramesAssumption DEF Place, Ids, Resting
<1>5. TypeOK'
  <2>1. \A q \in Ids : \A i \in DOMAIN detail'[q] : detail'[q][i] \in Texts
    BY <1>2, LenProperties
  <2>2. cur' \in 1..(MaxEntries + 1)
    BY <1>1, <1>2, FramesAssumption DEF Ids
  <2> QED
    BY <1>1, <1>3, <2>1, <2>2 DEF TypeOK, Texts, fields
<1>6. Owned' /\ AtMatrix'
  BY <1>1, <1>3, FieldsStay DEF AtMatrix, fields
<1>7. OwnFile'
  BY <1>1, <1>3 DEF OwnFile
<1>8. \A q \in Ids : /\ (Through(q))' <=> Through(q) \/ q = cur
                     /\ (Detailed(q))' <=> (Through(q))'
                     /\ q # cur => (Detailed(q) <=> Through(q))
  BY <1>1, <1>2, <1>3, FramesAssumption DEF Through, Detailed, Resting, Ids
<1>9. crash_mode_lv3 /\ always_reports /\ cur \notin disabled => matrix \in ran[cur]
  BY <1>1 DEF OwnFile, AtMatrix, Place, TypeOK
<1>10. Details'
  BY <1>1, <1>2, <1>8 DEF Details
<1>11. Sites'
  BY <1>1, <1>8, <1>9 DEF Sites, fields
<1> QED
  BY <1>4, <1>5, <1>6, <1>7, <1>10, <1>11

\* A crash is dropped, or queued when it is at the site of the matrix.
LEMMA SaveStep ==
  ASSUME IInv, SaveCrash
  PROVE  IInv'
<1> USE DEF IInv
<1>1. /\ pc \in {"back", "ret"} /\ (pc = "back" <=> crash_mode_lv3)
      /\ caller = "input" /\ cur = queued_items + 1 /\ cur \in Ids /\ queued_items \in Nat
      /\ \/ pc' = "drop" /\ UNCHANGED <<queued_items, caller>>
         \/ (crash_mode_lv3 => same) /\ queued_items' = cur /\ caller' = "entry" /\ pc' = "cal"
      /\ UNCHANGED <<crash_mode_lv3, disabled, detail, file, ran, fault, cur>>
      /\ UNCHANGED fields
  BY FramesAssumption DEF SaveCrash, MayQueue, Place, TypeOK, Resting
<1>2. TypeOK'
  <2>1. queued_items' \in Seeds..MaxEntries
    BY <1>1, FramesAssumption DEF TypeOK, Ids
  <2> QED
    BY <1>1, <2>1 DEF TypeOK, fields
<1>3. Place'
  BY <1>1 DEF Place, Resting
<1>4. Owned' /\ AtMatrix'
  BY <1>1, FieldsStay DEF AtMatrix, fields
<1>5. OwnFile'
  BY <1>1 DEF OwnFile
<1>6. \A p \in Ids : ((Through(p))' <=> Through(p)) /\ ((Detailed(p))' <=> Detailed(p))
  BY <1>1 DEF Through, Detailed, Resting, Ids
<1>7. Details'
  BY <1>1, <1>6 DEF Details
<1>8. Sites'
  <2>1. \A p \in Ids : p <= queued_items' => Through(p) \/ (p = cur /\ queued_items' = cur)
    BY <1>1 DEF Ids, Through, Resting
  <2>2. crash_mode_lv3 /\ always_reports /\ queued_items' = cur /\ cur \notin disabled => matrix \in ran[cur]
    BY <1>1 DEF OwnFile, AtMatrix
  <2> QED
    BY <1>1, <1>6, <2>1, <2>2 DEF Sites, fields
<1> QED
  BY <1>2, <1>3, <1>4, <1>5, <1>7, <1>8

\* The input is dropped.
LEMMA DropStep ==
  ASSUME IInv, Drop
  PROVE  IInv'
<1> USE DEF IInv
<1>1. /\ pc = "drop" /\ pc' = "idle" /\ caller = "input" /\ cur = queued_items + 1 /\ cur \in Ids
      /\ ran' = [ran EXCEPT ![cur] = {}] /\ queued_items \in Nat
      /\ UNCHANGED <<crash_mode_lv3, queued_items, disabled, detail, file, fault, cur, caller>>
      /\ UNCHANGED fields
  BY FramesAssumption DEF Drop, Place, TypeOK, Resting, entries
<1>2. ran' \in [Ids -> SUBSET Sited] /\ \A p \in Ids : p # cur => ran'[p] = ran[p]
  BY <1>1 DEF TypeOK
<1>3. TypeOK'
  BY <1>1, <1>2 DEF TypeOK, fields
<1>4. Place' /\ OwnFile'
  BY <1>1 DEF Place, OwnFile, Resting
<1>5. \A p \in Ids : /\ ((Through(p))' <=> Through(p)) /\ (Through(p) => p # cur)
                     /\ ((Detailed(p))' <=> Detailed(p)) /\ (Detailed(p) <=> Through(p))
  BY <1>1 DEF Through, Detailed, Resting, Ids
<1>6. Details'
  <2>1. \A p \in Ids : Detailed(p) => p # cur /\ ran'[p] = ran[p]
    BY <1>2, <1>5
  <2> QED
    BY <1>1, <1>5, <2>1 DEF Details
<1>7. Sites'
  BY <1>1, <1>2, <1>5 DEF Sites, fields
<1>8. Owned' /\ AtMatrix'
  BY <1>1, FieldsStay DEF AtMatrix, fields
<1> QED
  BY <1>3, <1>4, <1>6, <1>7, <1>8

\* The end of a new entry.
LEMMA EntryStep ==
  ASSUME IInv, EntryDetail
  PROVE  IInv'
<1> USE DEF IInv
<1>1. /\ pc = "back" /\ caller = "entry" /\ cur = queued_items /\ detail' = Written /\ pc' = "idle"
      /\ UNCHANGED <<crash_mode_lv3, queued_items, disabled, file, ran, fault, cur, caller>>
      /\ UNCHANGED fields
  BY DEF EntryDetail, Place, Resting
<1>2. /\ detail' \in [Ids -> Seq(Texts)] /\ cur \in Ids
      /\ \A q \in Ids : q # cur => detail'[q] = detail[q]
      /\ Len(detail'[cur]) = 1
      /\ always_reports /\ cur \notin disabled => detail'[cur][1] \in {LineOf(f) : f \in ran[cur]}
  BY <1>1, WrittenFacts
<1>3. Place' /\ OwnFile'
  BY <1>1 DEF Place, OwnFile, Resting
<1>4. TypeOK'
  <2>1. \A q \in Ids : \A i \in DOMAIN detail'[q] : detail'[q][i] \in Texts
    BY <1>2, LenProperties
  <2> QED
    BY <1>1, <2>1 DEF TypeOK, Texts, fields
<1>5. Owned' /\ AtMatrix'
  BY <1>1, FieldsStay DEF AtMatrix, fields
<1>6. \A q \in Ids : /\ (Through(q))' <=> Through(q) \/ q = cur
                     /\ (Detailed(q))' <=> (Through(q))'
                     /\ q # cur => (Detailed(q) <=> Through(q))
  BY <1>1, <1>2 DEF Through, Detailed, Resting, Ids
<1>7. Details'
  BY <1>1, <1>2, <1>6 DEF Details
<1>8. Sites'
  <2>1. \A q \in Ids : (Through(q))' \/ q <= queued_items' => Through(q) \/ q <= queued_items
    BY <1>1, <1>2, <1>6 DEF Ids
  <2> QED
    BY <1>1, <2>1 DEF Sites, fields
<1> QED
  BY <1>3, <1>4, <1>5, <1>7, <1>8

\* main leaves.
LEMMA LeaveStep ==
  ASSUME IInv, Leave
  PROVE  IInv'
<1> USE DEF IInv
<1>1. /\ pc = "idle" /\ pc' = "ended" /\ heap' = Free(heap, Ptrs(crash)) /\ tmp = NoSite /\ caller # "matrix"
      /\ UNCHANGED <<crash_mode_lv3, queued_items, disabled, detail, crash, tmp, same, matrix>>
      /\ UNCHANGED <<file, ran, fault, cur, caller>>
  BY DEF Leave, Owned, Place, entries
<1>2. heap \in [Blocks -> HeapTexts] /\ Live(heap) = Ptrs(crash)
  BY <1>1, NoSiteFacts DEF TypeOK, HeapTexts, Owned
<1>3. heap' \in [Blocks -> HeapTexts] /\ Live(heap') = {}
  BY <1>1, <1>2, FreeFacts
<1>4. TypeOK'
  BY <1>1, <1>3 DEF TypeOK, HeapTexts
<1>5. Place' /\ OwnFile' /\ AtMatrix'
  BY <1>1 DEF Place, OwnFile, AtMatrix, Resting
<1>6. Owned'
  <2>1. Distinct(crash) /\ Distinct(tmp) /\ Ptrs(crash) \cap Ptrs(tmp) = {}
    BY DEF Owned
  <2> QED
    BY <1>1, <1>3, <2>1 DEF Owned
<1>7. \A q \in Ids : ((Through(q))' <=> Through(q)) /\ ((Detailed(q))' <=> Detailed(q))
  BY <1>1 DEF Through, Detailed, Resting
<1>8. Details' /\ Sites'
  BY <1>1, <1>7 DEF Details, Sites
<1> QED
  BY <1>4, <1>5, <1>6, <1>8

\* The invariant holds at the start.
LEMMA InitInv == Init => IInv
<1> SUFFICES ASSUME Init PROVE IInv
  OBVIOUS
<1>1. heap \in [Blocks -> HeapTexts] /\ Live(heap) = {} /\ crash = NoSite /\ tmp = NoSite
  BY DEF Init, Live, HeapTexts
<1>2. TypeOK
  BY <1>1, NoSiteFacts, FramesAssumption DEF Init, TypeOK, Ids, HeapTexts, Sited
<1>3. Place /\ OwnFile /\ AtMatrix
  BY <1>1, FramesAssumption DEF Init, Place, OwnFile, AtMatrix, Ids, Resting
<1>4. Owned
  BY <1>1, NoSiteFacts DEF Init, Owned
<1>5. \A q \in Ids : ~Through(q) /\ ~Detailed(q)
  BY DEF Init, Through, Detailed, Resting, Ids
<1>6. Details
  BY <1>5, EmptySeq DEF Details, Init
<1>7. Sites
  BY <1>5 DEF Sites, Init
<1> QED
  BY <1>2, <1>3, <1>4, <1>6, <1>7 DEF IInv

\* Every step keeps the invariant.
LEMMA NextInv == IInv /\ [Next]_vars => IInv'
<1> SUFFICES ASSUME IInv, [Next]_vars PROVE IInv'
  OBVIOUS
<1>1. CASE UNCHANGED vars
  <2>1. /\ UNCHANGED <<crash_mode_lv3, queued_items, disabled, detail, crash, tmp, heap, same, matrix>>
        /\ UNCHANGED <<file, ran, fault, cur, caller, pc>>
    BY <1>1 DEF vars, entries, fields
  <2>2. TypeOK' /\ Place' /\ OwnFile' /\ Sites'
    BY <2>1 DEF IInv, TypeOK, Place, OwnFile, Sites, Through, Resting
  <2>3. Owned' /\ AtMatrix' /\ Details'
    BY <2>1 DEF IInv, Owned, AtMatrix, Details, Through, Detailed, Resting, Live, Holds, Distinct, Ptrs
  <2> QED
    BY <2>2, <2>3 DEF IInv
<1> QED
  BY <1>1, CalRunStep, FuzzStep, MatrixStep, NewSiteStep, FindOtherStep, CompareStep, SeedStep,
     SaveStep, DropStep, EntryStep, LeaveStep DEF Next

\* The invariant holds in every reachable state.
LEMMA Invariance == Spec => []IInv
<1>1. Init => IInv
  BY InitInv
<1>2. IInv /\ [Next]_vars => IInv'
  BY NextInv
<1> QED
  BY <1>1, <1>2, PTL DEF Spec

----------------------------------------------------------------------------
(* Results                                                                 *)

\* find_crash_site finds the innermost known frame below every blocked one in
\* every file the target and the flush leave, whatever the depth of the stack.
THEOREM ScanFindsSite == Spec => []InnermostBelowBlocked
<1>1. IInv => InnermostBelowBlocked
  BY SiteFacts DEF IInv, TypeOK, Files, InnermostBelowBlocked
<1> QED
  BY <1>1, Invariance, PTL

\* Every entry has one detail, of a run of its own, although the file may be
\* stale, flushed or half written when the site is looked up, and the fields are
\* restored after a line is written or before.
THEOREM DetailsOwn == Spec => []DetailOwn
<1>1. IInv => DetailOwn
  <2> SUFFICES ASSUME IInv, pc = "idle", always_reports, NEW q \in 1..queued_items
               PROVE  /\ Len(detail[q]) = 1
                      /\ q \notin disabled => detail[q][1] \in {LineOf(f) : f \in ran[q]}
    BY DEF DetailOwn
  <2>1. q \in Ids /\ Detailed(q)
    BY FramesAssumption DEF IInv, TypeOK, Ids, Through, Detailed, Resting
  <2> QED
    BY <2>1 DEF IInv, Details
<1> QED
  BY <1>1, Invariance, PTL

\* In LV3 the enabled entries are inputs that crashed at the matrix's site.
THEOREM QueueAtSite == Spec => []QueueAtMatrixSite
<1>1. IInv => QueueAtMatrixSite
  <2> SUFFICES ASSUME IInv, crash_mode_lv3, always_reports, pc = "idle",
                      NEW q \in 1..queued_items \ disabled
               PROVE  matrix \in ran[q]
    BY DEF QueueAtMatrixSite, IInv
  <2>1. q \in Ids /\ Through(q)
    BY FramesAssumption DEF IInv, TypeOK, Ids, Through, Resting
  <2> QED
    BY <2>1 DEF IInv, Sites
<1> QED
  BY <1>1, Invariance, PTL

\* In LV3 the site of the matrix survives every comparison: each one overwrites
\* the fields, keeps the new blocks or restores the old, and what is kept reads
\* as the matrix's offset, module and function.
THEOREM MatrixSiteStays == Spec => []MatrixSiteKept
<1>1. IInv => MatrixSiteKept
  <2> DEFINE kept == IF pc = "cmp" THEN tmp ELSE crash
  <2> SUFFICES ASSUME IInv, crash_mode_lv3, caller # "matrix", pc # "ended"
               PROVE  kept.offset = matrix /\ Line(kept, heap) = LineOf(matrix)
    BY DEF MatrixSiteKept
  <2>1. kept \in Fields /\ Holds(kept, heap) /\ kept.offset = matrix
    BY DEF IInv, TypeOK, Owned, AtMatrix
  <2> HIDE DEF kept
  <2> QED
    BY <2>1, HoldsLine
<1> QED
  BY <1>1, Invariance, PTL

\* The blocks in use are those of the fields and of tmp: no copy of a symbol or
\* a module is lost, freed twice or used after it is freed.
THEOREM HeapOwned == Spec => []BlocksOwned
<1>1. IInv => BlocksOwned
  <2> SUFFICES ASSUME IInv PROVE BlocksOwned
    OBVIOUS
  <2>1. Live(heap) = IF pc = "ended" THEN {} ELSE Ptrs(crash) \cup Ptrs(tmp)
    BY DEF IInv, Owned
  <2>2. Ptrs(crash) \cap Ptrs(tmp) = {} /\ Distinct(crash)
    BY DEF IInv, Owned
  <2> QED
    BY <2>1, <2>2 DEF BlocksOwned, Live, Distinct
<1> QED
  BY <1>1, Invariance, PTL

=============================================================================
