------------------------- MODULE CovDecreaseProofs -------------------------
(***************************************************************************)
(* Proofs about the coverage-decrease loop: what virgin_bits and the       *)
(* minima say about the queue, how often a coverage change can be claimed, *)
(* that no timeout is kept, and that one seed is left of each trace, for   *)
(* every map, every target and every order of runs, aborted calibrations   *)
(* and stops.                                                              *)
(***************************************************************************)
EXTENDS CovDecrease, FiniteSums

Sum(q) == queue[q].exec_cksum
Calibrating == pc \in {"cal", "ret"}

\* Calibration works on an entry of the queue, which does not count as
\* calibrated before its last run and has a checksum from its first run on.
CalOwn ==
  /\ Calibrating => cal.q <= queued_items
  /\ pc = "cal" =>
       /\ queue[cal.q].cal_failed > 0 /\ cal.max > 0
       /\ cal.cur > 0 => Sum(cal.q) # NULL
  /\ pc = "ret" /\ cal.fault # "CRASH" => queue[cal.q].cal_failed > 0

\* The seeds the dry run has not come to have no checksum.
DryOrder ==
  /\ pc = "dry" => \A q \in Ids : q >= idx => Sum(q) = NULL
  /\ Calibrating /\ cal.caller = "dry" =>
       cal.q = idx /\ \A q \in Ids : q > idx => Sum(q) = NULL

\* Before the matrix is born only the first seed has been run, and what was
\* compared with it is its first trace.
Unborn ==
  ~HasMatrix =>
    /\ pc \in {"dry", "cal", "ret"} /\ idx = 1 /\ cal.q = 1 /\ cal.caller = "dry"
    /\ cal.new_bits <= 2 /\ min_bitmap_size = UintMax
    /\ Sum(1) # NULL => first_trace = Sum(1)
    /\ Sum(1) = NULL => Touched(virgin_bits) = {}
    /\ pc # "ret" => queued_with_cov = 0
    /\ queued_with_cov <= 1

\* A coverage change that is found, but not counted yet.
Pending == Flag(pc = "cal" /\ CovBit(cal.new_bits) /\ ~queue[cal.q].has_new_cov)

\* CovBudget with the change that is being found.
Paid ==
  HasMatrix => queued_with_cov + Pending
                 <= 1 + Cardinality(Edges \ Touched(virgin_bits)) + Cardinality(var_bytes)

Sizes == {queue[q].bitmap_size : q \in Calibrated}

\* MinimumAttained, with a minimum that is one.
MinOf(m, S) == m \in S /\ \A s \in S : m <= s
Attained == HasMatrix => MinOf(min_bitmap_size, {UintMax} \cup Sizes)

\* As long as calibration has seen no decrease, what it has seen is no smaller
\* than the minimum.
NotSmaller ==
  pc = "cal" /\ HasMatrix /\ cal.new_bits <= 16 /\ Sum(cal.q) # NULL =>
    /\ count_bytes(Sum(cal.q)) >= min_bitmap_size
    /\ cal.cur > 0 => count_bytes(trace_bits) >= min_bitmap_size

\* The hang map stays as it was, and once a seed has passed the dry run the
\* minimum is the size of a trace.
Fuzzing == pc \in {"idle", "save"} \/ (Calibrating /\ cal.caller # "dry")
Small == min_bitmap_size <= Cardinality(Edges)
HangMap ==
  /\ virgin_tmout = [e \in Edges |-> Virgin]
  /\ Fuzzing => HasMatrix /\ Small
  /\ pc = "ret" /\ HasMatrix /\ cal.fault = "CRASH" /\ ~stop_soon => Small
  /\ pc = "dry" \/ Calibrating => \A q \in Ids : q < idx => queue[q].disabled \/ Small

IInv == TypeOK /\ TouchedHitByAll /\ CalOwn /\ DryOrder /\ Unborn /\ Paid /\ Attained
        /\ NotSmaller /\ HangMap

----------------------------------------------------------------------------
(* The coverage map                                                        *)

\* A trace hits finitely many edges, and fewer than UintMax.
LEMMA CountBytes ==
  ASSUME NEW t
  PROVE  /\ IsFiniteSet(HitEdges(t)) /\ count_bytes(t) \in Nat
         /\ count_bytes(t) <= Cardinality(Edges)
         /\ Cardinality(Edges) \in Nat /\ Cardinality(Edges) < UintMax
<1>1. HitEdges(t) \in SUBSET Edges
  BY DEF HitEdges
<1>2. IsFiniteSet(HitEdges(t)) /\ Cardinality(HitEdges(t)) <= Cardinality(Edges)
  BY <1>1, EdgesAssumption, FS_Subset
<1>3. Cardinality(HitEdges(t)) \in Nat /\ Cardinality(Edges) \in Nat
  BY <1>2, EdgesAssumption, FS_CardinalityType
<1>4. Cardinality(Edges) < UintMax
  BY <1>3, UintMaxAssumption
<1> QED
  BY <1>2, <1>3, <1>4 DEF count_bytes

\* The sum of the hit counts is a natural number.
LEMMA SumWordNat ==
  ASSUME NEW t \in Trace
  PROVE  sum_word(t) \in Nat
<1> DEFINE hits == [e \in Edges |-> t[e] * (IF Lane[e] = 1 THEN 256 ELSE 1)]
<1>1. \A e \in Edges : hits[e] \in Nat
  BY DEF Trace, Byte
<1>2. sum_word(t) = SumOf(hits, Edges)
  BY Zenon DEF sum_word, SumOf
<1> HIDE DEF hits
<1> QED
  BY <1>1, <1>2, SumNat, EdgesAssumption

\* Classified and simplified traces are traces, and classification keeps which
\* edges are hit.
LEMMA ClassifyType ==
  ASSUME NEW t \in Trace
  PROVE  classify_counts(t) \in Trace /\ simplify_trace(t) \in Trace
         /\ HitEdges(simplify_trace(t)) = Edges
BY DEF classify_counts, count_class_lookup8, simplify_trace, Trace, Byte, HitEdges

\* A byte not hit has no bits.
LEMMA NoBits == BitsOf(0) = {}
BY DEF BitsOf, Bit

\* What few_bits tells by its bits.
LEMMA CodeBits ==
  ASSUME NEW a \in {0, 1}, NEW b \in {0, 1}, NEW c \in {0, 1}
  PROVE  /\ 16 + 4 * a + 2 * b + c \in 16..23
         /\ CovBit(16 + 4 * a + 2 * b + c) <=> b = 1
         /\ 16 + 4 * a + 2 * b + c <= 16 => a = 0 /\ b = 0 /\ c = 0
BY DEF CovBit

\* The codes of has_new_bits and has_few_bits, and what they leave touched.
LEMMA FewFacts ==
  ASSUME NEW m \in BOOLEAN, NEW t \in Trace, NEW v \in VirginMap, NEW c \in Nat,
         min_bitmap_size \in Nat, min_actual_cnts \in Nat
  PROVE  LET few == FewBits(m, t, v, c)
         IN  /\ few.ret \in 0..23 /\ few.virgin \in VirginMap
             /\ ~m => /\ few.ret <= 2
                      /\ Touched(few.virgin) \subseteq Touched(v) \cup HitEdges(t)
             /\ m => /\ few.ret >= 16
                     /\ Touched(few.virgin) = Touched(v) \cap HitEdges(t)
                     /\ CovBit(few.ret) <=> Lost(t, v) # {}
                     /\ few.ret <= 16 => count_bytes(t) >= min_bitmap_size
<1>1. CASE ~m
  <2>1. FewBits(m, t, v, c) = has_new_bits(t, v)
    BY <1>1 DEF FewBits, has_few_bits
  <2>2. has_new_bits(t, v).ret \in 0..2
    BY DEF has_new_bits
  <2>3. has_new_bits(t, v).virgin = [e \in Edges |-> v[e] \ BitsOf(t[e])]
    BY DEF has_new_bits
  <2>4. has_new_bits(t, v).virgin \in VirginMap
    BY <2>3 DEF VirginMap
  <2>5. Touched(has_new_bits(t, v).virgin) \subseteq Touched(v) \cup HitEdges(t)
    BY <2>3, NoBits DEF Touched, HitEdges
  <2> QED
    BY <1>1, <2>1, <2>2, <2>4, <2>5
<1>2. CASE m
  <2> DEFINE a == Flag(count_bytes(t) < min_bitmap_size)
             b == Flag(Lost(t, v) # {})
             d == Flag(FreshTouchedWord(t, v) /\ c < min_actual_cnts)
             few == FewBits(m, t, v, c)
  <2>1. few.ret = 16 + 4 * a + 2 * b + d /\ few.virgin = ForgetLost(t, v)
    BY <1>2 DEF FewBits, has_few_bits, DecreaseCode
  <2>2. a \in {0, 1} /\ b \in {0, 1} /\ d \in {0, 1}
    BY DEF Flag
  <2>3. (b = 1 <=> Lost(t, v) # {}) /\ (a = 0 => count_bytes(t) >= min_bitmap_size)
    BY CountBytes DEF Flag
  <2>4. few.virgin \in VirginMap /\ Touched(few.virgin) = Touched(v) \cap HitEdges(t)
    BY <2>1 DEF ForgetLost, Lost, Touched, HitEdges, VirginMap, Virgin
  <2> HIDE DEF a, b, d, few
  <2>5. few.ret \in 16..23 /\ (CovBit(few.ret) <=> b = 1) /\ (few.ret <= 16 => a = 0)
    BY <2>1, <2>2, CodeBits
  <2>6. few.ret \in 0..23 /\ few.ret >= 16
    BY <2>5
  <2> QED
    BY <1>2, <2>3, <2>4, <2>5, <2>6, Zenon DEF few
<1> QED
  BY <1>1, <1>2

\* Combine keeps to the codes, and forgets no decrease.
LEMMA CombineFacts ==
  ASSUME NEW a \in 0..23, NEW b \in 0..23
  PROVE  /\ Combine(a, b) \in {a, b}
         /\ Combine(a, b) <= 16 => a <= 16 /\ b <= 16
         /\ a <= 2 /\ b <= 2 => Combine(a, b) <= 2
BY DEF Combine
----------------------------------------------------------------------------
(* Types                                                                   *)

\* What the comparisons of a trace with a virgin map start from.
LEMMA MinType ==
  ASSUME TypeOK
  PROVE  HasMatrix \in BOOLEAN /\ min_bitmap_size \in Nat /\ min_actual_cnts \in Nat
BY UintMaxAssumption DEF TypeOK, HasMatrix

\* Entering calibrate_case keeps the types of what it sets.
LEMMA EnterType ==
  ASSUME TypeOK, NEW Q \in [Ids -> Entry], NEW m \in BOOLEAN, NEW q \in Ids,
         NEW from \in {"dry", "save", "one"}, NEW t \in Trace, NEW c \in Nat,
         NEW v \in VirginMap, CalEnter(Q, m, q, from, t, c, v)
  PROVE  /\ queue' \in [Ids -> Entry] /\ first_trace' \in Trace /\ virgin_bits' \in VirginMap
         /\ cal' \in CalLocals /\ pc' = "cal"
<1> DEFINE few == FewBits(m, t, v, c)
<1>1. few.ret \in 0..23 /\ few.virgin \in VirginMap
  BY FewFacts, MinType
<1>2. Combine(0, few.ret) \in 0..23
  BY <1>1, CombineFacts
<1>3. /\ queue' = [Q EXCEPT ![q].cal_failed = @ + 1]
      /\ first_trace' \in {t, first_trace} /\ virgin_bits' \in {few.virgin, v} /\ pc' = "cal"
  BY DEF CalEnter
<1> DEFINE nb == IF Q[q].exec_cksum # NULL THEN Combine(0, few.ret) ELSE 0
<1>4. nb \in 0..23
  BY <1>2
<1>5. cal' = [q |-> q, caller |-> from, var |-> FALSE, new_bits |-> nb,
              cur |-> 0, max |-> CAL_CYCLES, fault |-> "OK"]
  BY Zenon DEF CalEnter
<1>7. cal' \in CalLocals
  <2> HIDE DEF nb
  <2> QED
    BY <1>4, <1>5, BoundsAssumption DEF CalLocals, Fault
<1>6. queue' \in [Ids -> Entry]
  BY <1>3 DEF Entry
<1> QED
  BY <1>1, <1>3, <1>6, <1>7 DEF TypeOK

\* Leaving it does as well.
LEMMA LeaveType ==
  ASSUME TypeOK, NEW Q \in [Ids -> Entry], NEW f \in Fault, CalLeave(Q, f)
  PROVE  queue' \in [Ids -> Entry] /\ queued_with_cov' \in Nat /\ cal' \in CalLocals /\ pc' = "ret"
<1>1. cal.q \in Ids /\ cal.var \in BOOLEAN
  BY DEF TypeOK, CalLocals
<1> DEFINE a == Q[cal.q].has_new_cov \/ (CovBit(cal.new_bits) /\ ~Q[cal.q].has_new_cov)
           b == Q[cal.q].var_behavior \/ cal.var
<1>5. a \in BOOLEAN /\ b \in BOOLEAN
  BY Zenon
<1>6. queue' = [Q EXCEPT ![cal.q].has_new_cov = a, ![cal.q].var_behavior = b]
  BY DEF CalLeave
<1>2. queue' \in [Ids -> Entry]
  <2> HIDE DEF a, b
  <2> QED
    BY <1>1, <1>5, <1>6 DEF Entry
<1>3. queued_with_cov' \in Nat
  BY DEF CalLeave, Flag, TypeOK
<1>4. cal' \in CalLocals
  BY DEF CalLeave, TypeOK, CalLocals
<1> QED
  BY <1>2, <1>3, <1>4 DEF CalLeave

\* A run that counts in a calibration.
LEMMA CrashedType ==
  ASSUME TypeOK, NEW r \in Runs, CalRunCrashed(r)
  PROVE  /\ trace_bits' \in Trace /\ actual_counts' \in Nat /\ first_trace' \in Trace
         /\ virgin_bits' \in VirginMap /\ var_bytes' \subseteq Edges
         /\ queue' \in [Ids -> Entry] /\ cal' \in CalLocals
<1> DEFINE t == classify_counts(r.trace)
           few == FewBits(HasMatrix, t, virgin_bits, sum_word(r.trace))
           code == Combine(cal.new_bits, few.ret)
<1>1. r.trace \in Trace
  BY RunsAssumption
<1>2. t \in Trace /\ sum_word(r.trace) \in Nat
  BY <1>1, ClassifyType, SumWordNat
<1>3. few.ret \in 0..23 /\ few.virgin \in VirginMap
  <2>1. virgin_bits \in VirginMap
    BY DEF TypeOK
  <2> QED
    BY <1>2, <2>1, FewFacts, MinType
<1>4. cal.q \in Ids /\ cal.cur \in Nat /\ cal.new_bits \in 0..23
  BY DEF TypeOK, CalLocals
<1>5. code \in 0..23
  BY <1>3, <1>4, CombineFacts
<1>6. trace_bits' = t /\ actual_counts' = sum_word(r.trace)
  BY DEF CalRunCrashed
<1>7. first_trace' \in {t, first_trace} /\ var_bytes' \subseteq Edges
  BY DEF CalRunCrashed, TypeOK
<1>8. virgin_bits' \in VirginMap
  <2>1. \E M \in SUBSET Edges :
          \/ virgin_bits' \in {virgin_bits, few.virgin}
          \/ virgin_bits' = [e \in Edges |-> IF e \in M THEN {} ELSE few.virgin[e]]
    BY DEF CalRunCrashed
  <2> QED
    BY <2>1, <1>3 DEF TypeOK, VirginMap
<1>9. queue' = queue \/ queue' = [queue EXCEPT ![cal.q].exec_cksum = t]
  BY DEF CalRunCrashed
<1>10. queue' \in [Ids -> Entry]
  BY <1>2, <1>4, <1>9 DEF TypeOK, Entry
<1>11. \/ cal' = [cal EXCEPT !.cur = @ + 1]
       \/ cal' = [cal EXCEPT !.cur = @ + 1, !.new_bits = code, !.var = TRUE, !.max = CAL_CYCLES_LONG]
       \/ cal' = [cal EXCEPT !.cur = @ + 1, !.new_bits = code]
  BY DEF CalRunCrashed
<1>12. cal' \in CalLocals
  <2> HIDE DEF code
  <2>1. cal.cur + 1 \in Nat /\ CAL_CYCLES_LONG \in Nat /\ cal \in CalLocals
    BY <1>4, BoundsAssumption DEF TypeOK
  <2>2. [cal EXCEPT !.cur = @ + 1] \in CalLocals
    BY <2>1 DEF CalLocals
  <2>3. [cal EXCEPT !.cur = @ + 1, !.new_bits = code] \in CalLocals
    BY <1>5, <2>1 DEF CalLocals
  <2>4. [cal EXCEPT !.cur = @ + 1, !.new_bits = code, !.var = TRUE,
                    !.max = CAL_CYCLES_LONG] \in CalLocals
    BY <1>5, <2>1 DEF CalLocals
  <2> QED
    BY <1>11, <2>2, <2>3, <2>4
<1> QED
  BY <1>2, <1>6, <1>7, <1>8, <1>10, <1>12 DEF TypeOK

\* Every step keeps the types.
LEMMA TypeStep == TypeOK /\ [Next]_vars => TypeOK'
<1> SUFFICES ASSUME TypeOK, [Next]_vars PROVE TypeOK'
  OBVIOUS
<1>1. ASSUME NEW r \in Runs, CalRun(r) PROVE TypeOK'
  <2>1. r.trace \in Trace /\ r.fault \in Fault
    BY RunsAssumption
  <2>2. CASE CalRunFailed(r)
    <3>1. \E f \in Fault : CalLeave(queue, f)
      BY <2>1, <2>2 DEF CalRunFailed, Fault
    <3>2. queue' \in [Ids -> Entry] /\ queued_with_cov' \in Nat /\ cal' \in CalLocals /\ pc' = "ret"
      BY <3>1, LeaveType DEF TypeOK
    <3> QED
      BY <1>1, <2>1, <2>2, <3>2 DEF CalRun, CalRunFailed, TypeOK, minVars, dryVars
  <2>3. CASE CalRunCrashed(r)
    BY <1>1, <2>3, CrashedType DEF CalRun, CalRunCrashed, TypeOK, minVars, dryVars
  <2> QED
    BY <1>1, <2>2, <2>3 DEF CalRun
<1>2. ASSUME NEW r \in Runs, FuzzRun(r) PROVE TypeOK'
  <2>1. r.trace \in Trace /\ r.fault \in Fault
    BY RunsAssumption
  <2> QED
    BY <1>2, <2>1, BoundsAssumption DEF FuzzRun, TypeOK, minVars, dryVars, queueVars
<1>3. CASE CalEnd
  <2> DEFINE Q == [queue EXCEPT ![cal.q].bitmap_size = count_bytes(trace_bits),
                                ![cal.q].cal_failed = 0]
  <2>1. count_bytes(trace_bits) \in Nat
    BY CountBytes
  <2>2. Q \in [Ids -> Entry] /\ "CRASH" \in Fault /\ CalLeave(Q, "CRASH")
    BY <1>3, <2>1 DEF CalEnd, TypeOK, Entry, CalLocals, Fault
  <2>3. queue' \in [Ids -> Entry] /\ queued_with_cov' \in Nat /\ cal' \in CalLocals /\ pc' = "ret"
    BY <2>2, LeaveType
  <2>4. min_bitmap_size' \in 0..UintMax /\ min_actual_cnts' \in 0..UintMax
    BY <1>3, <2>1, UintMaxAssumption DEF CalEnd, TypeOK
  <2> QED
    BY <1>3, <2>3, <2>4 DEF CalEnd, TypeOK, mapVars, dryVars
<1>4. CASE DryRunSeed
  <2>1. idx \in Ids /\ HasMatrix \in BOOLEAN
    BY <1>4, BoundsAssumption DEF DryRunSeed, TypeOK, Ids, HasMatrix
  <2>2. /\ queue' \in [Ids -> Entry] /\ first_trace' \in Trace /\ virgin_bits' \in VirginMap
        /\ cal' \in CalLocals /\ pc' = "cal"
    BY <1>4, <2>1, EnterType DEF DryRunSeed, TypeOK
  <2> QED
    BY <1>4, <2>2 DEF DryRunSeed, TypeOK, minVars, dryVars
<1>5. CASE MatrixBirth
  <2>1. cal.q \in Ids
    BY DEF TypeOK, CalLocals
  <2>2. /\ queue' \in [Ids -> Entry] /\ first_trace' \in Trace /\ virgin_bits' \in VirginMap
        /\ cal' \in CalLocals /\ pc' = "cal"
    BY <1>5, <2>1, EnterType DEF MatrixBirth, TypeOK
  <2> QED
    BY <1>5, <2>1, <2>2 DEF MatrixBirth, TypeOK, minVars, dryVars, Ids
<1>6. CASE DryRunResult
  <2> DEFINE skipped == cal.fault = "TMOUT" /\ timeout_given
             chances == IF skipped THEN CAL_CHANCES ELSE queue[cal.q].cal_failed
             off(other) == queue[cal.q].disabled \/ skipped \/ other
  <2>1. queue' \in [Ids -> Entry]
    <3>1. cal.q \in Ids /\ queue[cal.q].cal_failed \in Nat
      BY DEF TypeOK, CalLocals, Entry
    <3>2. chances \in Nat
      BY <3>1, BoundsAssumption
    <3>3. queue' = queue \/ \E other \in BOOLEAN :
            queue' = [queue EXCEPT ![cal.q].cal_failed = chances, ![cal.q].disabled = off(other)]
      BY <1>6 DEF DryRunResult
    <3>4. \A other : off(other) \in BOOLEAN
      BY Zenon
    <3> HIDE DEF chances, off
    <3>5. ASSUME NEW d \in BOOLEAN
          PROVE  [queue EXCEPT ![cal.q].cal_failed = chances, ![cal.q].disabled = d]
                   \in [Ids -> Entry]
      BY <3>1, <3>2 DEF TypeOK, Entry
    <3>6. CASE queue' = queue
      BY <3>6 DEF TypeOK
    <3>7. CASE queue' # queue
      <4>1. PICK other \in BOOLEAN :
              queue' = [queue EXCEPT ![cal.q].cal_failed = chances, ![cal.q].disabled = off(other)]
        BY <3>3, <3>7
      <4>2. off(other) \in BOOLEAN
        BY <3>4
      <4> DEFINE d == off(other)
      <4> HIDE DEF d
      <4>3. d \in BOOLEAN /\ queue' = [queue EXCEPT ![cal.q].cal_failed = chances,
                                                   ![cal.q].disabled = d]
        BY <4>1, <4>2, Zenon DEF d
      <4> QED
        BY <3>5, <4>3, Zenon
    <3> QED
      BY <3>6, <3>7
  <2>2. idx' \in Nat \ {0} /\ cal_failures' \in Nat /\ pc' \in {"stop", "fatal", "dry"}
    <3>1. Flag(skipped) \in Nat /\ idx \in Nat \ {0} /\ cal_failures \in Nat
      BY DEF Flag, TypeOK
    <3>2. \/ idx' = idx /\ cal_failures' = cal_failures /\ pc' \in {"stop", "fatal"}
          \/ idx' = idx + 1 /\ cal_failures' = cal_failures + Flag(skipped) /\ pc' = "dry"
      BY <1>6 DEF DryRunResult, dryVars
    <3> HIDE DEF skipped
    <3> QED
      BY <3>1, <3>2
  <2> QED
    BY <1>6, <2>1, <2>2 DEF DryRunResult, TypeOK, mapVars, minVars
<1>7. CASE DryRunEnd
  <2>1. \E D : queue' = [q \in Ids |-> [queue[q] EXCEPT !.disabled = @ \/ q \in D]] \/ queue' = queue
    BY <1>7 DEF DryRunEnd
  <2>2. queue' \in [Ids -> Entry]
    <3>1. \A q, D : (queue[q].disabled \/ q \in D) \in BOOLEAN
      BY Zenon
    <3>2. \A q \in Ids, d \in BOOLEAN : [queue[q] EXCEPT !.disabled = d] \in Entry
      BY DEF TypeOK, Entry
    <3>3. PICK D : \/ queue' = [q \in Ids |-> [queue[q] EXCEPT !.disabled = @ \/ q \in D]]
                   \/ queue' = queue
      BY <2>1
    <3>4. \A q \in Ids : [queue[q] EXCEPT !.disabled = @ \/ q \in D] \in Entry
      BY <3>1, <3>2, Zenon
    <3> QED
      BY <3>3, <3>4, Zenon DEF TypeOK
  <2> QED
    BY <1>7, <2>2 DEF DryRunEnd, TypeOK, mapVars, minVars, dryVars
<1>8. CASE SaveTmout
  <2>1. SaveTrace \in Trace /\ SaveCounts \in Nat
    BY ClassifyType, SumWordNat DEF SaveTrace, SaveCounts, TypeOK
  <2>2. simplify_trace(SaveTrace) \in Trace
    BY <2>1, ClassifyType
  <2>3. HangBits.virgin \in VirginMap
    <3>1. virgin_tmout \in VirginMap
      BY DEF TypeOK
    <3> QED
      BY <2>1, <2>2, <3>1, FewFacts, MinType DEF HangBits
  <2> QED
    BY <1>8, <2>1, <2>2, <2>3 DEF SaveTmout, TypeOK, minVars, queueVars, dryVars
<1>9. CASE SaveCrashBoring \/ SaveCrash
  <2>1. SaveTrace \in Trace /\ SaveCounts \in Nat
    BY ClassifyType, SumWordNat DEF SaveTrace, SaveCounts, TypeOK
  <2>2. CrashBits.virgin \in VirginMap /\ HasMatrix \in BOOLEAN
    <3>1. virgin_bits \in VirginMap
      BY DEF TypeOK
    <3> QED
      BY <2>1, <3>1, FewFacts, MinType DEF CrashBits
  <2>3. CASE SaveCrashBoring
    BY <2>1, <2>2, <2>3 DEF SaveCrashBoring, TypeOK, minVars, queueVars, dryVars
  <2>4. CASE SaveCrash
    <3> DEFINE q == queued_items + 1
               new == [NewEntry EXCEPT !.exec_cksum = SaveTrace, !.has_new_cov = CovBit(CrashBits.ret)]
    <3>1. q \in Ids /\ queued_items' = q /\ queued_items' \in Seeds..MaxEntries
      BY <2>4, BoundsAssumption DEF SaveCrash, TypeOK, Ids
    <3>2. new \in Entry
      BY <2>1 DEF NewEntry, Entry, CovBit
    <3>3. [queue EXCEPT ![q] = new] \in [Ids -> Entry]
      BY <3>1, <3>2 DEF TypeOK
    <3>4. CalEnter([queue EXCEPT ![q] = new], HasMatrix, q, "save", SaveTrace, SaveCounts,
                   CrashBits.virgin)
      BY <2>4 DEF SaveCrash
    <3>5. /\ queue' \in [Ids -> Entry] /\ first_trace' \in Trace /\ virgin_bits' \in VirginMap
          /\ cal' \in CalLocals /\ pc' = "cal"
      <4> HIDE DEF new, q
      <4> QED
        BY <2>1, <2>2, <3>1, <3>3, <3>4, EnterType
    <3>6. queued_with_cov' \in Nat
      BY <2>4 DEF SaveCrash, TypeOK, Flag
    <3> QED
      BY <2>1, <2>4, <3>1, <3>5, <3>6 DEF SaveCrash, TypeOK, minVars, dryVars
  <2> QED
    BY <1>9, <2>3, <2>4
<1>10. ASSUME NEW q \in Ids, FuzzOneRecalibrate(q) PROVE TypeOK'
  <2>1. [queue EXCEPT ![q].exec_cksum = NULL] \in [Ids -> Entry] /\ HasMatrix \in BOOLEAN
    BY DEF TypeOK, Entry, HasMatrix
  <2>2. /\ queue' \in [Ids -> Entry] /\ first_trace' \in Trace /\ virgin_bits' \in VirginMap
        /\ cal' \in CalLocals /\ pc' = "cal"
    BY <1>10, <2>1, EnterType DEF FuzzOneRecalibrate, TypeOK
  <2> QED
    BY <1>10, <2>2 DEF FuzzOneRecalibrate, TypeOK, minVars, dryVars
<1>11. CASE SaveCrashElsewhere \/ SaveOther \/ CalReturn \/ HandleStopSig \/ Stop \/ UNCHANGED vars
  BY <1>11 DEF SaveCrashElsewhere, SaveOther, CalReturn, HandleStopSig, Stop, vars, TypeOK,
     mapVars, minVars, queueVars, dryVars
<1> QED
  BY <1>1, <1>2, <1>3, <1>4, <1>5, <1>6, <1>7, <1>8, <1>9, <1>10, <1>11 DEF Next

----------------------------------------------------------------------------
(* What the parts of a step change                                         *)

\* The entry of calibrate_case, field by field.
LEMMA EnterFacts ==
  ASSUME NEW Q \in [Ids -> Entry], NEW m, NEW q \in Ids, NEW from, NEW t, NEW c, NEW v,
         CalEnter(Q, m, q, from, t, c, v)
  PROVE  /\ \A p \in Ids : /\ queue'[p].exec_cksum = Q[p].exec_cksum
                           /\ queue'[p].bitmap_size = Q[p].bitmap_size
                           /\ queue'[p].disabled = Q[p].disabled
                           /\ queue'[p].has_new_cov = Q[p].has_new_cov
                           /\ p # q => queue'[p].cal_failed = Q[p].cal_failed
         /\ queue'[q].cal_failed > 0
         /\ cal'.q = q /\ cal'.caller = from /\ cal'.cur = 0 /\ cal'.max > 0 /\ pc' = "cal"
         /\ Q[q].exec_cksum = NULL =>
              cal'.new_bits = 0 /\ virgin_bits' = v /\ first_trace' = first_trace
<1> DEFINE nb == IF Q[q].exec_cksum # NULL THEN Combine(0, FewBits(m, t, v, c).ret) ELSE 0
<1>1. cal' = [q |-> q, caller |-> from, var |-> FALSE, new_bits |-> nb,
              cur |-> 0, max |-> CAL_CYCLES, fault |-> "OK"]
  BY Zenon DEF CalEnter
<1>2. queue' = [Q EXCEPT ![q].cal_failed = @ + 1] /\ pc' = "cal"
  BY Zenon DEF CalEnter
<1>3. Q[q].exec_cksum = NULL => nb = 0 /\ virgin_bits' = v /\ first_trace' = first_trace
  BY DEF CalEnter
<1>4. /\ \A p \in Ids : /\ queue'[p].exec_cksum = Q[p].exec_cksum
                        /\ queue'[p].bitmap_size = Q[p].bitmap_size
                        /\ queue'[p].disabled = Q[p].disabled
                        /\ queue'[p].has_new_cov = Q[p].has_new_cov
                        /\ p # q => queue'[p].cal_failed = Q[p].cal_failed
      /\ queue'[q].cal_failed > 0
  BY <1>2 DEF Entry
<1> HIDE DEF nb
<1>5. cal'.q = q /\ cal'.caller = from /\ cal'.cur = 0 /\ cal'.max > 0 /\ cal'.new_bits = nb
  BY <1>1, BoundsAssumption
<1> QED
  BY <1>2, <1>3, <1>4, <1>5

\* The first code of a calibration is kept as it is.
LEMMA CombineZero ==
  ASSUME NEW b \in 0..23
  PROVE  Combine(0, b) = b
BY DEF Combine

\* The end of calibrate_case, field by field.
LEMMA LeaveFacts ==
  ASSUME TypeOK, NEW Q \in [Ids -> Entry], NEW f, CalLeave(Q, f)
  PROVE  /\ \A p \in Ids : /\ queue'[p].exec_cksum = Q[p].exec_cksum
                           /\ queue'[p].bitmap_size = Q[p].bitmap_size
                           /\ queue'[p].disabled = Q[p].disabled
                           /\ queue'[p].cal_failed = Q[p].cal_failed
         /\ cal'.q = cal.q /\ cal'.caller = cal.caller /\ cal'.new_bits = cal.new_bits
         /\ cal'.fault = f /\ pc' = "ret"
         /\ queued_with_cov' = queued_with_cov + Flag(CovBit(cal.new_bits) /\ ~Q[cal.q].has_new_cov)
<1> DEFINE a == Q[cal.q].has_new_cov \/ (CovBit(cal.new_bits) /\ ~Q[cal.q].has_new_cov)
           b == Q[cal.q].var_behavior \/ cal.var
<1>1. queue' = [Q EXCEPT ![cal.q].has_new_cov = a, ![cal.q].var_behavior = b]
  BY DEF CalLeave
<1>2. \A p \in Ids : /\ queue'[p].exec_cksum = Q[p].exec_cksum
                     /\ queue'[p].bitmap_size = Q[p].bitmap_size
                     /\ queue'[p].disabled = Q[p].disabled
                     /\ queue'[p].cal_failed = Q[p].cal_failed
  <2> HIDE DEF a, b
  <2> QED
    BY <1>1 DEF Entry
<1>3. /\ cal'.q = cal.q /\ cal'.caller = cal.caller /\ cal'.new_bits = cal.new_bits
      /\ cal'.fault = f
  BY DEF CalLeave, TypeOK, CalLocals
<1> QED
  BY <1>2, <1>3 DEF CalLeave

\* An edge lost adds one to the edges not touched; an edge marked variable takes
\* one from them at most, and is marked once.
LEMMA Credit ==
  ASSUME NEW T \in SUBSET Edges, NEW L \in SUBSET T, NEW V \in SUBSET Edges,
         NEW M \in SUBSET (Edges \ V)
  PROVE  Cardinality(Edges \ ((T \ L) \cup M)) + Cardinality(V \cup M)
           >= Cardinality(Edges \ T) + Cardinality(V) + Flag(L # {})
<1> DEFINE C == Edges \ T
           D == Edges \ ((T \ L) \cup M)
<1>1. \A S \in SUBSET Edges : IsFiniteSet(S) /\ Cardinality(S) \in Nat
  BY EdgesAssumption, FS_Subset, FS_CardinalityType
<1>2. Cardinality(C \cup L) = Cardinality(C) + Cardinality(L)
  <2>1. IsFiniteSet(C) /\ IsFiniteSet(L) /\ C \cap L = {}
    BY <1>1
  <2>2. Cardinality(C) \in Nat /\ Cardinality(L) \in Nat /\ Cardinality(C \cap L) = 0
    BY <1>1, <2>1, FS_EmptySet
  <2> HIDE DEF C
  <2>3. Cardinality(C \cup L) = Cardinality(C) + Cardinality(L) - Cardinality(C \cap L)
    BY <2>1, FS_Union
  <2> QED
    BY <2>2, <2>3
<1>3. Cardinality(V \cup M) = Cardinality(V) + Cardinality(M)
  <2>1. IsFiniteSet(V) /\ IsFiniteSet(M) /\ V \cap M = {}
    BY <1>1
  <2>2. Cardinality(V) \in Nat /\ Cardinality(M) \in Nat /\ Cardinality(V \cap M) = 0
    BY <1>1, <2>1, FS_EmptySet
  <2>3. Cardinality(V \cup M) = Cardinality(V) + Cardinality(M) - Cardinality(V \cap M)
    BY <2>1, FS_Union
  <2> QED
    BY <2>2, <2>3
<1>4. Cardinality(C \cup L) <= Cardinality(D) + Cardinality(M)
  <2>1. IsFiniteSet(D) /\ IsFiniteSet(M) /\ IsFiniteSet(D \cup M) /\ C \cup L \subseteq D \cup M
    BY <1>1
  <2>2. /\ Cardinality(D) \in Nat /\ Cardinality(M) \in Nat /\ Cardinality(D \cap M) \in Nat
        /\ Cardinality(D \cup M) \in Nat /\ Cardinality(C \cup L) \in Nat
    BY <1>1
  <2> HIDE DEF C, D
  <2>3. Cardinality(C \cup L) <= Cardinality(D \cup M)
    BY <2>1, FS_Subset
  <2>4. Cardinality(D \cup M) = Cardinality(D) + Cardinality(M) - Cardinality(D \cap M)
    BY <2>1, FS_Union
  <2> QED
    BY <2>2, <2>3, <2>4
<1>5. Flag(L # {}) <= Cardinality(L) /\ Flag(L # {}) \in {0, 1}
  BY <1>1, FS_EmptySet DEF Flag
<1>6. /\ Cardinality(C) \in Nat /\ Cardinality(D) \in Nat /\ Cardinality(L) \in Nat
      /\ Cardinality(M) \in Nat /\ Cardinality(V) \in Nat
  BY <1>1
<1> QED
  BY <1>2, <1>3, <1>4, <1>5, <1>6

\* A step that loses the edges L and marks the edges M variable may find one
\* more coverage change when L is not empty, and none otherwise.
LEMMA PaidStep ==
  ASSUME TypeOK, TypeOK', Paid, HasMatrix, NEW L \in SUBSET Touched(virgin_bits),
         NEW M \in SUBSET (Edges \ var_bytes),
         Touched(virgin_bits)' = (Touched(virgin_bits) \ L) \cup M,
         var_bytes' = var_bytes \cup M,
         queued_with_cov' + Pending' <= queued_with_cov + Pending + Flag(L # {})
  PROVE  Paid'
<1> DEFINE T == Touched(virgin_bits)
           old == Cardinality(Edges \ T) + Cardinality(var_bytes)
           new == Cardinality(Edges \ ((T \ L) \cup M)) + Cardinality(var_bytes \cup M)
<1>1. T \in SUBSET Edges /\ var_bytes \in SUBSET Edges
  BY DEF Touched, TypeOK
<1>2. new >= old + Flag(L # {})
  <2>1. new >= Cardinality(Edges \ T) + Cardinality(var_bytes) + Flag(L # {})
    <3> HIDE DEF T
    <3> QED
      BY <1>1, Credit DEF T
  <2> QED
    BY <2>1
<1>3. \A S \in SUBSET Edges : Cardinality(S) \in Nat
  BY EdgesAssumption, FS_Subset, FS_CardinalityType
<1>4. old \in Nat /\ new \in Nat
  <2>1. Edges \ T \in SUBSET Edges /\ Edges \ ((T \ L) \cup M) \in SUBSET Edges
        /\ var_bytes \cup M \in SUBSET Edges
    BY <1>1
  <2> QED
    BY <1>1, <1>3, <2>1
<1>5. queued_with_cov + Pending <= 1 + old
  <2>1. queued_with_cov + Pending <= 1 + Cardinality(Edges \ T) + Cardinality(var_bytes)
    BY DEF Paid
  <2> QED
    BY <1>1, <1>3, <2>1
<1>6. queued_with_cov \in Nat /\ queued_with_cov' \in Nat /\ Flag(L # {}) \in {0, 1}
      /\ Pending \in {0, 1} /\ Pending' \in {0, 1}
  BY DEF TypeOK, Flag, Pending
<1>7. queued_with_cov' + Pending' <= 1 + new
  <2> DEFINE f == Flag(L # {})
  <2>1. /\ queued_with_cov' + Pending' <= queued_with_cov + Pending + f
        /\ new >= old + f /\ f \in {0, 1}
    BY <1>2, <1>6, Zenon
  <2>2. \A a, b, x, y, g, m, n \in Nat :
          a + b <= 1 + m /\ n >= m + g /\ x + y <= a + b + g => x + y <= 1 + n
    OBVIOUS
  <2>3. /\ queued_with_cov \in Nat /\ queued_with_cov' \in Nat /\ Pending \in Nat
        /\ Pending' \in Nat /\ f \in Nat
    BY <1>6, <2>1
  <2> HIDE DEF old, new, f
  <2> QED
    BY <2>1, <2>2, <2>3, <1>4, <1>5, Zenon
<1>8. queued_with_cov' + Pending'
        <= 1 + Cardinality(Edges \ Touched(virgin_bits)') + Cardinality(var_bytes')
  BY <1>1, <1>3, <1>7
<1> QED
  BY <1>8 DEF Paid

\* The same calibrated entries with the same sizes have the same minimum.
LEMMA AttainedSame ==
  ASSUME Attained, HasMatrix, min_bitmap_size' = min_bitmap_size, Calibrated' = Calibrated,
         \A q \in Calibrated : queue'[q].bitmap_size = queue[q].bitmap_size
  PROVE  Attained'
<1>1. Sizes' = Sizes
  BY DEF Sizes
<1>2. MinOf(min_bitmap_size, {UintMax} \cup Sizes)
  BY DEF Attained
<1> QED
  BY <1>1, <1>2 DEF Attained, MinOf

\* The same touched edges, or fewer.
LEMMA TouchedSame ==
  ASSUME TypeOK, TouchedHitByAll,
         Touched(virgin_bits)' \subseteq Touched(virgin_bits), var_bytes' = var_bytes,
         \A q \in Ids : (Known(q))' => Known(q) /\ queue'[q].exec_cksum = queue[q].exec_cksum
  PROVE  TouchedHitByAll'
<1> SUFFICES ASSUME NEW q \in Ids, (Known(q))'
             PROVE  Touched(virgin_bits)' \ var_bytes' \subseteq HitEdges(queue'[q].exec_cksum)
  BY DEF TouchedHitByAll
<1>1. Known(q) /\ queue'[q].exec_cksum = queue[q].exec_cksum
  OBVIOUS
<1>2. Touched(virgin_bits) \ var_bytes \subseteq HitEdges(queue[q].exec_cksum)
  BY <1>1 DEF TouchedHitByAll
<1> QED
  BY <1>1, <1>2

----------------------------------------------------------------------------
(* The steps                                                               *)

\* perform_dry_run takes up the next seed: it has no checksum yet.
LEMMA SeedStep ==
  ASSUME IInv, TypeOK', DryRunSeed
  PROVE  IInv'
<1> USE DEF IInv
<1>1. idx \in Ids /\ HasMatrix \in BOOLEAN /\ queue[idx].exec_cksum = NULL
  BY BoundsAssumption DEF DryRunSeed, TypeOK, Ids, HasMatrix, DryOrder, Sum
<1>2. /\ \A p \in Ids : /\ queue'[p].exec_cksum = queue[p].exec_cksum
                        /\ queue'[p].bitmap_size = queue[p].bitmap_size
                        /\ queue'[p].disabled = queue[p].disabled
                        /\ queue'[p].has_new_cov = queue[p].has_new_cov
                        /\ p # idx => queue'[p].cal_failed = queue[p].cal_failed
      /\ queue'[idx].cal_failed > 0
      /\ cal'.q = idx /\ cal'.caller = "dry" /\ cal'.cur = 0 /\ cal'.max > 0 /\ pc' = "cal"
      /\ cal'.new_bits = 0 /\ virgin_bits' = virgin_bits /\ first_trace' = first_trace
  <2>1. /\ queue \in [Ids -> Entry] /\ trace_bits \in Trace /\ actual_counts \in Nat
        /\ virgin_bits \in VirginMap
        /\ CalEnter(queue, HasMatrix, idx, "dry", trace_bits, actual_counts, virgin_bits)
    BY DEF TypeOK, DryRunSeed
  <2> QED
    BY <1>1, <2>1, EnterFacts
<1>3. /\ pc = "dry" /\ idx <= queued_items
      /\ UNCHANGED <<trace_bits, virgin_tmout, var_bytes, min_bitmap_size, queued_items,
                     queued_with_cov, testcase_matrix, idx, stop_soon>>
      /\ HasMatrix' = HasMatrix
  BY DEF DryRunSeed, minVars, dryVars, HasMatrix
<1>4. TouchedHitByAll'
  BY <1>2, <1>3, TouchedSame DEF Known, Touched
<1>5. CalOwn'
  BY <1>2, <1>3 DEF CalOwn, Calibrating, Sum
<1>6. DryOrder'
  BY <1>1, <1>2, <1>3 DEF DryOrder, Calibrating, Sum, Ids
<1>7. Unborn'
  BY <1>1, <1>2, <1>3 DEF Unborn, Sum, Touched
<1>8. Paid'
  <2>1. Pending = 0 /\ Pending' = 0
    BY <1>2, <1>3 DEF Pending, Flag, CovBit
  <2> QED
    BY <1>2, <1>3, <2>1 DEF Paid, Touched
<1>9. Attained'
  <2>1. Calibrated' = Calibrated
    BY <1>1, <1>2, <1>3 DEF Calibrated, Known
  <2>2. \A q \in Calibrated : queue'[q].bitmap_size = queue[q].bitmap_size
    BY <1>2 DEF Calibrated
  <2>3. CASE HasMatrix
    BY <1>3, <2>1, <2>2, <2>3, AttainedSame
  <2>4. CASE ~HasMatrix
    BY <1>3, <2>4 DEF Attained
  <2> QED
    BY <2>3, <2>4
<1>10. NotSmaller'
  BY <1>1, <1>2, <1>3 DEF NotSmaller, Sum
<1>11. HangMap'
  BY <1>2, <1>3 DEF HangMap, Fuzzing, Calibrating, Small
<1> QED
  BY <1>4, <1>5, <1>6, <1>7, <1>8, <1>9, <1>10, <1>11

\* The first seed becomes the matrix: no entry counts as calibrated, and a
\* trace of any size is a decrease.
LEMMA BirthStep ==
  ASSUME IInv, TypeOK', MatrixBirth
  PROVE  IInv'
<1> USE DEF IInv
<1> DEFINE few == FewBits(TRUE, trace_bits, virgin_bits, actual_counts)
<1>1. /\ queue \in [Ids -> Entry] /\ trace_bits \in Trace /\ actual_counts \in Nat
      /\ virgin_bits \in VirginMap /\ cal.q \in Ids /\ cal.q = 1 /\ idx = 1
      /\ cal.q <= queued_items /\ cal.caller = "dry" /\ ~HasMatrix
      /\ min_bitmap_size = UintMax /\ queued_with_cov <= 1
  BY DEF TypeOK, CalLocals, MatrixBirth, Unborn, CalOwn, Calibrating
<1>2. \A p \in Ids : p # 1 => queue[p].exec_cksum = NULL
  BY <1>1 DEF MatrixBirth, DryOrder, Calibrating, Sum, Ids
<1>3. /\ \A p \in Ids : /\ queue'[p].exec_cksum = queue[p].exec_cksum
                        /\ queue'[p].disabled = queue[p].disabled
      /\ queue'[1].cal_failed > 0
      /\ cal'.q = 1 /\ cal'.caller = "dry" /\ cal'.cur = 0 /\ cal'.max > 0 /\ pc' = "cal"
      /\ queue[1].exec_cksum = NULL => cal'.new_bits = 0 /\ virgin_bits' = virgin_bits
      /\ queue[1].exec_cksum # NULL => cal'.new_bits = few.ret /\ virgin_bits' = few.virgin
  <2>1. 1 \in Ids /\ CalEnter(queue, TRUE, 1, "dry", trace_bits, actual_counts, virgin_bits)
    BY <1>1 DEF MatrixBirth
  <2>2. few.ret \in 0..23
    BY <1>1, FewFacts, MinType
  <2>3. queue[1].exec_cksum # NULL =>
          cal'.new_bits = Combine(0, few.ret) /\ virgin_bits' = few.virgin
    BY <2>1 DEF CalEnter
  <2>4. \E m : CalEnter(queue, m, 1, "dry", trace_bits, actual_counts, virgin_bits)
    BY <2>1, Zenon
  <2> HIDE DEF few
  <2> QED
    BY <1>1, <2>1, <2>2, <2>3, <2>4, EnterFacts, CombineZero
<1>4. /\ pc = "ret" /\ HasMatrix'
      /\ UNCHANGED <<trace_bits, virgin_tmout, var_bytes, min_bitmap_size, queued_items,
                     queued_with_cov, idx, stop_soon>>
  BY <1>1 DEF MatrixBirth, minVars, dryVars, HasMatrix
<1>5. /\ Touched(few.virgin) = Touched(virgin_bits) \cap HitEdges(trace_bits)
      /\ CovBit(few.ret) <=> Lost(trace_bits, virgin_bits) # {}
      /\ few.ret <= 16 => count_bytes(trace_bits) >= min_bitmap_size
  BY <1>1, FewFacts, MinType
<1> HIDE DEF few
<1>6. Touched(virgin_bits)' \subseteq Touched(virgin_bits)
  <2>1. virgin_bits' = virgin_bits \/ virgin_bits' = few.virgin
    BY <1>3
  <2>2. Touched(virgin_bits)' = Touched(virgin_bits')
    BY DEF Touched
  <2> QED
    BY <1>5, <2>1, <2>2
<1>7. TouchedHitByAll'
  BY <1>3, <1>4, <1>6, TouchedSame DEF Known
<1>8. CalOwn'
  BY <1>1, <1>3, <1>4 DEF CalOwn, Calibrating, Sum
<1>9. DryOrder'
  BY <1>1, <1>2, <1>3, <1>4 DEF DryOrder, Calibrating, Sum, Ids
<1>10. Paid'
  <2> DEFINE C == Edges \ Touched(virgin_bits)'
  <2>1. Cardinality(C) \in Nat /\ Cardinality(var_bytes') \in Nat /\ IsFiniteSet(C)
    <3>1. C \in SUBSET Edges /\ var_bytes' \in SUBSET Edges
      BY DEF TypeOK
    <3> HIDE DEF C
    <3> QED
      BY <3>1, EdgesAssumption, FS_Subset, FS_CardinalityType
  <2>2. Pending' \in {0, 1} /\ (Pending' = 1 => CovBit(cal'.new_bits))
    BY DEF Pending, Flag
  <2>3. CovBit(cal'.new_bits) => C # {}
    <3>1. CASE queue[1].exec_cksum = NULL
      BY <1>3, <3>1 DEF CovBit
    <3>2. CASE queue[1].exec_cksum # NULL
      <4>1. Touched(virgin_bits)' = Touched(few.virgin)
        BY <1>3, <3>2 DEF Touched
      <4> QED
        BY <1>3, <1>5, <3>2, <4>1 DEF Lost, Touched
    <3> QED
      BY <3>1, <3>2
  <2>4. C # {} => Cardinality(C) >= 1
    <3> HIDE DEF C
    <3> QED
      BY <2>1, FS_EmptySet
  <2>5. queued_with_cov' \in Nat /\ queued_with_cov' <= 1
    BY <1>1, <1>4 DEF TypeOK
  <2>6. queued_with_cov' + Pending' <= 1 + Cardinality(C) + Cardinality(var_bytes')
    <3> HIDE DEF C
    <3> QED
      BY <2>1, <2>2, <2>3, <2>4, <2>5
  <2> QED
    BY <2>6 DEF Paid
<1>11. Attained'
  <2>1. Calibrated' = {}
    BY <1>2, <1>3 DEF Calibrated, Known
  <2>2. Sizes' = {}
    BY <2>1 DEF Sizes
  <2>3. min_bitmap_size' = UintMax /\ UintMax \in Nat
    BY <1>1, <1>4, UintMaxAssumption
  <2> QED
    BY <2>2, <2>3 DEF Attained, MinOf
<1>12. NotSmaller'
  <2>1. ASSUME cal'.new_bits <= 16, queue[1].exec_cksum # NULL PROVE FALSE
    <3>1. count_bytes(trace_bits) >= UintMax
      BY <1>1, <1>3, <1>5, <2>1
    <3> QED
      BY <3>1, CountBytes, UintMaxAssumption
  <2> QED
    BY <1>1, <1>3, <2>1 DEF NotSmaller, Sum
<1>13. HangMap'
  BY <1>1, <1>3, <1>4 DEF HangMap, Fuzzing, Calibrating, Small, Ids
<1>14. Unborn'
  BY <1>4 DEF Unborn
<1> QED
  BY <1>7, <1>8, <1>9, <1>10, <1>11, <1>12, <1>13, <1>14

\* fuzz_one forgets the checksum of an entry before it calibrates it again.
LEMMA RecalibrateStep ==
  ASSUME IInv, TypeOK', NEW q \in Ids, FuzzOneRecalibrate(q)
  PROVE  IInv'
<1> USE DEF IInv
<1> DEFINE Q == [queue EXCEPT ![q].exec_cksum = NULL]
<1>1. /\ trace_bits \in Trace /\ actual_counts \in Nat /\ virgin_bits \in VirginMap
      /\ HasMatrix \in BOOLEAN /\ Q \in [Ids -> Entry] /\ Q[q].exec_cksum = NULL
      /\ \A p \in Ids : /\ p # q => Q[p].exec_cksum = queue[p].exec_cksum
                        /\ Q[p].bitmap_size = queue[p].bitmap_size
                        /\ Q[p].disabled = queue[p].disabled
                        /\ p # q => Q[p].cal_failed = queue[p].cal_failed
  BY MinType DEF TypeOK, Entry
<1>2. CalEnter(Q, HasMatrix, q, "one", trace_bits, actual_counts, virgin_bits)
  BY DEF FuzzOneRecalibrate
<1> HIDE DEF Q
<1>3. /\ \A p \in Ids : /\ queue'[p].exec_cksum = Q[p].exec_cksum
                        /\ queue'[p].bitmap_size = Q[p].bitmap_size
                        /\ queue'[p].disabled = Q[p].disabled
                        /\ p # q => queue'[p].cal_failed = Q[p].cal_failed
      /\ queue'[q].cal_failed > 0
      /\ cal'.q = q /\ cal'.caller = "one" /\ cal'.cur = 0 /\ cal'.max > 0 /\ pc' = "cal"
      /\ cal'.new_bits = 0 /\ virgin_bits' = virgin_bits
  BY <1>1, <1>2, EnterFacts
<1>4. /\ pc = "idle" /\ HasMatrix /\ HasMatrix' /\ Small /\ q <= queued_items
      /\ queue[q].cal_failed # 0
      /\ UNCHANGED <<trace_bits, virgin_tmout, var_bytes, min_bitmap_size, queued_items,
                     queued_with_cov, testcase_matrix, idx, stop_soon>>
  BY DEF FuzzOneRecalibrate, minVars, dryVars, HasMatrix, HangMap, Fuzzing
<1>5. TouchedHitByAll'
  BY <1>1, <1>3, <1>4, TouchedSame DEF Known, Touched
<1>6. CalOwn'
  BY <1>3, <1>4 DEF CalOwn, Calibrating
<1>7. DryOrder' /\ Unborn'
  BY <1>3, <1>4 DEF DryOrder, Calibrating, Unborn
<1>8. Paid'
  <2>1. Pending = 0 /\ Pending' = 0
    BY <1>3, <1>4 DEF Pending, Flag, CovBit
  <2> QED
    BY <1>3, <1>4, <2>1 DEF Paid, Touched
<1>9. Attained'
  <2>1. Calibrated' = Calibrated
    BY <1>1, <1>3, <1>4 DEF Calibrated, Known
  <2>2. \A p \in Calibrated : queue'[p].bitmap_size = queue[p].bitmap_size
    BY <1>1, <1>3 DEF Calibrated
  <2> QED
    BY <1>4, <2>1, <2>2, AttainedSame
<1>10. NotSmaller'
  BY <1>1, <1>3 DEF NotSmaller, Sum
<1>11. HangMap'
  BY <1>3, <1>4 DEF HangMap, Fuzzing, Calibrating, Small
<1> QED
  BY <1>5, <1>6, <1>7, <1>8, <1>9, <1>10, <1>11

\* Before fuzzing has begun nothing is saved, so save_if_interesting compares
\* with a matrix, and a trace loses the touched edges it does not hit.
LEMMA SaveFacts ==
  ASSUME IInv, pc = "save"
  PROVE  /\ HasMatrix /\ Small /\ SaveTrace \in Trace /\ SaveCounts \in Nat
         /\ CrashBits.virgin \in VirginMap
         /\ Touched(CrashBits.virgin) = Touched(virgin_bits) \cap HitEdges(SaveTrace)
         /\ CovBit(CrashBits.ret) <=> Lost(SaveTrace, virgin_bits) # {}
<1>1. HasMatrix /\ Small
  BY DEF IInv, HangMap, Fuzzing
<1>2. SaveTrace \in Trace /\ SaveCounts \in Nat
  BY ClassifyType, SumWordNat DEF SaveTrace, SaveCounts, TypeOK, IInv
<1>3. virgin_bits \in VirginMap /\ TypeOK
  BY DEF TypeOK, IInv
<1>4. /\ CrashBits.virgin \in VirginMap
      /\ Touched(CrashBits.virgin) = Touched(virgin_bits) \cap HitEdges(SaveTrace)
      /\ CovBit(CrashBits.ret) <=> Lost(SaveTrace, virgin_bits) # {}
  BY <1>1, <1>2, <1>3, FewFacts, MinType DEF CrashBits
<1> QED
  BY <1>1, <1>2, <1>4

\* A crash that is no decrease.
LEMMA BoringStep ==
  ASSUME IInv, TypeOK', SaveCrashBoring
  PROVE  IInv'
<1> USE DEF IInv
<1> DEFINE L == Lost(SaveTrace, virgin_bits)
<1>1. /\ pc = "save" /\ pc' = "idle" /\ virgin_bits' = CrashBits.virgin
      /\ UNCHANGED <<first_trace, virgin_tmout, var_bytes, min_bitmap_size, queue, queued_items,
                     queued_with_cov, testcase_matrix, idx, cal, stop_soon>>
      /\ HasMatrix' = HasMatrix
  BY DEF SaveCrashBoring, minVars, queueVars, dryVars, HasMatrix
<1>2. HasMatrix /\ Small /\ Touched(virgin_bits)' = Touched(virgin_bits) \ L
  <2>1. HasMatrix /\ Small
        /\ Touched(CrashBits.virgin) = Touched(virgin_bits) \cap HitEdges(SaveTrace)
    BY <1>1, SaveFacts
  <2>2. Touched(virgin_bits)' = Touched(CrashBits.virgin)
    BY <1>1 DEF Touched
  <2> QED
    BY <2>1, <2>2 DEF Lost
<1>3. TouchedHitByAll'
  BY <1>1, <1>2, TouchedSame DEF Known
<1>4. CalOwn' /\ DryOrder' /\ Unborn' /\ NotSmaller'
  BY <1>1, <1>2 DEF CalOwn, DryOrder, Unborn, NotSmaller, Calibrating
<1>5. Paid'
  <2>1. L \in SUBSET Touched(virgin_bits) /\ Flag(L # {}) \in Nat /\ queued_with_cov \in Nat
    BY DEF Lost, Flag, TypeOK
  <2>2. Pending = 0 /\ Pending' = 0
    BY <1>1 DEF Pending, Flag
  <2>3. /\ {} \in SUBSET (Edges \ var_bytes) /\ var_bytes' = var_bytes \cup {}
        /\ Touched(virgin_bits)' = (Touched(virgin_bits) \ L) \cup {}
    BY <1>1, <1>2
  <2> HIDE DEF L
  <2>4. queued_with_cov' + Pending' <= queued_with_cov + Pending + Flag(L # {})
    BY <1>1, <2>1, <2>2
  <2> QED
    BY <1>2, <2>1, <2>3, <2>4, PaidStep
<1>6. Attained'
  BY <1>1, <1>2, AttainedSame DEF Calibrated, Known
<1>7. HangMap'
  BY <1>1, <1>2 DEF HangMap, Fuzzing, Calibrating, Small
<1> QED
  BY <1>3, <1>4, <1>5, <1>6, <1>7

\* A timeout: the hang map has no touched edge, so none is lost.
LEMMA TmoutStep ==
  ASSUME IInv, TypeOK', SaveTmout
  PROVE  IInv'
<1> USE DEF IInv
<1>1. /\ pc = "save" /\ pc' = "idle" /\ virgin_tmout' = HangBits.virgin
      /\ UNCHANGED <<first_trace, virgin_bits, var_bytes, min_bitmap_size, queue, queued_items,
                     queued_with_cov, testcase_matrix, idx, cal, stop_soon>>
      /\ HasMatrix' = HasMatrix
  BY DEF SaveTmout, minVars, queueVars, dryVars, HasMatrix
<1>2. HasMatrix /\ Small
  BY <1>1, SaveFacts
<1>3. virgin_tmout' = virgin_tmout
  <2>1. HangBits.virgin = ForgetLost(simplify_trace(SaveTrace), virgin_tmout)
    BY <1>2 DEF HangBits, FewBits, has_few_bits
  <2>2. Touched(virgin_tmout) = {}
    BY DEF HangMap, Touched
  <2>3. ForgetLost(simplify_trace(SaveTrace), virgin_tmout) = [e \in Edges |-> virgin_tmout[e]]
    BY <2>2 DEF ForgetLost, Lost
  <2> QED
    BY <1>1, <2>1, <2>3 DEF HangMap
<1>4. TouchedHitByAll'
  BY <1>1, TouchedSame DEF Known, Touched
<1>5. CalOwn' /\ DryOrder' /\ Unborn' /\ NotSmaller'
  BY <1>1, <1>2 DEF CalOwn, DryOrder, Unborn, NotSmaller, Calibrating
<1>6. Paid'
  <2>1. Pending = 0 /\ Pending' = 0
    BY <1>1 DEF Pending, Flag
  <2> QED
    BY <1>1, <2>1 DEF Paid, Touched
<1>7. Attained'
  BY <1>1, <1>2, AttainedSame DEF Calibrated, Known
<1>8. HangMap'
  BY <1>1, <1>2, <1>3 DEF HangMap, Fuzzing, Calibrating, Small
<1> QED
  BY <1>4, <1>5, <1>6, <1>7, <1>8

\* A decrease: the new entry is compared a second time when its calibration
\* begins, and then no edge is lost.
LEMMA CrashStep ==
  ASSUME IInv, TypeOK', SaveCrash
  PROVE  IInv'
<1> USE DEF IInv
<1> DEFINE q == queued_items + 1
           new == [NewEntry EXCEPT !.exec_cksum = SaveTrace, !.has_new_cov = CovBit(CrashBits.ret)]
           Q == [queue EXCEPT ![q] = new]
           few == FewBits(HasMatrix, SaveTrace, CrashBits.virgin, SaveCounts)
           L == Lost(SaveTrace, virgin_bits)
<1>1. /\ pc = "save" /\ q \in Ids /\ queued_items' = q /\ q > queued_items
      /\ queued_with_cov' = queued_with_cov + Flag(CovBit(CrashBits.ret))
      /\ UNCHANGED <<virgin_tmout, var_bytes, min_bitmap_size, testcase_matrix, idx, stop_soon>>
      /\ HasMatrix' = HasMatrix
  <2>1. queued_items \in Seeds..MaxEntries
    BY DEF TypeOK
  <2>2. /\ pc = "save" /\ q <= MaxEntries /\ queued_items' = q
        /\ queued_with_cov' = queued_with_cov + Flag(CovBit(CrashBits.ret))
        /\ UNCHANGED <<virgin_tmout, var_bytes, min_bitmap_size, testcase_matrix, idx, stop_soon>>
    BY DEF SaveCrash, minVars, dryVars
  <2>3. q \in Ids /\ q > queued_items
    BY ONLY <2>1, <2>2, BoundsAssumption DEF Ids
  <2> QED
    BY <2>2, <2>3 DEF HasMatrix
<1>2. /\ HasMatrix /\ Small /\ SaveTrace \in Trace /\ SaveCounts \in Nat
      /\ CrashBits.virgin \in VirginMap
      /\ Touched(CrashBits.virgin) = Touched(virgin_bits) \cap HitEdges(SaveTrace)
      /\ CovBit(CrashBits.ret) <=> L # {}
  BY <1>1, SaveFacts
<1>3. SaveTrace # NULL
  BY <1>2, NullAssumption
<1>4. /\ Q \in [Ids -> Entry] /\ Q[q].exec_cksum = SaveTrace
      /\ \A p \in Ids : p # q => Q[p] = queue[p]
  <2>1. new \in Entry
    BY <1>2 DEF NewEntry, Entry, CovBit
  <2>2. new.exec_cksum = SaveTrace
    BY DEF NewEntry
  <2> HIDE DEF new
  <2> QED
    BY <1>1, <2>1, <2>2 DEF TypeOK
<1>5. CalEnter(Q, HasMatrix, q, "save", SaveTrace, SaveCounts, CrashBits.virgin)
  BY DEF SaveCrash
<1>6. /\ Touched(few.virgin) = Touched(CrashBits.virgin) \cap HitEdges(SaveTrace)
      /\ CovBit(few.ret) <=> Lost(SaveTrace, CrashBits.virgin) # {}
      /\ few.ret <= 16 => count_bytes(SaveTrace) >= min_bitmap_size
  BY <1>2, FewFacts, MinType
<1> HIDE DEF q, new, Q, few, L
<1>7. /\ \A p \in Ids : /\ queue'[p].exec_cksum = Q[p].exec_cksum
                        /\ queue'[p].bitmap_size = Q[p].bitmap_size
                        /\ queue'[p].disabled = Q[p].disabled
                        /\ p # q => queue'[p].cal_failed = Q[p].cal_failed
      /\ queue'[q].cal_failed > 0
      /\ cal'.q = q /\ cal'.caller = "save" /\ cal'.cur = 0 /\ cal'.max > 0 /\ pc' = "cal"
      /\ cal'.new_bits = few.ret /\ virgin_bits' = few.virgin
  <2>1. few.ret \in 0..23
    BY <1>2, FewFacts, MinType DEF few
  <2>2. cal'.new_bits = Combine(0, few.ret) /\ virgin_bits' = few.virgin
    BY <1>3, <1>4, <1>5 DEF CalEnter, few
  <2> QED
    BY <1>1, <1>4, <1>5, <2>1, <2>2, EnterFacts, CombineZero
<1>8. Touched(virgin_bits)' = Touched(virgin_bits) \cap HitEdges(SaveTrace)
  <2>1. Touched(virgin_bits)' = Touched(few.virgin)
    BY <1>7 DEF Touched
  <2> QED
    BY <1>2, <1>6, <2>1
<1>9. \A p \in Ids : p # q =>
        /\ ((Known(p))' <=> Known(p)) /\ queue'[p].exec_cksum = queue[p].exec_cksum
        /\ queue'[p].cal_failed = queue[p].cal_failed
        /\ queue'[p].bitmap_size = queue[p].bitmap_size
        /\ queue'[p].disabled = queue[p].disabled
  <2> TAKE p \in Ids
  <2> HAVE p # q
  <2>1. queued_items \in Nat /\ p \in Int /\ q = queued_items + 1
    BY BoundsAssumption DEF TypeOK, Ids, q
  <2>2. p <= q <=> p <= queued_items
    BY <2>1
  <2>3. queue'[p].exec_cksum = queue[p].exec_cksum
    BY <1>4, <1>7
  <2>4. (Known(p))' <=> Known(p)
    BY <1>1, <2>2, <2>3 DEF Known
  <2> QED
    BY <1>4, <1>7, <2>3, <2>4
<1>10. TouchedHitByAll'
  <2> SUFFICES ASSUME NEW p \in Ids, (Known(p))'
               PROVE  Touched(virgin_bits)' \ var_bytes' \subseteq HitEdges(queue'[p].exec_cksum)
    BY DEF TouchedHitByAll
  <2>1. CASE p = q
    BY <1>4, <1>7, <1>8, <2>1
  <2>2. CASE p # q
    <3>1. Known(p) /\ queue'[p].exec_cksum = queue[p].exec_cksum
      BY <1>9, <2>2
    <3>2. Touched(virgin_bits) \ var_bytes \subseteq HitEdges(queue[p].exec_cksum)
      BY <3>1 DEF TouchedHitByAll
    <3> QED
      BY <1>1, <1>8, <3>1, <3>2
  <2> QED
    BY <2>1, <2>2
<1>11. CalOwn'
  BY <1>1, <1>7 DEF CalOwn, Calibrating, Ids
<1>12. DryOrder' /\ Unborn'
  BY <1>1, <1>2, <1>7 DEF DryOrder, Unborn, Calibrating
<1>13. Paid'
  <2>1. L \in SUBSET Touched(virgin_bits) /\ Touched(virgin_bits)' = Touched(virgin_bits) \ L
    BY <1>8 DEF Lost, L
  <2>2. Pending = 0
    BY <1>1 DEF Pending, Flag
  <2>3. ~CovBit(few.ret)
    BY <1>2, <1>6 DEF Lost
  <2>4. Pending' = 0
    BY <1>7, <2>3 DEF Pending, Flag
  <2>5. Flag(CovBit(CrashBits.ret)) = Flag(L # {}) /\ Flag(L # {}) \in Nat /\ queued_with_cov \in Nat
    BY <1>2 DEF Flag, TypeOK
  <2>6. queued_with_cov' + Pending' <= queued_with_cov + Pending + Flag(L # {})
    BY <1>1, <2>2, <2>4, <2>5
  <2>7. /\ {} \in SUBSET (Edges \ var_bytes) /\ var_bytes' = var_bytes \cup {}
        /\ Touched(virgin_bits)' = (Touched(virgin_bits) \ L) \cup {}
    BY <1>1, <2>1
  <2> QED
    BY <1>2, <2>1, <2>6, <2>7, PaidStep
<1>14. Attained'
  <2>1. q \notin Calibrated /\ q \notin Calibrated'
    <3>1. queued_items \in Int
      BY BoundsAssumption DEF TypeOK
    <3>2. ~Known(q)
      BY ONLY <1>1, <3>1, BoundsAssumption DEF Known, Ids
    <3> QED
      BY <1>1, <1>7, <3>2 DEF Calibrated
  <2>2. \A p \in Ids : p # q => (p \in Calibrated' <=> p \in Calibrated)
    BY <1>9 DEF Calibrated
  <2>3. Calibrated \subseteq Ids /\ Calibrated' \subseteq Ids
    BY DEF Calibrated, Ids
  <2>4. Calibrated' = Calibrated
    BY <2>1, <2>2, <2>3
  <2>5. \A p \in Calibrated : queue'[p].bitmap_size = queue[p].bitmap_size
    BY <1>9, <2>1, <2>3
  <2> QED
    BY <1>1, <1>2, <2>4, <2>5, AttainedSame
<1>15. NotSmaller'
  BY <1>1, <1>4, <1>6, <1>7 DEF NotSmaller, Sum
<1>16. HangMap'
  BY <1>1, <1>2, <1>7 DEF HangMap, Fuzzing, Calibrating, Small
<1> QED
  BY <1>10, <1>11, <1>12, <1>13, <1>14, <1>15, <1>16

\* A run that ends the calibration.
LEMMA FailedStep ==
  ASSUME IInv, TypeOK', NEW r \in Runs, CalRun(r), CalRunFailed(r)
  PROVE  IInv'
<1> USE DEF IInv
<1>1. PICK f : CalLeave(queue, f) /\ (f = "CRASH" => stop_soon)
  BY DEF CalRunFailed
<1>2. /\ \A p \in Ids : /\ queue'[p].exec_cksum = queue[p].exec_cksum
                        /\ queue'[p].bitmap_size = queue[p].bitmap_size
                        /\ queue'[p].disabled = queue[p].disabled
                        /\ queue'[p].cal_failed = queue[p].cal_failed
      /\ cal'.q = cal.q /\ cal'.caller = cal.caller /\ cal'.new_bits = cal.new_bits
      /\ cal'.fault = f /\ pc' = "ret"
      /\ queued_with_cov' = queued_with_cov
           + Flag(CovBit(cal.new_bits) /\ ~queue[cal.q].has_new_cov)
  BY <1>1, LeaveFacts DEF TypeOK
<1>3. /\ pc = "cal" /\ HasMatrix' = HasMatrix
      /\ UNCHANGED <<first_trace, virgin_bits, virgin_tmout, var_bytes, min_bitmap_size,
                     queued_items, testcase_matrix, idx, stop_soon>>
  BY DEF CalRun, CalRunFailed, minVars, dryVars, HasMatrix
<1>4. cal.q \in Ids /\ Flag(CovBit(cal.new_bits) /\ ~queue[cal.q].has_new_cov) = Pending
      /\ Pending' = 0 /\ Pending \in {0, 1}
  BY <1>2, <1>3 DEF Pending, Flag, TypeOK, CalLocals
<1>5. TouchedHitByAll'
  BY <1>2, <1>3, TouchedSame DEF Known, Touched
<1>6. CalOwn'
  BY <1>2, <1>3, <1>4 DEF CalOwn, Calibrating, Sum
<1>7. DryOrder'
  BY <1>2, <1>3 DEF DryOrder, Calibrating, Sum
<1>8. Unborn'
  <2>1. ~HasMatrix => 1 \in Ids
    BY <1>4 DEF Unborn
  <2>2. ~HasMatrix => queued_with_cov' <= 1
    BY <1>2, <1>3, <1>4 DEF Unborn, TypeOK
  <2> QED
    BY <1>2, <1>3, <2>1, <2>2 DEF Unborn, Sum, Touched
<1>9. Paid'
  <2>1. queued_with_cov' + Pending' = queued_with_cov + Pending
    BY <1>2, <1>4 DEF TypeOK
  <2> QED
    BY <1>3, <2>1 DEF Paid, Touched
<1>10. Attained'
  <2>1. Calibrated' = Calibrated /\ \A q \in Calibrated : queue'[q].bitmap_size = queue[q].bitmap_size
    BY <1>2, <1>3 DEF Calibrated, Known
  <2>2. CASE HasMatrix
    BY <1>3, <2>1, <2>2, AttainedSame
  <2>3. CASE ~HasMatrix
    BY <1>3, <2>3 DEF Attained
  <2> QED
    BY <2>2, <2>3
<1>11. NotSmaller'
  BY <1>2 DEF NotSmaller
<1>12. HangMap'
  BY <1>1, <1>2, <1>3 DEF HangMap, Fuzzing, Calibrating, Small
<1> QED
  BY <1>5, <1>6, <1>7, <1>8, <1>9, <1>10, <1>11, <1>12

\* What every run of a calibration that counts has in common.
LEMMA CrashedFacts ==
  ASSUME IInv, NEW r \in Runs, CalRun(r), CalRunCrashed(r), NEW few,
         few = FewBits(HasMatrix, classify_counts(r.trace), virgin_bits, sum_word(r.trace))
  PROVE  /\ pc = "cal" /\ pc' = "cal" /\ HasMatrix' = HasMatrix
         /\ UNCHANGED <<virgin_tmout, min_bitmap_size, queued_items, queued_with_cov,
                        testcase_matrix, idx, stop_soon>>
         /\ trace_bits' = classify_counts(r.trace) /\ trace_bits' \in Trace
         /\ cal.q \in Ids /\ cal.q <= queued_items /\ queue[cal.q].cal_failed > 0
         /\ few.ret \in 0..23 /\ cal.new_bits \in 0..23
         /\ ~HasMatrix =>
              /\ few.ret <= 2
              /\ Touched(few.virgin) \subseteq Touched(virgin_bits) \cup HitEdges(trace_bits')
         /\ HasMatrix =>
              /\ Touched(few.virgin) = Touched(virgin_bits) \ Lost(trace_bits', virgin_bits)
              /\ CovBit(few.ret) <=> Lost(trace_bits', virgin_bits) # {}
              /\ few.ret <= 16 => count_bytes(trace_bits') >= min_bitmap_size
<1>1. /\ pc = "cal" /\ pc' = "cal" /\ HasMatrix' = HasMatrix
      /\ UNCHANGED <<virgin_tmout, min_bitmap_size, queued_items, queued_with_cov,
                     testcase_matrix, idx, stop_soon>>
      /\ trace_bits' = classify_counts(r.trace)
  BY DEF CalRun, CalRunCrashed, minVars, dryVars, HasMatrix
<1>2. r.trace \in Trace
  BY RunsAssumption
<1>3. trace_bits' \in Trace /\ sum_word(r.trace) \in Nat /\ virgin_bits \in VirginMap /\ TypeOK
  BY <1>1, <1>2, ClassifyType, SumWordNat DEF IInv, TypeOK
<1>4. cal.q \in Ids /\ cal.q <= queued_items /\ queue[cal.q].cal_failed > 0 /\ cal.new_bits \in 0..23
  BY <1>1 DEF IInv, TypeOK, CalLocals, CalOwn, Calibrating
<1>5. few = FewBits(HasMatrix, trace_bits', virgin_bits, sum_word(r.trace))
  BY <1>1
<1>6. /\ few.ret \in 0..23
      /\ ~HasMatrix =>
           /\ few.ret <= 2
           /\ Touched(few.virgin) \subseteq Touched(virgin_bits) \cup HitEdges(trace_bits')
      /\ HasMatrix =>
           /\ Touched(few.virgin) = Touched(virgin_bits) \cap HitEdges(trace_bits')
           /\ CovBit(few.ret) <=> Lost(trace_bits', virgin_bits) # {}
           /\ few.ret <= 16 => count_bytes(trace_bits') >= min_bitmap_size
  BY <1>3, <1>5, FewFacts, MinType
<1>7. Touched(virgin_bits) \cap HitEdges(trace_bits')
        = Touched(virgin_bits) \ Lost(trace_bits', virgin_bits)
  BY DEF Lost
<1> QED
  BY <1>1, <1>3, <1>4, <1>6, <1>7

\* A run that may change the code and the maps, and nothing of the entries but
\* the checksum of the one being calibrated.
LEMMA CrashedSame ==
  ASSUME IInv, NEW r \in Runs, CalRun(r), CalRunCrashed(r),
         \A p \in Ids : /\ p # cal.q => queue'[p].exec_cksum = queue[p].exec_cksum
                        /\ queue'[p].bitmap_size = queue[p].bitmap_size
                        /\ queue'[p].disabled = queue[p].disabled
                        /\ queue'[p].cal_failed = queue[p].cal_failed,
         queue'[cal.q].exec_cksum # NULL, cal'.q = cal.q, cal'.caller = cal.caller,
         cal'.max > 0
  PROVE  CalOwn' /\ DryOrder' /\ Attained' /\ HangMap'
<1> USE DEF IInv
<1>1. /\ pc = "cal" /\ pc' = "cal" /\ HasMatrix' = HasMatrix
      /\ UNCHANGED <<virgin_tmout, min_bitmap_size, queued_items, queued_with_cov,
                     testcase_matrix, idx, stop_soon>>
      /\ cal.q \in Ids /\ cal.q <= queued_items /\ queue[cal.q].cal_failed > 0
  BY CrashedFacts
<1>2. CalOwn'
  BY <1>1 DEF CalOwn, Calibrating, Sum
<1>3. DryOrder'
  BY <1>1 DEF DryOrder, Calibrating, Sum, Ids, TypeOK
<1>4. Attained'
  <2>1. Calibrated' = Calibrated /\ \A q \in Calibrated : queue'[q].bitmap_size = queue[q].bitmap_size
    BY <1>1 DEF Calibrated, Known
  <2>2. CASE HasMatrix
    BY <1>1, <2>1, <2>2, AttainedSame
  <2>3. CASE ~HasMatrix
    BY <1>1, <2>3 DEF Attained
  <2> QED
    BY <2>2, <2>3
<1>5. HangMap'
  BY <1>1 DEF HangMap, Fuzzing, Calibrating, Small
<1> QED
  BY <1>2, <1>3, <1>4, <1>5

\* The trace is the recorded one.
LEMMA SameTraceStep ==
  ASSUME IInv, TypeOK', NEW r \in Runs, CalRun(r), CalRunCrashed(r),
         queue[cal.q].exec_cksum = trace_bits'
  PROVE  IInv'
<1> USE DEF IInv
<1>1. /\ pc = "cal" /\ pc' = "cal" /\ HasMatrix' = HasMatrix /\ cal.q \in Ids
      /\ UNCHANGED <<min_bitmap_size, queued_items, queued_with_cov, idx>>
      /\ trace_bits' \in Trace /\ cal.new_bits \in 0..23
  BY CrashedFacts
<1>2. trace_bits' # NULL
  BY <1>1, NullAssumption
<1>3. cal' = [cal EXCEPT !.cur = @ + 1] /\ UNCHANGED <<queue, first_trace, virgin_bits, var_bytes>>
  BY <1>2 DEF CalRunCrashed
<1>4. /\ cal'.q = cal.q /\ cal'.caller = cal.caller /\ cal'.new_bits = cal.new_bits
      /\ cal'.max = cal.max /\ cal.max > 0
  BY <1>1, <1>3 DEF TypeOK, CalLocals, CalOwn
<1>5. CalOwn' /\ DryOrder' /\ Attained' /\ HangMap'
  BY <1>2, <1>3, <1>4, CrashedSame
<1>6. TouchedHitByAll'
  BY <1>1, <1>3, TouchedSame DEF Known, Touched
<1>7. Unborn'
  BY <1>1, <1>3, <1>4 DEF Unborn, Sum, Touched
<1>8. Paid'
  <2>1. Pending' = Pending
    BY <1>1, <1>3, <1>4 DEF Pending, Flag
  <2> QED
    BY <1>1, <1>3, <2>1 DEF Paid, Touched
<1>9. NotSmaller'
  BY <1>1, <1>2, <1>3, <1>4 DEF NotSmaller, Sum
<1> QED
  BY <1>5, <1>6, <1>7, <1>8, <1>9

\* Another trace: the edges that moved are marked variable.
LEMMA MovedStep ==
  ASSUME IInv, TypeOK', NEW r \in Runs, CalRun(r), CalRunCrashed(r),
         queue[cal.q].exec_cksum # trace_bits', queue[cal.q].exec_cksum # NULL
  PROVE  IInv'
<1> USE DEF IInv
<1> DEFINE few == FewBits(HasMatrix, classify_counts(r.trace), virgin_bits, sum_word(r.trace))
           moved == {e \in Edges \ var_bytes : first_trace[e] # trace_bits'[e]}
           code == Combine(cal.new_bits, few.ret)
           T == Touched(virgin_bits)
           L == Lost(trace_bits', virgin_bits)
<1>1. /\ var_bytes' = var_bytes \cup moved
      /\ virgin_bits' = [e \in Edges |-> IF e \in moved THEN {} ELSE few.virgin[e]]
      /\ cal' = [cal EXCEPT !.cur = @ + 1, !.new_bits = code, !.var = TRUE,
                            !.max = CAL_CYCLES_LONG]
      /\ UNCHANGED <<queue, first_trace>>
  BY DEF CalRunCrashed
<1>2. Touched(virgin_bits)' = Touched(few.virgin) \cup moved /\ moved \in SUBSET (Edges \ var_bytes)
  BY <1>1 DEF Touched, Virgin, Bit
<1>3. \A e \in Edges : e \notin var_bytes' => first_trace[e] = trace_bits'[e]
  BY <1>1
<1> HIDE DEF few, moved, code
<1>4. /\ pc = "cal" /\ pc' = "cal" /\ HasMatrix' = HasMatrix /\ cal.q \in Ids
      /\ UNCHANGED <<min_bitmap_size, queued_items, queued_with_cov, idx>>
      /\ cal.new_bits \in 0..23 /\ few.ret \in 0..23 /\ cal.q <= queued_items
      /\ ~HasMatrix => few.ret <= 2 /\ Touched(few.virgin) \subseteq T \cup HitEdges(trace_bits')
      /\ HasMatrix =>
           /\ Touched(few.virgin) = T \ L
           /\ CovBit(few.ret) <=> L # {}
           /\ few.ret <= 16 => count_bytes(trace_bits') >= min_bitmap_size
  BY CrashedFacts DEF few
<1>5. /\ code \in {cal.new_bits, few.ret} /\ (code <= 16 => cal.new_bits <= 16 /\ few.ret <= 16)
      /\ cal.new_bits <= 2 /\ few.ret <= 2 => code <= 2
  BY <1>4, CombineFacts DEF code
<1>6. /\ cal'.q = cal.q /\ cal'.caller = cal.caller /\ cal'.new_bits = code /\ cal'.max > 0
  <2>1. cal \in CalLocals /\ CAL_CYCLES_LONG > 0
    BY BoundsAssumption DEF TypeOK
  <2>2. cal' = [cal EXCEPT !.cur = @ + 1, !.new_bits = code, !.var = TRUE,
                           !.max = CAL_CYCLES_LONG]
    BY <1>1
  <2>3. /\ cal'.q = cal.q /\ cal'.caller = cal.caller /\ cal'.new_bits = code
        /\ cal'.max = CAL_CYCLES_LONG
    BY ONLY <2>1, <2>2 DEF CalLocals
  <2> QED
    BY <2>1, <2>3
<1>7. CalOwn' /\ DryOrder' /\ Attained' /\ HangMap'
  BY <1>1, <1>6, CrashedSame
<1>8. TouchedHitByAll'
  <2> SUFFICES ASSUME NEW p \in Ids, (Known(p))', NEW e \in Edges,
                      e \in Touched(virgin_bits)', e \notin var_bytes'
               PROVE  e \in HitEdges(queue[p].exec_cksum)
    BY <1>1 DEF TouchedHitByAll, Touched
  <2>1. Known(p) /\ e \notin var_bytes /\ e \in Touched(few.virgin)
    BY <1>1, <1>2, <1>4 DEF Known
  <2>2. e \in T => e \in HitEdges(queue[p].exec_cksum)
    BY <2>1 DEF TouchedHitByAll
  <2>3. CASE HasMatrix
    BY <1>4, <2>1, <2>2, <2>3
  <2>4. CASE ~HasMatrix
    <3>1. p = 1 /\ first_trace = queue[1].exec_cksum
      BY <1>4, <2>1, <2>4 DEF Unborn, DryOrder, Calibrating, Sum, Known, Ids
    <3>2. e \in HitEdges(trace_bits') => e \in HitEdges(first_trace)
      BY <1>3 DEF HitEdges
    <3> QED
      BY <1>4, <2>1, <2>2, <2>4, <3>1, <3>2
  <2> QED
    BY <2>3, <2>4
<1>9. Unborn'
  <2>1. ~HasMatrix => cal.q = 1
    BY DEF Unborn
  <2> QED
    BY <1>1, <1>4, <1>5, <1>6, <2>1 DEF Unborn, Sum
<1>10. Paid'
  <2>1. CASE ~HasMatrix
    BY <1>4, <2>1 DEF Paid
  <2>2. CASE HasMatrix
    <3>1. L \in SUBSET T /\ Touched(virgin_bits)' = (T \ L) \cup moved
      BY <1>2, <1>4, <2>2 DEF Lost
    <3>2. Pending' <= Pending + Flag(L # {})
      <4>1. Pending' = 1 => Pending = 1 \/ Flag(L # {}) = 1
        BY <1>1, <1>4, <1>5, <1>6, <2>2 DEF Pending, Flag
      <4>2. Pending \in {0, 1} /\ Pending' \in {0, 1} /\ Flag(L # {}) \in {0, 1}
        BY DEF Pending, Flag
      <4> QED
        BY <4>1, <4>2
    <3>3. queued_with_cov' + Pending' <= queued_with_cov + Pending + Flag(L # {})
      <4>1. /\ queued_with_cov \in Nat /\ Pending \in Nat /\ Pending' \in Nat /\ Flag(L # {}) \in Nat
            /\ queued_with_cov' = queued_with_cov
        BY <1>4 DEF Pending, Flag, TypeOK
      <4> QED
        BY <3>2, <4>1
    <3> QED
      BY <1>1, <1>2, <2>2, <3>1, <3>3, PaidStep
  <2> QED
    BY <2>1, <2>2
<1>11. NotSmaller'
  BY <1>1, <1>4, <1>5, <1>6 DEF NotSmaller, Sum
<1> QED
  BY <1>7, <1>8, <1>9, <1>10, <1>11

\* The first trace of an entry.
LEMMA FirstTraceStep ==
  ASSUME IInv, TypeOK', NEW r \in Runs, CalRun(r), CalRunCrashed(r),
         queue[cal.q].exec_cksum = NULL
  PROVE  IInv'
<1> USE DEF IInv
<1> DEFINE few == FewBits(HasMatrix, classify_counts(r.trace), virgin_bits, sum_word(r.trace))
           code == Combine(cal.new_bits, few.ret)
           T == Touched(virgin_bits)
           L == Lost(trace_bits', virgin_bits)
<1>1. /\ pc = "cal" /\ pc' = "cal" /\ HasMatrix' = HasMatrix /\ cal.q \in Ids
      /\ UNCHANGED <<min_bitmap_size, queued_items, queued_with_cov, idx>>
      /\ trace_bits' = classify_counts(r.trace) /\ trace_bits' \in Trace
      /\ cal.new_bits \in 0..23 /\ few.ret \in 0..23 /\ cal.q <= queued_items
      /\ ~HasMatrix => few.ret <= 2 /\ Touched(few.virgin) \subseteq T \cup HitEdges(trace_bits')
      /\ HasMatrix =>
           /\ Touched(few.virgin) = T \ L
           /\ CovBit(few.ret) <=> L # {}
           /\ few.ret <= 16 => count_bytes(trace_bits') >= min_bitmap_size
  BY CrashedFacts
<1>2. trace_bits' # NULL
  BY <1>1, NullAssumption
<1>3. /\ queue' = [queue EXCEPT ![cal.q].exec_cksum = trace_bits'] /\ first_trace' = trace_bits'
      /\ virgin_bits' = few.virgin /\ cal' = [cal EXCEPT !.cur = @ + 1, !.new_bits = code]
      /\ UNCHANGED var_bytes
  BY <1>1, <1>2 DEF CalRunCrashed
<1> HIDE DEF few, code
<1>4. /\ code \in {cal.new_bits, few.ret} /\ (code <= 16 => cal.new_bits <= 16 /\ few.ret <= 16)
      /\ cal.new_bits <= 2 /\ few.ret <= 2 => code <= 2
  BY <1>1, CombineFacts DEF code
<1>5. /\ \A p \in Ids : /\ p # cal.q => queue'[p].exec_cksum = queue[p].exec_cksum
                        /\ queue'[p].bitmap_size = queue[p].bitmap_size
                        /\ queue'[p].disabled = queue[p].disabled
                        /\ queue'[p].cal_failed = queue[p].cal_failed
                        /\ queue'[p].has_new_cov = queue[p].has_new_cov
      /\ queue'[cal.q].exec_cksum = trace_bits'
  BY <1>1, <1>3 DEF TypeOK, Entry
<1>6. /\ cal'.q = cal.q /\ cal'.caller = cal.caller /\ cal'.new_bits = code
      /\ cal'.max = cal.max /\ cal.max > 0
  BY <1>1, <1>3 DEF TypeOK, CalLocals, CalOwn
<1>7. CalOwn' /\ DryOrder' /\ Attained' /\ HangMap'
  BY <1>2, <1>5, <1>6, CrashedSame
<1>8. Touched(virgin_bits)' = Touched(few.virgin)
  BY <1>3 DEF Touched
<1>9. TouchedHitByAll'
  <2> SUFFICES ASSUME NEW p \in Ids, (Known(p))', NEW e \in Edges,
                      e \in Touched(virgin_bits)', e \notin var_bytes'
               PROVE  e \in HitEdges(queue'[p].exec_cksum)
    BY DEF TouchedHitByAll, Touched
  <2>1. p # cal.q => Known(p) /\ queue'[p].exec_cksum = queue[p].exec_cksum
    BY <1>1, <1>5 DEF Known
  <2>2. p # cal.q /\ e \in T => e \in HitEdges(queue'[p].exec_cksum)
    BY <1>3, <2>1 DEF TouchedHitByAll
  <2>3. CASE HasMatrix
    BY <1>1, <1>5, <1>8, <2>2, <2>3 DEF Lost
  <2>4. CASE ~HasMatrix
    <3>1. T = {} /\ cal.q = 1
      BY <1>1, <2>4 DEF Unborn, Sum
    <3>2. p = 1
      BY <1>1, <2>1, <2>4, <3>1 DEF Unborn, DryOrder, Calibrating, Sum, Known, Ids
    <3> QED
      BY <1>1, <1>5, <1>8, <2>4, <3>1, <3>2
  <2> QED
    BY <2>3, <2>4
<1>10. Unborn'
  <2>1. ~HasMatrix => cal.q = 1
    BY DEF Unborn
  <2> QED
    BY <1>1, <1>2, <1>3, <1>4, <1>5, <1>6, <2>1 DEF Unborn, Sum
<1>11. Paid'
  <2>1. CASE ~HasMatrix
    BY <1>1, <2>1 DEF Paid
  <2>2. CASE HasMatrix
    <3>1. L \in SUBSET T /\ Touched(virgin_bits)' = (T \ L) \cup {} /\ {} \in SUBSET (Edges \ var_bytes)
          /\ var_bytes' = var_bytes \cup {}
      BY <1>1, <1>3, <1>8, <2>2 DEF Lost
    <3>2. Pending' <= Pending + Flag(L # {})
      <4>1. Pending' = 1 => Pending = 1 \/ Flag(L # {}) = 1
        BY <1>1, <1>4, <1>5, <1>6, <2>2 DEF Pending, Flag
      <4>2. Pending \in {0, 1} /\ Pending' \in {0, 1} /\ Flag(L # {}) \in {0, 1}
        BY DEF Pending, Flag
      <4> QED
        BY <4>1, <4>2
    <3>3. queued_with_cov' + Pending' <= queued_with_cov + Pending + Flag(L # {})
      <4>1. /\ queued_with_cov \in Nat /\ Pending \in Nat /\ Pending' \in Nat /\ Flag(L # {}) \in Nat
            /\ queued_with_cov' = queued_with_cov
        BY <1>1 DEF Pending, Flag, TypeOK
      <4> QED
        BY <3>2, <4>1
    <3> QED
      BY <2>2, <3>1, <3>3, PaidStep
  <2> QED
    BY <2>1, <2>2
<1>12. NotSmaller'
  BY <1>1, <1>4, <1>5, <1>6 DEF NotSmaller, Sum
<1> QED
  BY <1>7, <1>9, <1>10, <1>11, <1>12

\* All runs done: the entry counts as calibrated, and the minimum with it.
LEMMA EndStep ==
  ASSUME IInv, TypeOK', CalEnd
  PROVE  IInv'
<1> USE DEF IInv
<1> DEFINE size == count_bytes(trace_bits)
           Q == [queue EXCEPT ![cal.q].bitmap_size = size, ![cal.q].cal_failed = 0]
<1>1. /\ pc = "cal" /\ cal.cur >= cal.max /\ CalLeave(Q, "CRASH") /\ HasMatrix' = HasMatrix
      /\ min_bitmap_size' = IF cal.new_bits > 16 /\ size < min_bitmap_size
                            THEN size ELSE min_bitmap_size
      /\ UNCHANGED <<first_trace, virgin_bits, virgin_tmout, var_bytes, queued_items,
                     testcase_matrix, idx, stop_soon>>
  BY DEF CalEnd, mapVars, dryVars, HasMatrix
<1>2. size \in Nat /\ size <= Cardinality(Edges) /\ Cardinality(Edges) \in Nat
      /\ min_bitmap_size \in Nat /\ UintMax \in Nat
  BY CountBytes, UintMaxAssumption DEF TypeOK
<1>3. /\ cal.q \in Ids /\ cal.q <= queued_items /\ queue[cal.q].exec_cksum # NULL
      /\ queue[cal.q].cal_failed > 0 /\ cal.new_bits \in 0..23 /\ cal.cur > 0
  BY <1>1 DEF TypeOK, CalLocals, CalOwn, Calibrating, Sum
<1> HIDE DEF size
<1>4. /\ Q \in [Ids -> Entry] /\ Q[cal.q].bitmap_size = size /\ Q[cal.q].cal_failed = 0
      /\ Q[cal.q].has_new_cov = queue[cal.q].has_new_cov
      /\ \A p \in Ids : /\ Q[p].exec_cksum = queue[p].exec_cksum
                        /\ Q[p].disabled = queue[p].disabled
                        /\ p # cal.q => Q[p] = queue[p]
  <2>1. queue \in [Ids -> Entry]
    BY DEF TypeOK
  <2> QED
    BY ONLY <1>2, <1>3, <2>1 DEF Q, Entry
<1> HIDE DEF Q
<1>5. /\ \A p \in Ids : /\ queue'[p].exec_cksum = queue[p].exec_cksum
                        /\ queue'[p].disabled = queue[p].disabled
                        /\ p # cal.q => /\ queue'[p].bitmap_size = queue[p].bitmap_size
                                        /\ queue'[p].cal_failed = queue[p].cal_failed
      /\ queue'[cal.q].bitmap_size = size /\ queue'[cal.q].cal_failed = 0
      /\ cal'.q = cal.q /\ cal'.caller = cal.caller /\ cal'.new_bits = cal.new_bits
      /\ cal'.fault = "CRASH" /\ pc' = "ret"
      /\ queued_with_cov' = queued_with_cov + Flag(CovBit(cal.new_bits) /\ ~Q[cal.q].has_new_cov)
  BY <1>1, <1>3, <1>4, LeaveFacts
<1>6. /\ queued_with_cov' = queued_with_cov + Pending
      /\ Pending' = 0 /\ Pending \in {0, 1}
  BY <1>1, <1>4, <1>5 DEF Pending, Flag
<1>7. TouchedHitByAll'
  BY <1>1, <1>5, TouchedSame DEF Known, Touched
<1>8. CalOwn'
  BY <1>1, <1>3, <1>5 DEF CalOwn, Calibrating
<1>9. DryOrder'
  BY <1>1, <1>5 DEF DryOrder, Calibrating, Sum
<1>10. Unborn'
  <2>1. ~HasMatrix => cal.q = 1 /\ cal.new_bits <= 2 /\ queued_with_cov = 0
    BY <1>1 DEF Unborn
  <2>2. ~HasMatrix => min_bitmap_size' = min_bitmap_size /\ queued_with_cov' <= 1
    BY <1>1, <1>3, <1>6, <2>1
  <2> QED
    BY <1>1, <1>3, <1>5, <2>1, <2>2 DEF Unborn, Sum, Touched
<1>11. Paid'
  <2>1. queued_with_cov' + Pending' = queued_with_cov + Pending
    BY <1>6 DEF TypeOK
  <2> QED
    BY <1>1, <2>1 DEF Paid, Touched
<1>12. HasMatrix => min_bitmap_size' <= size
  BY <1>1, <1>2, <1>3 DEF NotSmaller, Sum, size
<1>13. min_bitmap_size' <= min_bitmap_size /\ min_bitmap_size' \in {min_bitmap_size, size}
  BY <1>1, <1>2
<1>14. Attained'
  <2>1. CASE HasMatrix
    <3>1. Calibrated' = Calibrated \cup {cal.q} /\ cal.q \notin Calibrated
      BY <1>1, <1>3, <1>5 DEF Calibrated, Known
    <3>2. Sizes' = Sizes \cup {size}
      <4>1. \A q \in Calibrated : queue'[q].bitmap_size = queue[q].bitmap_size
        BY <1>5, <3>1 DEF Calibrated
      <4> QED
        BY <1>5, <3>1, <4>1 DEF Sizes
    <3>3. MinOf(min_bitmap_size, {UintMax} \cup Sizes) /\ Sizes \in SUBSET Nat
      BY <2>1 DEF Attained, Sizes, Calibrated, TypeOK, Entry
    <3>4. \A s \in {UintMax} \cup Sizes' : min_bitmap_size' <= s
      <4>1. \A s \in {UintMax} \cup Sizes : min_bitmap_size <= s /\ s \in Nat
        BY <1>2, <3>3 DEF MinOf
      <4> QED
        BY <1>2, <1>12, <1>13, <2>1, <3>2, <4>1
    <3>5. min_bitmap_size' \in {UintMax} \cup Sizes'
      BY <1>13, <3>2, <3>3 DEF MinOf
    <3> QED
      BY <3>4, <3>5 DEF Attained, MinOf
  <2>2. CASE ~HasMatrix
    BY <1>1, <2>2 DEF Attained
  <2> QED
    BY <2>1, <2>2
<1>15. NotSmaller'
  BY <1>5 DEF NotSmaller
<1>16. HangMap'
  <2>1. min_bitmap_size' \in Nat
    BY <1>2, <1>13
  <2>2. Small => Small'
    BY <1>2, <1>13, <2>1 DEF Small
  <2>3. HasMatrix => Small'
    BY <1>2, <1>12, <2>1 DEF Small
  <2> QED
    BY <1>1, <1>5, <2>2, <2>3 DEF HangMap, Fuzzing, Calibrating
<1> QED
  BY <1>7, <1>8, <1>9, <1>10, <1>11, <1>14, <1>15, <1>16

\* The switch on the result of a seed.
LEMMA ResultStep ==
  ASSUME IInv, TypeOK', DryRunResult
  PROVE  IInv'
<1> USE DEF IInv
<1> DEFINE skipped == cal.fault = "TMOUT" /\ timeout_given
<1>1. /\ pc = "ret" /\ cal.caller = "dry" /\ HasMatrix /\ HasMatrix' /\ cal.q \in Ids
      /\ UNCHANGED <<first_trace, virgin_bits, virgin_tmout, var_bytes, min_bitmap_size,
                     queued_items, queued_with_cov, testcase_matrix, cal, stop_soon>>
  BY DEF DryRunResult, mapVars, minVars, HasMatrix, TypeOK, CalLocals
<1>2. \/ UNCHANGED <<queue, idx>> /\ pc' \in {"stop", "fatal"}
      \/ /\ ~stop_soon /\ (cal.fault = "CRASH" \/ skipped) /\ idx' = idx + 1 /\ pc' = "dry"
         /\ \E other \in BOOLEAN :
              queue' = [queue EXCEPT
                ![cal.q].cal_failed = IF skipped THEN CAL_CHANCES ELSE queue[cal.q].cal_failed,
                ![cal.q].disabled = queue[cal.q].disabled \/ skipped \/ other]
  BY DEF DryRunResult, dryVars
<1>3. /\ \A p \in Ids : /\ queue'[p].exec_cksum = queue[p].exec_cksum
                        /\ queue'[p].bitmap_size = queue[p].bitmap_size
                        /\ queue[p].disabled => queue'[p].disabled
                        /\ queue'[p].cal_failed = 0 <=> queue[p].cal_failed = 0
      /\ pc' = "dry" /\ skipped => queue'[cal.q].disabled
  <2>1. CASE UNCHANGED <<queue, idx>> /\ pc' \in {"stop", "fatal"}
    BY <2>1
  <2>2. CASE pc' = "dry" /\ \E other \in BOOLEAN :
              queue' = [queue EXCEPT
                ![cal.q].cal_failed = IF skipped THEN CAL_CHANCES ELSE queue[cal.q].cal_failed,
                ![cal.q].disabled = queue[cal.q].disabled \/ skipped \/ other]
    <3> DEFINE chances == IF skipped THEN CAL_CHANCES ELSE queue[cal.q].cal_failed
               off(other) == queue[cal.q].disabled \/ skipped \/ other
    <3>1. PICK other \in BOOLEAN :
            queue' = [queue EXCEPT ![cal.q].cal_failed = chances, ![cal.q].disabled = off(other)]
      BY <2>2
    <3>2. chances = 0 <=> queue[cal.q].cal_failed = 0
      BY <1>1, BoundsAssumption DEF CalOwn
    <3>3. (queue[cal.q].disabled => off(other)) /\ (skipped => off(other))
      OBVIOUS
    <3> DEFINE d == off(other)
    <3>4. queue' = [queue EXCEPT ![cal.q].cal_failed = chances, ![cal.q].disabled = d]
      BY <3>1
    <3>5. (queue[cal.q].disabled => d) /\ (skipped => d)
      BY <3>3
    <3> HIDE DEF chances, d, skipped
    <3>6. \A p \in Ids : p # cal.q => queue'[p] = queue[p]
      BY <1>1, <3>4 DEF TypeOK
    <3>7. /\ queue'[cal.q].exec_cksum = queue[cal.q].exec_cksum
          /\ queue'[cal.q].bitmap_size = queue[cal.q].bitmap_size
          /\ queue'[cal.q].disabled = d /\ queue'[cal.q].cal_failed = chances
      BY <1>1, <3>4 DEF TypeOK, Entry
    <3> QED
      BY <3>2, <3>5, <3>6, <3>7
  <2> QED
    BY <1>2, <2>1, <2>2
<1> HIDE DEF skipped
<1>4. TouchedHitByAll'
  BY <1>1, <1>3, TouchedSame DEF Known, Touched
<1>5. CalOwn' /\ NotSmaller' /\ Unborn'
  BY <1>1, <1>2 DEF CalOwn, NotSmaller, Unborn, Calibrating
<1>6. DryOrder'
  <2>1. idx \in Nat
    BY DEF TypeOK
  <2> QED
    BY <1>1, <1>2, <1>3, <2>1 DEF DryOrder, Calibrating, Sum, Ids
<1>7. Paid'
  <2>1. Pending = 0 /\ Pending' = 0
    BY <1>1, <1>2 DEF Pending, Flag
  <2> QED
    BY <1>1, <2>1 DEF Paid, Touched
<1>8. Attained'
  <2>1. Calibrated' = Calibrated /\ \A q \in Calibrated : queue'[q].bitmap_size = queue[q].bitmap_size
    BY <1>1, <1>3 DEF Calibrated, Known
  <2> QED
    BY <1>1, <2>1, AttainedSame
<1>9. HangMap'
  <2>1. CASE pc' \in {"stop", "fatal"}
    BY <1>1, <2>1 DEF HangMap, Fuzzing, Calibrating
  <2>2. CASE pc' = "dry"
    <3>1. /\ ~stop_soon /\ (cal.fault = "CRASH" \/ skipped) /\ idx' = idx + 1 /\ cal.q = idx
          /\ idx \in Nat
      BY <1>1, <1>2, <2>2 DEF DryOrder, Calibrating, TypeOK
    <3>2. ASSUME NEW q \in Ids, q < idx' PROVE queue'[q].disabled \/ Small'
      <4>1. CASE q = cal.q
        BY <1>1, <1>3, <2>2, <3>1, <4>1 DEF HangMap, Small
      <4>2. CASE q # cal.q
        <5>1. q < idx
          BY <3>1, <3>2, <4>2 DEF Ids
        <5> QED
          BY <1>1, <1>3, <5>1 DEF HangMap, Small, Calibrating
      <4> QED
        BY <4>1, <4>2
    <3> QED
      BY <1>1, <2>2, <3>2 DEF HangMap, Fuzzing, Calibrating
  <2> QED
    BY <1>2, <2>1, <2>2
<1> QED
  BY <1>4, <1>5, <1>6, <1>7, <1>8, <1>9

\* The end of the dry run: fuzzing begins only with a seed that passed.
LEMMA DryEndStep ==
  ASSUME IInv, TypeOK', DryRunEnd
  PROVE  IInv'
<1> USE DEF IInv
<1>1. /\ pc = "dry" /\ idx > queued_items /\ pc' \in {"fatal", "idle"} /\ HasMatrix' = HasMatrix
      /\ UNCHANGED <<first_trace, virgin_bits, virgin_tmout, var_bytes, min_bitmap_size,
                     queued_items, queued_with_cov, testcase_matrix, idx, cal, stop_soon>>
  BY DEF DryRunEnd, mapVars, minVars, dryVars, HasMatrix
<1>2. HasMatrix
  BY <1>1, BoundsAssumption DEF Unborn, TypeOK
<1>3. pc' = "idle" => Small
  <2>1. pc' = "idle" => \E q \in 1..Seeds : ~queue[q].disabled
    BY DEF DryRunEnd
  <2>2. \A q \in 1..Seeds : q \in Ids /\ q < idx
    BY <1>1, BoundsAssumption DEF Ids, TypeOK
  <2> QED
    BY <1>1, <2>1, <2>2 DEF HangMap
<1>4. \A p \in Ids : /\ queue'[p].exec_cksum = queue[p].exec_cksum
                     /\ queue'[p].bitmap_size = queue[p].bitmap_size
                     /\ queue'[p].cal_failed = queue[p].cal_failed
  <2>1. CASE queue' = queue
    BY <2>1
  <2>2. CASE queue' # queue
    <3>1. PICK D : queue' = [q \in Ids |-> [queue[q] EXCEPT !.disabled = queue[q].disabled \/ q \in D]]
      BY <2>2 DEF DryRunEnd
    <3>2. \A q \in Ids : queue[q] \in Entry
      BY DEF TypeOK
    <3>3. \A d : \A e \in Entry :
            /\ [e EXCEPT !.disabled = d].exec_cksum = e.exec_cksum
            /\ [e EXCEPT !.disabled = d].bitmap_size = e.bitmap_size
            /\ [e EXCEPT !.disabled = d].cal_failed = e.cal_failed
      BY DEF Entry
    <3>4. \A p \in Ids : queue'[p] = [queue[p] EXCEPT !.disabled = queue[p].disabled \/ p \in D]
      BY <3>1, Zenon
    <3> TAKE p \in Ids
    <3> DEFINE d == queue[p].disabled \/ p \in D
    <3>5. queue'[p] = [queue[p] EXCEPT !.disabled = d] /\ queue[p] \in Entry
      BY <3>2, <3>4
    <3> HIDE DEF d
    <3> QED
      BY <3>3, <3>5
  <2> QED
    BY <2>1, <2>2
<1>5. TouchedHitByAll'
  BY <1>1, <1>4, TouchedSame DEF Known, Touched
<1>6. CalOwn' /\ DryOrder' /\ NotSmaller' /\ Unborn'
  BY <1>1, <1>2 DEF CalOwn, DryOrder, NotSmaller, Unborn, Calibrating
<1>7. Paid'
  <2>1. Pending = 0 /\ Pending' = 0
    BY <1>1 DEF Pending, Flag
  <2> QED
    BY <1>1, <2>1 DEF Paid, Touched
<1>8. Attained'
  <2>1. Calibrated' = Calibrated /\ \A q \in Calibrated : queue'[q].bitmap_size = queue[q].bitmap_size
    BY <1>1, <1>4 DEF Calibrated, Known
  <2> QED
    BY <1>1, <1>2, <2>1, AttainedSame
<1>9. HangMap'
  BY <1>1, <1>2, <1>3 DEF HangMap, Fuzzing, Calibrating, Small
<1> QED
  BY <1>5, <1>6, <1>7, <1>8, <1>9

\* Steps that change no map but trace_bits, outside a calibration.
LEMMA QuietStep ==
  ASSUME IInv, TypeOK',
         UNCHANGED <<first_trace, virgin_bits, virgin_tmout, var_bytes, minVars, queueVars,
                     dryVars, cal>>,
         \/ pc' = pc /\ trace_bits' = trace_bits /\ (stop_soon => stop_soon')
         \/ Fuzzing /\ pc' \in {"idle", "save", "stop", "fatal"} /\ pc # "cal"
  PROVE  IInv'
<1> USE DEF IInv
<1>1. /\ HasMatrix' = HasMatrix
      /\ UNCHANGED <<first_trace, virgin_bits, virgin_tmout, var_bytes, min_bitmap_size, queue,
                     queued_items, queued_with_cov, testcase_matrix, idx, cal>>
  BY DEF minVars, queueVars, dryVars, HasMatrix
<1>2. TouchedHitByAll'
  BY <1>1, TouchedSame DEF Known, Touched
<1>3. Fuzzing => HasMatrix /\ Small
  BY DEF HangMap
<1>4. CalOwn' /\ DryOrder'
  BY <1>1 DEF CalOwn, DryOrder, Calibrating, Sum
<1>5. NotSmaller' /\ Unborn'
  BY <1>1, <1>3 DEF NotSmaller, Unborn, Sum, Touched
<1>6. Paid'
  <2>1. Pending' \in {0, 1} /\ Pending \in {0, 1} /\ (Pending' = 1 => Pending = 1)
    BY <1>1 DEF Pending, Flag
  <2>2. Cardinality(Edges \ Touched(virgin_bits)) \in Nat /\ Cardinality(var_bytes) \in Nat
    <3>1. Edges \ Touched(virgin_bits) \in SUBSET Edges /\ var_bytes \in SUBSET Edges
      BY DEF TypeOK
    <3> QED
      BY <3>1, EdgesAssumption, FS_Subset, FS_CardinalityType
  <2>3. queued_with_cov \in Nat
    BY DEF TypeOK
  <2>4. Touched(virgin_bits)' = Touched(virgin_bits)
    BY <1>1 DEF Touched
  <2> QED
    BY <1>1, <2>1, <2>2, <2>3, <2>4 DEF Paid
<1>7. Attained'
  <2>1. Calibrated' = Calibrated
    BY <1>1 DEF Calibrated, Known
  <2> QED
    BY <1>1, <2>1, AttainedSame DEF Attained
<1>8. HangMap'
  BY <1>1, <1>3 DEF HangMap, Fuzzing, Calibrating, Small
<1> QED
  BY <1>2, <1>4, <1>5, <1>6, <1>7, <1>8

\* The invariant holds at the start.
LEMMA InitInv == Init => IInv
<1> SUFFICES ASSUME Init PROVE IInv
  OBVIOUS
<1>1. TypeOK
  <2>1. 1 \in Ids
    BY BoundsAssumption DEF Ids
  <2>2. NewEntry \in Entry
    BY DEF NewEntry, Entry
  <2>3. ZeroTrace \in Trace /\ [e \in Edges |-> Virgin] \in VirginMap
    BY DEF ZeroTrace, Trace, Byte, VirginMap, Virgin
  <2>4. queue \in [Ids -> Entry]
    BY <2>2 DEF Init
  <2>5. cal \in CalLocals
    BY <2>1 DEF Init, CalLocals, Fault
  <2>6. /\ queued_items \in Seeds..MaxEntries /\ queued_with_cov \in Nat
        /\ testcase_matrix \in 0..MaxEntries /\ execs \in 0..MaxExecs
        /\ idx \in Nat \ {0} /\ cal_failures \in Nat /\ actual_counts \in Nat
    BY BoundsAssumption DEF Init
  <2>7. min_bitmap_size \in 0..UintMax /\ min_actual_cnts \in 0..UintMax
    BY UintMaxAssumption DEF Init
  <2>8. /\ trace_bits \in Trace /\ first_trace \in Trace /\ virgin_bits \in VirginMap
        /\ virgin_tmout \in VirginMap /\ var_bytes \subseteq Edges
    BY <2>3 DEF Init
  <2>9. /\ fault \in Fault /\ stop_soon \in BOOLEAN
        /\ pc \in {"dry", "cal", "ret", "idle", "save", "stop", "fatal"}
    BY DEF Init, Fault
  <2> QED
    BY <2>4, <2>5, <2>6, <2>7, <2>8, <2>9 DEF TypeOK
<1>2. ~HasMatrix /\ \A q \in Ids : queue[q].exec_cksum = NULL
  BY DEF Init, HasMatrix, NewEntry
<1>3. TouchedHitByAll
  BY <1>2 DEF TouchedHitByAll, Known
<1>4. CalOwn /\ DryOrder
  BY <1>2 DEF CalOwn, DryOrder, Init, Calibrating, Sum
<1>5. Unborn
  <2>1. 1 \in Ids
    BY BoundsAssumption DEF Ids
  <2>2. Touched(virgin_bits) = {}
    BY DEF Init, Touched
  <2> QED
    BY <1>2, <2>1, <2>2 DEF Unborn, Sum, Init
<1>6. Paid /\ Attained /\ NotSmaller
  BY <1>2 DEF Paid, Attained, NotSmaller
<1>7. HangMap
  BY DEF HangMap, Fuzzing, Calibrating, Init, Ids
<1> QED
  BY <1>1, <1>3, <1>4, <1>5, <1>6, <1>7 DEF IInv

\* Every step keeps the invariant.
LEMMA NextInv == IInv /\ [Next]_vars => IInv'
<1> SUFFICES ASSUME IInv, [Next]_vars PROVE IInv'
  OBVIOUS
<1>1. TypeOK'
  BY TypeStep DEF IInv
<1>2. ASSUME NEW r \in Runs, CalRun(r) PROVE IInv'
  <2>1. CASE CalRunFailed(r)
    BY <1>1, <1>2, <2>1, FailedStep
  <2>2. CASE CalRunCrashed(r)
    <3>1. CASE queue[cal.q].exec_cksum = NULL
      BY <1>1, <1>2, <2>2, <3>1, FirstTraceStep
    <3>2. CASE queue[cal.q].exec_cksum = trace_bits'
      BY <1>1, <1>2, <2>2, <3>2, SameTraceStep
    <3> QED
      BY <1>1, <1>2, <2>2, <3>1, <3>2, MovedStep
  <2> QED
    BY <1>2, <2>1, <2>2 DEF CalRun
<1>3. ASSUME NEW r \in Runs, FuzzRun(r) PROVE IInv'
  BY <1>1, <1>3, QuietStep DEF FuzzRun, Fuzzing
<1>4. CASE SaveCrashElsewhere
  BY <1>1, <1>4, QuietStep DEF SaveCrashElsewhere, Fuzzing, mapVars
<1>5. CASE SaveOther
  BY <1>1, <1>5, QuietStep DEF SaveOther, Fuzzing, mapVars
<1>6. CASE CalReturn
  BY <1>1, <1>6, QuietStep DEF CalReturn, Fuzzing, Calibrating, mapVars
<1>7. CASE HandleStopSig
  BY <1>1, <1>7, QuietStep DEF HandleStopSig, mapVars
<1>8. CASE Stop
  BY <1>1, <1>8, QuietStep DEF Stop, Fuzzing, mapVars
<1>9. CASE UNCHANGED vars
  BY <1>1, <1>9, QuietStep DEF vars, mapVars
<1>10. ASSUME NEW q \in Ids, FuzzOneRecalibrate(q) PROVE IInv'
  BY <1>1, <1>10, RecalibrateStep
<1> QED
  BY <1>1, <1>2, <1>3, <1>4, <1>5, <1>6, <1>7, <1>8, <1>9, <1>10, EndStep, SeedStep, BirthStep,
     ResultStep, DryEndStep, TmoutStep, BoringStep, CrashStep DEF Next

\* The invariant holds in every reachable state.
LEMMA Invariance == Spec => []IInv
<1>1. Init => IInv
  BY InitInv
<1>2. IInv /\ [Next]_vars => IInv'
  BY NextInv
<1> QED
  BY <1>1, <1>2, PTL DEF Spec

----------------------------------------------------------------------------
(* Seeds with the same trace                                               *)

Rivals == {q \in 1..Seeds : Eligible(q)}

\* y can stand for x.
Better(y, x) == Sum(y) = Sum(x) /\ SeedLen[y] <= SeedLen[x]

\* Each seed in D has a substitute that is not in D, and a seed up to k that
\* is not in D is the only one of its trace.
Deduped(k, D) ==
  /\ D \in SUBSET Rivals
  /\ \A x \in D : \E y \in Rivals \ D : Better(y, x)
  /\ \A i \in Rivals \ D : \A j \in Rivals \ D : i <= k /\ Sum(i) = Sum(j) => i = j

\* Disabling more seeds is fine when the new ones have a substitute.
LEMMA StillBetter ==
  ASSUME NEW k, NEW D, Deduped(k, D), NEW E \in SUBSET Rivals, D \subseteq E,
         NEW z \in Rivals \ E, \A x \in E \ D : Better(z, x)
  PROVE  \A x \in E : \E y \in Rivals \ E : Better(y, x)
<1> SUFFICES ASSUME NEW x \in E PROVE \E y \in Rivals \ E : Better(y, x)
  OBVIOUS
<1>1. CASE x \notin D
  BY <1>1
<1>2. CASE x \in D
  <2>1. PICK y \in Rivals \ D : Better(y, x)
    BY <1>2 DEF Deduped
  <2>2. CASE y \notin E
    BY <2>1, <2>2
  <2>3. CASE y \in E
    <3>1. Better(z, y)
      BY <2>3
    <3>2. SeedLen[x] \in Nat /\ SeedLen[y] \in Nat /\ SeedLen[z] \in Nat
      BY BoundsAssumption DEF Rivals
    <3>3. Better(z, x)
      BY <2>1, <3>1, <3>2 DEF Better
    <3> QED
      BY <3>3
  <2> QED
    BY <2>2, <2>3
<1> QED
  BY <1>1, <1>2

\* The turn of seed k.
LEMMA DedupStep ==
  ASSUME NEW k \in 1..Seeds, NEW D, Deduped(k - 1, D)
  PROVE  Deduped(k, Dedup(k, D))
<1> DEFINE T == Twins(k, D)
           S == {p \in T : SeedLen[p] < SeedLen[k]}
<1>1. /\ D \in SUBSET Rivals
      /\ \A i \in Rivals \ D : \A j \in Rivals \ D : i <= k - 1 /\ Sum(i) = Sum(j) => i = j
  BY DEF Deduped
<1>2. Seeds \in Nat /\ \A q \in 1..Seeds : SeedLen[q] \in Nat
  BY BoundsAssumption
<1>3. \A p : p \in T <=> p \in Rivals \ D /\ p > k /\ Sum(p) = Sum(k)
  BY <1>2 DEF Twins, Rivals, Sum
<1>4. \A i \in Rivals : i \in 1..Seeds /\ (i <= k <=> i <= k - 1 \/ i = k)
  BY <1>2 DEF Rivals
<1>5. CASE k \in D \/ ~Eligible(k)
  <2>1. Dedup(k, D) = D
    BY <1>5 DEF Dedup
  <2>2. k \notin Rivals \ D
    BY <1>5 DEF Rivals
  <2>3. \A i \in Rivals \ D : i <= k => i <= k - 1
    BY <1>4, <2>2
  <2> QED
    BY <2>1, <2>3 DEF Deduped
<1>6. CASE ~(k \in D \/ ~Eligible(k)) /\ S = {}
  <2>1. Dedup(k, D) = D \cup T
    BY <1>6 DEF Dedup
  <2>2. k \in Rivals \ D /\ k \notin T
    BY <1>3, <1>6 DEF Rivals
  <2>3. D \cup T \in SUBSET Rivals /\ D \subseteq D \cup T /\ k \in Rivals \ (D \cup T)
    BY <1>1, <1>3, <2>2
  <2>4. \A x \in (D \cup T) \ D : Better(k, x)
    <3> TAKE x \in (D \cup T) \ D
    <3>1. x \in T /\ ~(SeedLen[x] < SeedLen[k]) /\ x \in 1..Seeds
      BY <1>3, <1>4, <1>6
    <3>2. Sum(k) = Sum(x)
      BY <1>3, <3>1
    <3>3. SeedLen[k] <= SeedLen[x]
      BY <1>2, <3>1
    <3> QED
      BY <3>2, <3>3 DEF Better
  <2> DEFINE E == D \cup T
  <2> HIDE DEF T, S
  <2>5. \A x \in E : \E y \in Rivals \ E : Better(y, x)
    <3> HIDE DEF E
    <3> QED
      BY <2>3, <2>4, StillBetter DEF E
  <2>6. \A i \in Rivals \ E : \A j \in Rivals \ E : i <= k /\ Sum(i) = Sum(j) => i = j
    <3> SUFFICES ASSUME NEW i \in Rivals \ E, NEW j \in Rivals \ E, i <= k, Sum(i) = Sum(j)
                 PROVE  i = j
      OBVIOUS
    <3>1. i \in Rivals \ D /\ j \in Rivals \ D /\ j \notin T
      OBVIOUS
    <3>2. CASE i <= k - 1
      BY <1>1, <3>1, <3>2
    <3>3. CASE i = k
      <4>1. ~(j > k)
        BY <1>3, <3>1, <3>3
      <4>2. j <= k - 1 \/ j = k
        BY <1>2, <1>4, <4>1
      <4> QED
        BY <1>1, <3>1, <3>3, <4>2
    <3> QED
      BY <1>4, <3>2, <3>3
  <2> QED
    BY <2>1, <2>3, <2>5, <2>6 DEF Deduped
<1>7. CASE ~(k \in D \/ ~Eligible(k)) /\ S # {}
  <2> DEFINE m == Min(S)
             L == {p \in T : p < m}
             E == D \cup {k} \cup L
  <2>1. Dedup(k, D) = E
    BY <1>7 DEF Dedup
  <2>2. S \in SUBSET Nat
    BY <1>3, <1>4
  <2>3. m \in S /\ \A p \in S : m <= p
    <3> HIDE DEF S
    <3> QED
      BY <1>7, <2>2, MinNat
  <2>4. k \in Rivals \ D /\ k \in 1..Seeds
    BY <1>7 DEF Rivals
  <2>5. m \in T /\ SeedLen[m] < SeedLen[k] /\ m \in Nat
    BY <2>2, <2>3
  <2>6. \A p \in T : p < m => ~(SeedLen[p] < SeedLen[k])
    <3> SUFFICES ASSUME NEW p \in T, p < m, SeedLen[p] < SeedLen[k] PROVE FALSE
      OBVIOUS
    <3>1. p \in S /\ m <= p
      BY <2>3
    <3> QED
      BY <2>2, <2>5, <3>1
  <2> HIDE DEF m, S, T
  <2>7. m \in Rivals \ D /\ m > k /\ Sum(m) = Sum(k) /\ m \in 1..Seeds
    BY <1>3, <1>4, <2>5
  <2>8. m # k /\ ~(m < m)
    BY <2>5, <2>7
  <2>9. E \in SUBSET Rivals /\ D \subseteq E /\ m \in Rivals \ E
    BY <1>1, <1>3, <2>4, <2>7, <2>8
  <2>10. \A x \in E \ D : Better(m, x)
    <3> TAKE x \in E \ D
    <3>1. CASE x = k
      BY <1>2, <2>4, <2>5, <2>7, <3>1 DEF Better
    <3>2. CASE x \in L
      <4>1. Sum(m) = Sum(x) /\ x \in 1..Seeds /\ ~(SeedLen[x] < SeedLen[k])
        BY <1>3, <1>4, <2>6, <2>7, <3>2
      <4>2. SeedLen[m] <= SeedLen[x]
        BY <1>2, <2>4, <2>5, <2>7, <4>1
      <4> QED
        BY <4>1, <4>2 DEF Better
    <3> QED
      BY <3>1, <3>2
  <2>11. k \in E /\ D \subseteq E
    OBVIOUS
  <2> HIDE DEF E, L
  <2>12. \A x \in E : \E y \in Rivals \ E : Better(y, x)
    BY <2>9, <2>10, StillBetter
  <2>13. \A i \in Rivals \ E : \A j \in Rivals \ E : i <= k /\ Sum(i) = Sum(j) => i = j
    <3> SUFFICES ASSUME NEW i \in Rivals \ E, NEW j \in Rivals \ E, i <= k, Sum(i) = Sum(j)
                 PROVE  i = j
      OBVIOUS
    <3>1. i \in Rivals \ D /\ j \in Rivals \ D /\ i <= k - 1
      BY <1>4, <2>11
    <3> QED
      BY <1>1, <3>1
  <2> QED
    BY <2>1, <2>9, <2>12, <2>13 DEF Deduped
<1> QED
  BY <1>5, <1>6, <1>7

\* h runs Dedup over the first m seeds.
Dedups(h, m) == h = [q \in 0..m |-> IF q = 0 THEN {} ELSE Dedup(q, h[q - 1])]

\* The recursion has a solution.
LEMMA DedupsExist == \A m \in Nat : \E h : Dedups(h, m)
<1> DEFINE Bad == {m \in Nat : ~\E h : Dedups(h, m)}
<1> SUFFICES ASSUME Bad # {} PROVE FALSE
  OBVIOUS
<1>1. PICK m \in Bad : \A j \in Bad : m <= j
  <2>1. Bad \in SUBSET Nat
    OBVIOUS
  <2> HIDE DEF Bad
  <2> QED
    BY <2>1, LeastNat
<1>2. m \in Nat /\ ~\E h : Dedups(h, m)
  BY <1>1
<1>3. m # 0
  <2> DEFINE h == [k \in 0..0 |-> {}]
  <2>1. Dedups(h, 0)
    BY DEF Dedups
  <2> HIDE DEF h
  <2> QED
    BY <1>2, <2>1
<1>4. PICK h : Dedups(h, m - 1)
  <2>1. m - 1 \in Nat /\ ~(m <= m - 1)
    BY <1>2, <1>3
  <2> QED
    BY <1>1, <2>1
<1> DEFINE F(x, q) == IF q = 0 THEN {} ELSE Dedup(q, x[q - 1])
           g == [q \in 0..m |-> F(h, q)]
<1>5. \A q \in 0..(m - 1) : h[q] = F(h, q)
  BY <1>4 DEF Dedups
<1>6. \A q \in 0..m : q # 0 => q - 1 \in 0..(m - 1) /\ q - 1 \in 0..m
  BY <1>2
<1>7. \A q \in 0..(m - 1) : q \in 0..m /\ g[q] = h[q]
  BY <1>2, <1>5
<1>8. \A q \in 0..m : F(h, q) = F(g, q)
  <2> HIDE DEF g
  <2> QED
    BY <1>6, <1>7
<1>9. g = [q \in 0..m |-> F(g, q)]
  <2> HIDE DEF F
  <2>1. [q \in 0..m |-> F(h, q)] = [q \in 0..m |-> F(g, q)]
    BY <1>8
  <2> QED
    BY <2>1
<1>10. Dedups(g, m)
  <2> HIDE DEF g
  <2> QED
    BY <1>9 DEF Dedups
<1> QED
  BY <1>2, <1>10

\* After the whole search one seed of each trace is left, a shortest one.
LEMMA DuplicatesDeduped == Deduped(Seeds, Duplicates[Seeds])
<1>1. Seeds \in Nat
  BY BoundsAssumption
<1>2. Dedups(Duplicates, Seeds)
  BY <1>1, DedupsExist DEF Duplicates, Dedups
<1>3. PICK h : h = Duplicates
  OBVIOUS
<1>4. Dedups(h, Seeds)
  BY <1>2, <1>3
<1>5. h[0] = {} /\ \A q \in 1..Seeds : h[q] = Dedup(q, h[q - 1])
  <2> DEFINE F(q) == IF q = 0 THEN {} ELSE Dedup(q, h[q - 1])
  <2>1. \A q \in 0..Seeds : h[q] = F(q)
    <3> HIDE DEF F
    <3>1. h = [q \in 0..Seeds |-> F(q)]
      BY <1>4 DEF Dedups, F
    <3> QED
      BY <3>1
  <2>2. 0 \in 0..Seeds /\ \A q \in 1..Seeds : q \in 0..Seeds /\ q # 0
    BY <1>1
  <2> QED
    BY <2>1, <2>2, Zenon
<1> DEFINE Bad == {q \in 0..Seeds : ~Deduped(q, h[q])}
<1>6. Bad = {}
  <2> SUFFICES ASSUME Bad # {} PROVE FALSE
    OBVIOUS
  <2>1. PICK q \in Bad : \A j \in Bad : q <= j
    <3>1. Bad \in SUBSET Nat
      OBVIOUS
    <3> HIDE DEF Bad
    <3> QED
      BY <3>1, LeastNat
  <2>2. q \in 0..Seeds /\ ~Deduped(q, h[q])
    BY <2>1
  <2>3. q # 0
    <3>1. \A i \in Rivals : ~(i <= 0)
      BY <1>1 DEF Rivals
    <3>2. Deduped(0, {})
      BY <3>1 DEF Deduped
    <3> QED
      BY <1>5, <2>2, <3>2
  <2>4. q \in 1..Seeds /\ q - 1 \in 0..Seeds /\ ~(q <= q - 1)
    BY <1>1, <2>2, <2>3
  <2>5. Deduped(q - 1, h[q - 1])
    BY <2>1, <2>4
  <2> QED
    BY <1>5, <2>2, <2>4, <2>5, DedupStep
<1>7. Seeds \in 0..Seeds
  BY <1>1
<1> QED
  BY <1>3, <1>6, <1>7

\* The dry run passes with the duplicates disabled and nothing else changed.
LEMMA DryEndDisables ==
  ASSUME TypeOK, DryRunEnd, pc' = "idle"
  PROVE  \A p \in Rivals : queue'[p].disabled <=> p \in Duplicates[Seeds]
<1>1. PICK D : /\ D = Duplicates[Seeds]
               /\ queue' = [q \in Ids |-> [queue[q] EXCEPT !.disabled = queue[q].disabled \/ q \in D]]
  BY DEF DryRunEnd
<1>2. \A q \in Ids : queue[q] \in Entry
  BY DEF TypeOK
<1>3. \A d : \A e \in Entry : [e EXCEPT !.disabled = d].disabled = d
  BY DEF Entry
<1>4. \A p \in Ids : queue'[p] = [queue[p] EXCEPT !.disabled = queue[p].disabled \/ p \in D]
  BY <1>1, Zenon
<1> TAKE p \in Rivals
<1>5. p \in Ids /\ ~queue[p].disabled
  BY BoundsAssumption DEF Rivals, Eligible, Ids
<1> DEFINE d == queue[p].disabled \/ p \in D
<1>6. queue'[p] = [queue[p] EXCEPT !.disabled = d] /\ queue[p] \in Entry
  BY <1>2, <1>4, <1>5
<1>7. queue'[p].disabled = d
  <2> HIDE DEF d
  <2> QED
    BY <1>3, <1>6
<1> QED
  BY <1>1, <1>5, <1>7

----------------------------------------------------------------------------
(* Results                                                                 *)

\* Whatever the order of runs, saved inputs and repeated calibrations, an edge
\* virgin_bits holds as touched and not variable is hit by every entry.
THEOREM TouchedByAll == Spec => []TouchedHitByAll
<1>1. IInv => TouchedHitByAll
  BY DEF IInv
<1> QED
  BY <1>1, Invariance, PTL

\* min_bitmap_size is the size of a smallest calibrated entry.
THEOREM SmallestKept == Spec => []MinimumAttained
<1>1. IInv => MinimumAttained
  <2> SUFFICES ASSUME IInv, HasMatrix
               PROVE  min_bitmap_size
                        = Min({UintMax} \cup {queue[q].bitmap_size : q \in Calibrated})
    BY DEF MinimumAttained
  <2>1. MinOf(min_bitmap_size, {UintMax} \cup Sizes)
    BY DEF IInv, Attained
  <2>2. {UintMax} \cup Sizes \in SUBSET Nat
    BY UintMaxAssumption DEF IInv, TypeOK, Entry, Sizes, Calibrated
  <2>3. Min({UintMax} \cup Sizes) = min_bitmap_size
    <3> DEFINE S == {UintMax} \cup Sizes
    <3>1. S \in SUBSET Nat /\ min_bitmap_size \in S /\ \A s \in S : min_bitmap_size <= s
      BY <2>1, <2>2 DEF MinOf
    <3> HIDE DEF S
    <3>2. Min(S) = min_bitmap_size
      BY <3>1, MinIs
    <3> QED
      BY <3>2 DEF S
  <2> QED
    BY <2>3 DEF Sizes
<1> QED
  BY <1>1, Invariance, PTL

\* Coverage changes are paid for by edges, so their number is bounded.
THEOREM ChangesBounded == Spec => []CovBudget
<1>1. IInv => CovBudget
  <2> SUFFICES ASSUME IInv PROVE CovBudget
    OBVIOUS
  <2> DEFINE c == Cardinality(Edges \ Touched(virgin_bits))
             d == Cardinality(var_bytes)
  <2>1. c \in Nat /\ d \in Nat
    <3>1. Edges \ Touched(virgin_bits) \in SUBSET Edges /\ var_bytes \in SUBSET Edges
      BY DEF IInv, TypeOK
    <3> QED
      BY <3>1, EdgesAssumption, FS_Subset, FS_CardinalityType
  <2>2. queued_with_cov \in Nat /\ Pending \in {0, 1}
    BY DEF IInv, TypeOK, Pending, Flag
  <2>3. HasMatrix => queued_with_cov + Pending <= 1 + c + d
    BY DEF IInv, Paid
  <2>4. ~HasMatrix => queued_with_cov <= 1
    BY DEF IInv, Unborn
  <2>5. queued_with_cov <= 1 + c + d
    <3> HIDE DEF c, d
    <3> QED
      BY <2>1, <2>2, <2>3, <2>4
  <2> QED
    BY <2>5 DEF CovBudget, IInv
<1> QED
  BY <1>1, Invariance, PTL

\* A timeout that save_if_interesting looks at is dropped.
HangsDropped == pc = "save" /\ fault = "TMOUT" => Boring(HangBits.ret)

\* No timeout is ever kept, whatever it covers: simplify_trace leaves no byte
\* zero, so a timeout loses no edge and is never smaller than an entry, and
\* has_few_bits never marks the hang map touched.  So NewHangKept fails for every
\* timeout with a new bit, and the code that runs a hang again is dead.
THEOREM NoHangKept == Spec => []HangsDropped
<1>1. IInv => HangsDropped
  <2> SUFFICES ASSUME IInv, pc = "save" PROVE HangBits.ret = 16
    BY DEF HangsDropped, Boring
  <2> DEFINE t == simplify_trace(SaveTrace)
  <2>1. HasMatrix /\ Small /\ SaveTrace \in Trace
    BY SaveFacts
  <2>2. HitEdges(t) = Edges
    BY <2>1, ClassifyType
  <2>3. Touched(virgin_tmout) = {}
    BY DEF IInv, HangMap, Touched
  <2>4. Lost(t, virgin_tmout) = {} /\ ~FreshTouchedWord(t, virgin_tmout)
    BY <2>3 DEF Lost, FreshTouchedWord
  <2>5. ~(count_bytes(t) < min_bitmap_size)
    <3>1. count_bytes(t) = Cardinality(Edges) /\ Cardinality(Edges) \in Nat /\ min_bitmap_size \in Nat
      BY <2>2, CountBytes, MinType DEF count_bytes, IInv
    <3> QED
      BY <2>1, <3>1 DEF Small
  <2>6. HangBits.ret = DecreaseCode(t, virgin_tmout, SaveCounts, min_bitmap_size, min_actual_cnts)
    BY <2>1 DEF HangBits, FewBits, has_few_bits
  <2> HIDE DEF t
  <2> QED
    BY <2>4, <2>5, <2>6 DEF DecreaseCode, Flag
<1> QED
  BY <1>1, Invariance, PTL

\* When the dry run has passed, exactly one seed of each trace is left enabled,
\* and no seed of that trace is shorter.
THEOREM OneSeedPerTrace == Spec => SeedsDeduped
<1> DEFINE A == pc = "dry" /\ pc' = "idle" =>
                  \A q \in {q \in 1..Seeds : Eligible(q)} :
                    LET same == {p \in 1..Seeds : Eligible(p) /\ queue[p].exec_cksum = queue[q].exec_cksum}
                        kept == {p \in same : ~queue'[p].disabled}
                    IN  Cardinality(kept) = 1 /\ \A k \in kept, p \in same : SeedLen[k] <= SeedLen[p]
<1>1. ASSUME IInv, [Next]_vars PROVE A
  <2> SUFFICES ASSUME pc = "dry", pc' = "idle", NEW q \in Rivals
               PROVE  LET same == {p \in 1..Seeds : /\ Eligible(p)
                                                    /\ queue[p].exec_cksum = queue[q].exec_cksum}
                          kept == {p \in same : ~queue'[p].disabled}
                      IN  /\ Cardinality(kept) = 1
                          /\ \A k \in kept, p \in same : SeedLen[k] <= SeedLen[p]
    BY DEF Rivals
  <2>1. DryRunEnd
    <3>1. pc # pc'
      OBVIOUS
    <3>2. ~DryRunSeed /\ ~HandleStopSig /\ ~UNCHANGED vars
      BY <3>1 DEF DryRunSeed, CalEnter, HandleStopSig, vars
    <3>3. \A r \in Runs : ~CalRun(r) /\ ~FuzzRun(r)
      BY DEF CalRun, FuzzRun
    <3>4. ~CalEnd /\ ~MatrixBirth /\ ~DryRunResult /\ ~CalReturn
      BY DEF CalEnd, MatrixBirth, DryRunResult, CalReturn
    <3>5. ~SaveTmout /\ ~SaveCrashElsewhere /\ ~SaveCrashBoring /\ ~SaveCrash /\ ~SaveOther
      BY DEF SaveTmout, SaveCrashElsewhere, SaveCrashBoring, SaveCrash, SaveOther
    <3>6. ~Stop /\ \A p \in Ids : ~FuzzOneRecalibrate(p)
      BY DEF Stop, FuzzOneRecalibrate
    <3> QED
      BY <1>1, <3>2, <3>3, <3>4, <3>5, <3>6 DEF Next
  <2>2. PICK D : D = Duplicates[Seeds]
    OBVIOUS
  <2>3. Deduped(Seeds, D)
    BY <2>2, DuplicatesDeduped
  <2>4. \A p \in Rivals : queue'[p].disabled <=> p \in D
    BY <1>1, <2>1, <2>2, DryEndDisables DEF IInv
  <2>5. Seeds \in Nat /\ \A p \in Rivals : p <= Seeds
    BY BoundsAssumption DEF Rivals
  <2>6. PICK y \in Rivals \ D : Sum(y) = Sum(q)
    BY <2>3 DEF Deduped, Better
  <2> DEFINE same == {p \in 1..Seeds : Eligible(p) /\ queue[p].exec_cksum = queue[q].exec_cksum}
             kept == {p \in same : ~queue'[p].disabled}
  <2>7. \A p : p \in same <=> p \in Rivals /\ Sum(p) = Sum(q)
    BY DEF Rivals, Sum
  <2>8. kept = {y}
    <3>1. \A p : p \in kept <=> p \in Rivals \ D /\ Sum(p) = Sum(q)
      BY <2>4, <2>7
    <3>2. \A p \in Rivals \ D : Sum(p) = Sum(q) => p = y
      BY <2>3, <2>5, <2>6 DEF Deduped
    <3> HIDE DEF kept, same
    <3> QED
      BY <2>6, <3>1, <3>2
  <2>9. \A p \in same : SeedLen[y] <= SeedLen[p]
    <3> SUFFICES ASSUME NEW p \in same PROVE SeedLen[y] <= SeedLen[p]
      OBVIOUS
    <3>1. p \in Rivals /\ Sum(p) = Sum(q)
      BY <2>7
    <3> HIDE DEF same
    <3>2. CASE p \in D
      <4>1. PICK z \in Rivals \ D : Better(z, p)
        BY <2>3, <3>2 DEF Deduped
      <4>2. z = y
        BY <2>3, <2>5, <2>6, <3>1, <4>1 DEF Deduped, Better
      <4> QED
        BY <4>1, <4>2 DEF Better
    <3>3. CASE p \notin D
      <4>1. p = y
        BY <2>3, <2>5, <2>6, <3>1, <3>3 DEF Deduped
      <4>2. SeedLen[y] \in Nat
        BY BoundsAssumption DEF Rivals
      <4> QED
        BY <4>1, <4>2
    <3> QED
      BY <3>2, <3>3
  <2>10. Cardinality(kept) = 1
    <3> HIDE DEF kept
    <3> QED
      BY <2>8, FS_Singleton
  <2> HIDE DEF kept, same
  <2>11. Cardinality(kept) = 1 /\ \A k \in kept, p \in same : SeedLen[k] <= SeedLen[p]
    BY <2>8, <2>9, <2>10
  <2> QED
    BY <2>11 DEF kept, same
<1>2. IInv /\ [Next]_vars => [A]_vars
  BY <1>1
<1> QED
  BY <1>2, Invariance, PTL DEF Spec, SeedsDeduped

=============================================================================
