-------------------------- MODULE QueueScoreProofs --------------------------
(***************************************************************************)
(* Proofs about QueueScore, for every map size, queue bound and schedule:  *)
(* the type invariant, the reference counts of top_rated entries, the life *)
(* time of their traces, the counters of the queue and what its favoured   *)
(* entries cover.                                                          *)
(***************************************************************************)
EXTENDS QueueScore, FiniteSums

\* Where the loop index and the current entry stand.
Control ==
  /\ pc = "dry" => idx \in 1..(Seeds + 1) /\ (testcase_matrix = 0 => idx = 1)
  /\ pc \in {"one", "trim", "stages", "abandon"} => queue_cur # 0

\* The inductive invariant.
IInv == TypeOK /\ RefCount /\ MiniAlive /\ Control

\* The map is finite.
LEMMA EdgesFinite == IsFiniteSet(Edges)
BY FS_Interval, SizeAssumption DEF Edges

\* Queued entries are among the possible ones.
LEMMA QueuedIds == TypeOK => Queued \subseteq Ids
BY SizeAssumption DEF TypeOK, Queued, Ids

\* update_bitmap_score keeps the reference counts exact and the traces alive
\* exactly as long as they are referred to; m is the matrix it knows.
LEMMA ScoreStep ==
  ASSUME TypeOK, RefCount, MiniAlive,
         NEW q \in Ids, NEW f \in Nat, NEW t \in SUBSET Edges, NEW m,
         m = testcase_matrix,
         UpdateBitmapScore(q, f, t, m)
  PROVE  /\ top_rated' \in [Edges -> {0} \cup Queued \cup {q}]
         /\ tc_ref' \in [Ids -> Int]
         /\ trace_mini' \in [Ids -> {NULL} \cup SUBSET Edges]
         /\ score_changed' \in BOOLEAN
         /\ fav_factor' \in [Ids -> Nat]
         /\ RefCount'
         /\ \A r \in Ids : /\ Slots(r)' # {} => trace_mini'[r] # NULL
                           /\ Slots(r)' = {} /\ r # m => trace_mini'[r] = NULL
<1> DEFINE won == Won(q, f, t)
           lost(r) == won \cap Slots(r)
           refs(r) == Refs(q, won, r)
<1>1. won \subseteq Edges
  BY DEF Won
<1>2. top_rated' = [i \in Edges |-> IF i \in won THEN q ELSE top_rated[i]]
  BY DEF UpdateBitmapScore
<1>3. tc_ref' = [r \in Ids |-> refs(r)]
  BY DEF UpdateBitmapScore
<1>4. trace_mini' = [r \in Ids |->
           IF r = q /\ r = m
           THEN IF trace_mini[q] = NULL THEN t ELSE trace_mini[q]
           ELSE IF r = q THEN IF Retakes(q, won) THEN t ELSE trace_mini[q]
           ELSE IF r # m /\ lost(r) # {} /\ refs(r) = 0 THEN NULL
           ELSE trace_mini[r]]
  BY DEF UpdateBitmapScore, Mini
<1>5. \A r \in Ids : /\ Slots(r) \subseteq Edges /\ IsFiniteSet(Slots(r))
                     /\ Cardinality(Slots(r)) \in Nat
                     /\ IsFiniteSet(won \ Slots(r))
                     /\ Cardinality(won \ Slots(r)) \in Nat
                     /\ IsFiniteSet(lost(r)) /\ Cardinality(lost(r)) \in Nat
  <2> SUFFICES ASSUME NEW r \in Ids
               PROVE  /\ Slots(r) \subseteq Edges /\ IsFiniteSet(Slots(r))
                      /\ Cardinality(Slots(r)) \in Nat
                      /\ IsFiniteSet(won \ Slots(r))
                      /\ Cardinality(won \ Slots(r)) \in Nat
                      /\ IsFiniteSet(lost(r)) /\ Cardinality(lost(r)) \in Nat
    OBVIOUS
  <2>1. Slots(r) \in SUBSET Edges /\ won \ Slots(r) \in SUBSET Edges /\ lost(r) \in SUBSET Edges
    BY <1>1 DEF Slots
  <2> HIDE DEF won, lost
  <2> QED
    BY <2>1, EdgesFinite, FS_Subset, FS_CardinalityType
<1>6. Slots(q)' = Slots(q) \cup (won \ Slots(q))
  BY <1>1, <1>2 DEF Slots
<1>7. \A r \in Ids \ {q} : Slots(r)' = Slots(r) \ won /\ Slots(r) \cap won = lost(r)
  BY <1>1, <1>2 DEF Slots
<1> HIDE DEF won, lost
<1>8. \A r \in Ids : tc_ref'[r] = Cardinality(Slots(r)')
  <2>1. tc_ref'[q] = Cardinality(Slots(q)')
    <3>1. tc_ref'[q] = Cardinality(Slots(q)) + Cardinality(won \ Slots(q))
      BY <1>3 DEF RefCount, Refs
    <3>2. Slots(q) \cap (won \ Slots(q)) = {}
      OBVIOUS
    <3>3. Cardinality(Slots(q) \cup (won \ Slots(q)))
            = Cardinality(Slots(q)) + Cardinality(won \ Slots(q)) - Cardinality({})
      BY <1>5, <3>2, FS_Union
    <3>4. Cardinality(Slots(q)) \in Nat /\ Cardinality(won \ Slots(q)) \in Nat
      BY <1>5
    <3>5. Cardinality({}) = 0
      BY FS_EmptySet
    <3> QED
      BY <1>6, <3>1, <3>3, <3>4, <3>5
  <2>2. ASSUME NEW r \in Ids, r # q
        PROVE  tc_ref'[r] = Cardinality(Slots(r)')
    <3>1. Cardinality(Slots(r) \ won) = Cardinality(Slots(r)) - Cardinality(Slots(r) \cap won)
      BY <1>5, FS_Difference
    <3>2. tc_ref'[r] = tc_ref[r] - Cardinality(lost(r))
      BY <1>3, <2>2 DEF Refs, lost
    <3>3. Slots(r)' = Slots(r) \ won /\ Slots(r) \cap won = lost(r)
      BY <1>7, <2>2
    <3> QED
      BY <3>1, <3>2, <3>3 DEF RefCount
  <2> QED
    BY <2>1, <2>2
<1>9. tc_ref' \in [Ids -> Int]
  <2>1. ASSUME NEW r \in Ids
        PROVE  refs(r) \in Int
    <3>1. tc_ref[r] \in Int /\ tc_ref[q] \in Int
      BY DEF TypeOK
    <3>2. Cardinality(lost(r)) \in Nat /\ Cardinality(won \ Slots(q)) \in Nat
      BY <1>5
    <3> QED
      BY <3>1, <3>2 DEF Refs, lost
  <2> QED
    BY <1>3, <2>1
<1>10. top_rated' \in [Edges -> {0} \cup Queued \cup {q}]
  BY <1>2 DEF TypeOK
<1>11. trace_mini' \in [Ids -> {NULL} \cup SUBSET Edges]
  <2> HIDE DEF refs
  <2>1. ASSUME NEW r \in Ids
        PROVE  trace_mini'[r] \in {NULL, t, trace_mini[r]}
    BY <1>4
  <2>2. \A r \in Ids : trace_mini[r] \in {NULL} \cup SUBSET Edges
    BY DEF TypeOK
  <2>3. \A r \in Ids : trace_mini'[r] \in {NULL} \cup SUBSET Edges
    BY <2>1, <2>2
  <2>4. trace_mini' = [r \in Ids |-> trace_mini'[r]]
    BY <1>4
  <2> QED
    BY <2>3, <2>4
<1>12. score_changed' \in BOOLEAN /\ fav_factor' \in [Ids -> Nat]
  BY DEF UpdateBitmapScore, TypeOK
<1>13. ASSUME NEW r \in Ids
       PROVE  /\ Slots(r)' # {} => trace_mini'[r] # NULL
              /\ Slots(r)' = {} /\ r # m => trace_mini'[r] = NULL
  <2>1. t # NULL
    BY NullAssumption
  <2>2. CASE r = q /\ r = m
    BY <1>4, <2>1, <2>2
  <2>3. CASE r = q /\ r # m
    <3>1. CASE won = {}
      <4>1. trace_mini'[q] = trace_mini[q]
        BY <1>4, <2>3, <3>1 DEF Retakes
      <4>2. Slots(q)' = Slots(q)
        BY <1>6, <3>1
      <4> QED
        BY <2>3, <4>1, <4>2 DEF MiniAlive
    <3>2. CASE won # {}
      <4>1. Slots(q)' # {}
        BY <1>6, <3>2
      <4>2. CASE Retakes(q, won)
        BY <1>4, <2>1, <2>3, <4>1, <4>2
      <4>3. CASE ~Retakes(q, won)
        <5>1. tc_ref[q] # 0
          BY <3>2, <4>3 DEF Retakes
        <5>2. Slots(q) # {}
          BY <5>1, FS_EmptySet DEF RefCount
        <5> QED
          BY <1>4, <2>3, <4>1, <4>3, <5>2 DEF MiniAlive
      <4> QED
        BY <4>2, <4>3
    <3> QED
      BY <3>1, <3>2
  <2>4. CASE r # q
    <3>1. Slots(r)' = Slots(r) \ won /\ Slots(r) \cap won = lost(r)
      BY <1>7, <2>4
    <3>2. refs(r) = Cardinality(Slots(r)')
      BY <1>3, <1>8
    <3>3. refs(r) = 0 <=> Slots(r)' = {}
      <4>1. IsFiniteSet(Slots(r)')
        BY <1>5, <3>1, FS_Difference
      <4> QED
        BY <3>2, <4>1, FS_EmptySet
    <3> HIDE DEF refs
    <3>4. trace_mini'[r] = IF r # m /\ lost(r) # {} /\ refs(r) = 0 THEN NULL ELSE trace_mini[r]
      BY <1>4, <2>4
    <3>5. CASE Slots(r)' # {}
      BY <3>1, <3>3, <3>4, <3>5 DEF MiniAlive
    <3>6. CASE Slots(r)' = {} /\ lost(r) = {}
      BY <3>1, <3>4, <3>6 DEF MiniAlive
    <3>7. CASE Slots(r)' = {} /\ lost(r) # {}
      BY <3>3, <3>4, <3>7
    <3> QED
      BY <3>5, <3>6, <3>7
  <2> QED
    BY <2>2, <2>3, <2>4
<1> QED
  BY <1>8, <1>9, <1>10, <1>11, <1>12, <1>13 DEF RefCount


\* What UpdateBitmapScore leaves to the invariant, for an entry q of the queue
\* that the step may have just added.
ScoreOK ==
  /\ top_rated \in [Edges -> {0} \cup Queued]
  /\ tc_ref \in [Ids -> Int]
  /\ trace_mini \in [Ids -> {NULL} \cup SUBSET Edges]
  /\ score_changed \in BOOLEAN
  /\ fav_factor \in [Ids -> Nat]
  /\ RefCount /\ MiniAlive

\* A call of update_bitmap_score keeps ScoreOK when the queue only grows and
\* the matrix stays, or is born in this step.
LEMMA ScoreCall ==
  ASSUME TypeOK, RefCount, MiniAlive,
         NEW q \in Ids, NEW f \in Nat, NEW t \in SUBSET Edges,
         UpdateBitmapScore(q, f, t, testcase_matrix),
         Queued \cup {q} \subseteq Queued',
         testcase_matrix # 0 => testcase_matrix' = testcase_matrix
  PROVE  ScoreOK'
<1>1. /\ top_rated' \in [Edges -> {0} \cup Queued \cup {q}]
      /\ tc_ref' \in [Ids -> Int]
      /\ trace_mini' \in [Ids -> {NULL} \cup SUBSET Edges]
      /\ score_changed' \in BOOLEAN
      /\ fav_factor' \in [Ids -> Nat]
      /\ RefCount'
      /\ \A r \in Ids : /\ Slots(r)' # {} => trace_mini'[r] # NULL
                        /\ Slots(r)' = {} /\ r # testcase_matrix => trace_mini'[r] = NULL
  BY ScoreStep
<1>2. top_rated' \in [Edges -> {0} \cup Queued']
  BY <1>1
<1>3. \A r \in Ids : r # testcase_matrix' => r # testcase_matrix
  <2>1. 0 \notin Ids
    BY DEF Ids
  <2> QED
    BY <2>1
<1>4. MiniAlive'
  BY <1>1, <1>3 DEF MiniAlive
<1> QED
  BY <1>1, <1>2, <1>4 DEF ScoreOK

\* A step that leaves the scores alone keeps ScoreOK.
LEMMA ScoreFrame ==
  ASSUME TypeOK, RefCount, MiniAlive,
         UNCHANGED scoreVars,
         fav_factor' = fav_factor \/ fav_factor' \in [Ids -> Nat],
         Queued \subseteq Queued',
         testcase_matrix # 0 => testcase_matrix' = testcase_matrix
  PROVE  ScoreOK'
<1>1. /\ top_rated' = top_rated /\ tc_ref' = tc_ref /\ trace_mini' = trace_mini
      /\ score_changed' = score_changed /\ fav_factor' \in [Ids -> Nat]
  BY DEF scoreVars, TypeOK
<1>2. top_rated' \in [Edges -> {0} \cup Queued']
  BY <1>1 DEF TypeOK
<1>3. \A r \in Ids : Slots(r)' = Slots(r)
  BY <1>1 DEF Slots
<1>4. RefCount'
  BY <1>1, <1>3 DEF RefCount
<1>5. \A r \in Ids : r # testcase_matrix' => r # testcase_matrix
  <2>1. 0 \notin Ids
    BY DEF Ids
  <2> QED
    BY <2>1
<1>6. MiniAlive'
  BY <1>1, <1>3, <1>5 DEF MiniAlive
<1> QED
  BY <1>1, <1>2, <1>4, <1>6 DEF ScoreOK, TypeOK

\* At first the seeds are queued and no slot has a winner.
LEMMA InitInv == Init => IInv
<1> SUFFICES ASSUME Init PROVE IInv
  OBVIOUS
<1>1. TypeOK
  <2>1. /\ queued_items \in Seeds..MaxEntries
        /\ active_items \in Int /\ pending_not_fuzzed \in Int
        /\ queued_favored \in Nat /\ pending_favored \in Int /\ idx \in Nat
    BY SizeAssumption DEF Init
  <2>2. fuzz_level \in [Ids -> Nat] /\ fav_factor \in [Ids -> Nat] /\ tc_ref \in [Ids -> Int]
    BY DEF Init
  <2>3. top_rated \in [Edges -> {0} \cup Queued]
    BY DEF Init
  <2>4. trace_mini \in [Ids -> {NULL} \cup SUBSET Edges]
    BY DEF Init
  <2> QED
    BY <2>1, <2>2, <2>3, <2>4 DEF Init, TypeOK
<1>2. \A q \in Ids : Slots(q) = {}
  BY DEF Init, Slots, Ids
<1>3. RefCount
  BY <1>2, FS_EmptySet DEF Init, RefCount
<1>4. MiniAlive
  BY <1>2 DEF Init, MiniAlive
<1>5. Control
  BY SizeAssumption DEF Init, Control
<1> QED
  BY <1>1, <1>3, <1>4, <1>5 DEF IInv

\* The calibration of a seed in the dry run.
LEMMA SeedCalibratedOK ==
  ASSUME TypeOK, RefCount, MiniAlive, NEW q \in Queued,
         SeedCalibrated(q, testcase_matrix),
         UNCHANGED queued_items,
         testcase_matrix # 0 => testcase_matrix' = testcase_matrix
  PROVE  ScoreOK' /\ cal_failed' \subseteq Queued
<1>1. Queued' = Queued /\ q \in Ids /\ cal_failed \subseteq Queued
  BY QueuedIds DEF Queued, TypeOK
<1>2. CASE \E t \in SUBSET Edges \ {{}}, f \in Factors :
             UpdateBitmapScore(q, f, t, testcase_matrix) /\ cal_failed' = cal_failed \ {q}
  <2>1. PICK t \in SUBSET Edges \ {{}}, f \in Factors :
          UpdateBitmapScore(q, f, t, testcase_matrix) /\ cal_failed' = cal_failed \ {q}
    BY <1>2
  <2>2. f \in Nat /\ t \in SUBSET Edges
    BY SizeAssumption
  <2>3. ScoreOK'
    BY <1>1, <2>1, <2>2, ScoreCall
  <2> QED
    BY <1>1, <2>1, <2>3
<1>3. CASE cal_failed' = cal_failed \cup {q} /\ UNCHANGED <<scoreVars, fav_factor>>
  BY <1>1, <1>3, ScoreFrame
<1> QED
  BY <1>2, <1>3 DEF SeedCalibrated

\* Disabling entries of the queue keeps the types of its counters.
LEMMA DisableOK ==
  ASSUME TypeOK, NEW D \in SUBSET Queued, Disable(D)
  PROVE  /\ disabled' \subseteq Queued /\ was_fuzzed' \subseteq Queued
         /\ pending_not_fuzzed' \in Int /\ active_items' \in Int
<1>1. Cardinality(D \ was_fuzzed) \in Nat
  <2>1. IsFiniteSet(Queued)
    BY FS_Interval, SizeAssumption DEF Queued, TypeOK
  <2>2. D \ was_fuzzed \subseteq Queued
    OBVIOUS
  <2> QED
    BY <2>1, <2>2, FS_Subset, FS_CardinalityType
<1>2. disabled' \subseteq Queued /\ was_fuzzed' \subseteq Queued
  BY DEF Disable, TypeOK
<1> QED
  BY <1>1, <1>2 DEF Disable, TypeOK


\* The rest of the type invariant, which no action shares with the scores.
QueueOK ==
  /\ queued_items \in Seeds..MaxEntries
  /\ active_items \in Int /\ pending_not_fuzzed \in Int
  /\ was_fuzzed \subseteq Queued /\ disabled \subseteq Queued /\ cal_failed \subseteq Queued
  /\ fuzz_level \in [Ids -> Nat]

CursorOK ==
  /\ queued_favored \in Nat /\ pending_favored \in Int
  /\ favored \subseteq Queued
  /\ testcase_matrix \in {0} \cup Queued
  /\ queue_cur \in {0} \cup Queued
  /\ idx \in Nat
  /\ pc \in {"dry", "cull", "segv", "fatal", "pick", "rescore", "one", "trim", "stages", "abandon"}
  /\ Control

\* The invariant in three parts, each shown by itself.
LEMMA Parts == IInv <=> ScoreOK /\ QueueOK /\ CursorOK
BY DEF IInv, TypeOK, ScoreOK, QueueOK, CursorOK

\* Every action keeps the inductive invariant.
LEMMA NextInv == IInv /\ [Next]_vars => IInv'
<1> SUFFICES ASSUME IInv, [Next]_vars PROVE ScoreOK' /\ QueueOK' /\ CursorOK'
  BY Parts DEF IInv, TypeOK, ScoreOK, QueueOK, CursorOK
<1> USE DEF Queued
<1>0. TypeOK /\ RefCount /\ MiniAlive /\ Control /\ ScoreOK /\ QueueOK /\ CursorOK
  BY Parts DEF IInv
<1>a. MatrixBirth => ScoreOK' /\ QueueOK' /\ CursorOK'
  <2> SUFFICES ASSUME MatrixBirth PROVE ScoreOK' /\ QueueOK' /\ CursorOK'
    OBVIOUS
  <2>1. idx = 1 /\ idx \in Queued /\ testcase_matrix = 0
    BY <1>0, SizeAssumption DEF MatrixBirth, Control, QueueOK
  <2>2. ScoreOK' /\ cal_failed' \subseteq Queued
    BY <1>0, <2>1, SeedCalibratedOK DEF MatrixBirth, countVars
  <2>3. QueueOK'
    BY <1>0, <2>2 DEF MatrixBirth, QueueOK, countVars
  <2>4. CursorOK'
    BY <1>0, <2>1, SizeAssumption DEF MatrixBirth, CursorOK, Control, countVars, favVars
  <2> QED
    BY <2>2, <2>3, <2>4
<1>b. DryRunSeed => ScoreOK' /\ QueueOK' /\ CursorOK'
  <2> SUFFICES ASSUME DryRunSeed PROVE ScoreOK' /\ QueueOK' /\ CursorOK'
    OBVIOUS
  <2>1. idx \in Queued /\ testcase_matrix # 0 /\ idx <= Seeds
    BY <1>0, SizeAssumption DEF DryRunSeed, Control, QueueOK
  <2>2. ScoreOK' /\ cal_failed' \subseteq Queued
    BY <1>0, <2>1, SeedCalibratedOK DEF DryRunSeed
  <2>3. /\ disabled' \subseteq Queued /\ was_fuzzed' \subseteq Queued
        /\ pending_not_fuzzed' \in Int /\ active_items' \in Int
    <3>1. CASE UNCHANGED <<disabled, was_fuzzed, pending_not_fuzzed, active_items>>
      BY <1>0, <3>1 DEF QueueOK
    <3>2. CASE Disable({idx})
      <4>1. {idx} \in SUBSET Queued
        BY <2>1
      <4> QED
        BY <1>0, <3>2, <4>1, DisableOK
    <3> QED
      BY <3>1, <3>2 DEF DryRunSeed
  <2>4. QueueOK'
    BY <1>0, <2>2, <2>3 DEF DryRunSeed, QueueOK
  <2>5. CursorOK'
    BY <1>0, <2>1, SizeAssumption DEF DryRunSeed, CursorOK, Control, favVars
  <2> QED
    BY <2>2, <2>4, <2>5
<1>c. DryRunEnd => ScoreOK' /\ QueueOK' /\ CursorOK'
  <2> SUFFICES ASSUME DryRunEnd PROVE ScoreOK' /\ QueueOK' /\ CursorOK'
    OBVIOUS
  <2>1. PICK D \in SUBSET (1..Seeds \ (disabled \cup cal_failed)) : Disable(D)
    BY DEF DryRunEnd
  <2>2. D \in SUBSET Queued
    BY <1>0, SizeAssumption DEF QueueOK
  <2>3. /\ disabled' \subseteq Queued /\ was_fuzzed' \subseteq Queued
        /\ pending_not_fuzzed' \in Int /\ active_items' \in Int
    BY <1>0, <2>1, <2>2, DisableOK
  <2>4. ScoreOK'
    BY <1>0, ScoreFrame DEF DryRunEnd
  <2>5. QueueOK'
    BY <1>0, <2>3 DEF DryRunEnd, QueueOK
  <2>6. CursorOK'
    BY <1>0 DEF DryRunEnd, CursorOK, Control, favVars
  <2> QED
    BY <2>4, <2>5, <2>6
<1>d. CullQueue => ScoreOK' /\ QueueOK' /\ CursorOK'
  <2> SUFFICES ASSUME CullQueue PROVE ScoreOK' /\ QueueOK' /\ CursorOK'
    OBVIOUS
  <2>1. ScoreOK'
    <3>1. \A r \in Ids : Slots(r)' = Slots(r)
      BY DEF CullQueue, Slots
    <3>2. RefCount' /\ MiniAlive'
      BY <1>0, <3>1 DEF CullQueue, RefCount, MiniAlive
    <3>3. score_changed' \in BOOLEAN
      BY <1>0 DEF CullQueue, ScoreOK
    <3> QED
      BY <1>0, <3>2, <3>3 DEF CullQueue, ScoreOK, countVars
  <2>2. QueueOK'
    BY <1>0 DEF CullQueue, QueueOK, countVars
  <2>3. favored' \subseteq Queued /\ queued_favored' \in Nat /\ pending_favored' \in Int
    <3>1. CASE UNCHANGED favVars
      BY <1>0, <3>1 DEF CursorOK, favVars
    <3>2. CASE /\ favored' = {q \in Queued : \E i \in Picked[MapSize] : top_rated[i] = q}
               /\ queued_favored' = Cardinality(favored')
               /\ pending_favored' = Cardinality(favored' \ was_fuzzed)
      <4>1. IsFiniteSet(Queued)
        BY <1>0, FS_Interval, SizeAssumption DEF QueueOK
      <4>2. favored' \subseteq Queued /\ favored' \ was_fuzzed \subseteq Queued
        BY <3>2
      <4>3. Cardinality(favored') \in Nat /\ Cardinality(favored' \ was_fuzzed) \in Nat
        BY <4>1, <4>2, FS_Subset, FS_CardinalityType
      <4> QED
        BY <3>2, <4>2, <4>3
    <3> QED
      BY <3>1, <3>2 DEF CullQueue
  <2>4. CursorOK'
    BY <1>0, <2>3 DEF CullQueue, CursorOK, Control, countVars
  <2> QED
    BY <2>1, <2>2, <2>4
<1>e. CullSegv \/ StartRescore \/ SkipEntry \/ (\E q \in Ids : SelectEntry(q))
        => ScoreOK' /\ QueueOK' /\ CursorOK'
  <2> SUFFICES ASSUME CullSegv \/ StartRescore \/ SkipEntry \/ (\E q \in Ids : SelectEntry(q))
               PROVE  ScoreOK' /\ QueueOK' /\ CursorOK'
    OBVIOUS
  <2>1. UNCHANGED <<scoreVars, favVars, countVars, cal_failed, fuzz_level, testcase_matrix>>
    BY DEF CullSegv, StartRescore, SkipEntry, SelectEntry
  <2>2. ScoreOK'
    <3>1. fav_factor' = fav_factor \/ fav_factor' \in [Ids -> Nat]
      <4>1. CASE StartRescore
        BY <1>0, <4>1, SizeAssumption DEF StartRescore, ScoreOK
      <4> QED
        BY <4>1 DEF CullSegv, SkipEntry, SelectEntry
    <3> QED
      BY <1>0, <2>1, <3>1, ScoreFrame DEF countVars
  <2>3. QueueOK'
    BY <1>0, <2>1 DEF QueueOK, countVars
  <2>4. /\ queue_cur' \in {0} \cup Queued /\ idx' \in Nat
        /\ pc' \in {"segv", "rescore", "cull", "one"}
        /\ pc' = "one" => queue_cur' # 0
    BY <1>0 DEF CullSegv, StartRescore, SkipEntry, SelectEntry, CursorOK, Ids
  <2>5. CursorOK'
    BY <1>0, <2>1, <2>4 DEF CursorOK, Control, countVars, favVars
  <2> QED
    BY <2>2, <2>3, <2>5
<1>f. Rescore => ScoreOK' /\ QueueOK' /\ CursorOK'
  <2> SUFFICES ASSUME Rescore PROVE ScoreOK' /\ QueueOK' /\ CursorOK'
    OBVIOUS
  <2>1. ScoreOK'
    <3>1. CASE UNCHANGED <<scoreVars, fav_factor>>
      BY <1>0, <3>1, ScoreFrame DEF Rescore, countVars
    <3>2. CASE idx \in Queued \ disabled /\ \E t \in SUBSET Edges :
                 UpdateBitmapScore(idx, fav_factor[idx], t, testcase_matrix)
      <4>1. PICK t \in SUBSET Edges :
              UpdateBitmapScore(idx, fav_factor[idx], t, testcase_matrix)
        BY <3>2
      <4>2. idx \in Ids /\ fav_factor[idx] \in Nat
        BY <1>0, <3>2, QueuedIds DEF ScoreOK
      <4>3. Queued \cup {idx} \subseteq Queued' /\ testcase_matrix' = testcase_matrix
        BY <3>2 DEF Rescore, countVars
      <4> QED
        BY <1>0, <4>1, <4>2, <4>3, ScoreCall
    <3> QED
      BY <3>1, <3>2 DEF Rescore
  <2>2. QueueOK'
    BY <1>0 DEF Rescore, QueueOK, countVars
  <2>3. idx' \in Nat /\ pc' \in {"rescore", "pick"} /\ pc = "rescore"
    BY <1>0 DEF Rescore, CursorOK
  <2>4. CursorOK'
    BY <1>0, <2>3 DEF Rescore, CursorOK, Control, countVars, favVars
  <2> QED
    BY <2>1, <2>2, <2>4
<1>g. Calibrate \/ Trim => ScoreOK' /\ QueueOK' /\ CursorOK'
  <2> SUFFICES ASSUME Calibrate \/ Trim PROVE ScoreOK' /\ QueueOK' /\ CursorOK'
    OBVIOUS
  <2>1. queue_cur \in Queued /\ queue_cur \in Ids
    <3>1. queue_cur \in Queued
      BY <1>0 DEF CursorOK, Control, Calibrate, Trim
    <3> QED
      BY <1>0, <3>1, QueuedIds
  <2>2. UNCHANGED <<favVars, countVars, fuzz_level, testcase_matrix, queue_cur, idx>>
    BY DEF Calibrate, Trim
  <2>3. ScoreOK'
    <3>1. CASE UNCHANGED <<scoreVars, fav_factor>>
      BY <1>0, <2>2, <3>1, ScoreFrame DEF countVars
    <3>2. CASE \E t \in SUBSET Edges, f \in Factors :
                 UpdateBitmapScore(queue_cur, f, t, testcase_matrix)
      <4>1. PICK t \in SUBSET Edges, f \in Factors :
              UpdateBitmapScore(queue_cur, f, t, testcase_matrix)
        BY <3>2
      <4>2. f \in Nat
        BY SizeAssumption
      <4>3. Queued \cup {queue_cur} \subseteq Queued' /\ testcase_matrix' = testcase_matrix
        BY <2>1, <2>2 DEF countVars
      <4> QED
        BY <1>0, <2>1, <4>1, <4>2, <4>3, ScoreCall
    <3> QED
      BY <3>1, <3>2 DEF Calibrate, Trim
  <2>4. cal_failed' \subseteq Queued
    BY <1>0 DEF Calibrate, Trim, QueueOK
  <2>5. QueueOK'
    BY <1>0, <2>2, <2>4 DEF QueueOK, countVars
  <2>6. pc' \in {"trim", "abandon", "stages"}
    BY DEF Calibrate, Trim
  <2>7. CursorOK'
    BY <1>0, <2>1, <2>2, <2>6, SizeAssumption DEF CursorOK, Control, countVars, favVars, QueueOK
  <2> QED
    BY <2>3, <2>5, <2>7
<1>h. AddToQueue => ScoreOK' /\ QueueOK' /\ CursorOK'
  <2> SUFFICES ASSUME AddToQueue PROVE ScoreOK' /\ QueueOK' /\ CursorOK'
    OBVIOUS
  <2> DEFINE q == queued_items + 1
  <2>1. /\ q \in Ids /\ queued_items' = q /\ Queued' = Queued \cup {q}
        /\ Queued \cup {q} \subseteq Queued' /\ testcase_matrix' = testcase_matrix
        /\ queued_items' \in Seeds..MaxEntries
    BY <1>0, SizeAssumption DEF AddToQueue, Enqueue, QueueOK, Ids
  <2>2. ScoreOK'
    <3>1. CASE UNCHANGED <<scoreVars, fav_factor>>
      BY <1>0, <2>1, <3>1, ScoreFrame
    <3>2. CASE \E t \in SUBSET Edges, f \in Factors :
                 UpdateBitmapScore(q, f, t, testcase_matrix)
      <4>1. PICK t \in SUBSET Edges, f \in Factors :
              UpdateBitmapScore(q, f, t, testcase_matrix)
        BY <3>2
      <4>2. f \in Nat
        BY SizeAssumption
      <4> QED
        BY <1>0, <2>1, <4>1, <4>2, ScoreCall
    <3> QED
      BY <3>1, <3>2 DEF AddToQueue, Enqueue
  <2>3. cal_failed' \subseteq Queued'
    BY <1>0, <2>1 DEF AddToQueue, Enqueue, QueueOK
  <2>4. QueueOK'
    BY <1>0, <2>1, <2>3 DEF AddToQueue, Enqueue, QueueOK
  <2>5. CursorOK'
    BY <1>0, <2>1 DEF AddToQueue, Enqueue, CursorOK, Control, favVars
  <2> QED
    BY <2>2, <2>4, <2>5
<1>i. AbandonEntry => ScoreOK' /\ QueueOK' /\ CursorOK'
  <2> SUFFICES ASSUME AbandonEntry PROVE ScoreOK' /\ QueueOK' /\ CursorOK'
    OBVIOUS
  <2>1. queue_cur \in Queued
    BY <1>0 DEF AbandonEntry, CursorOK, Control
  <2>2. ScoreOK'
    BY <1>0, ScoreFrame DEF AbandonEntry
  <2>3. was_fuzzed' \subseteq Queued /\ pending_not_fuzzed' \in Int /\ pending_favored' \in Int
    <3>1. was_fuzzed' \in {was_fuzzed, was_fuzzed \cup {queue_cur}}
      BY DEF AbandonEntry
    <3>2. pending_not_fuzzed' \in {pending_not_fuzzed, pending_not_fuzzed - 1}
      BY DEF AbandonEntry
    <3>3. pending_favored' \in {pending_favored, pending_favored - 1}
      BY DEF AbandonEntry
    <3> QED
      BY <1>0, <2>1, <3>1, <3>2, <3>3 DEF QueueOK, CursorOK
  <2>4. fuzz_level' \in [Ids -> Nat]
    <3>1. fuzz_level' = [fuzz_level EXCEPT ![queue_cur] = @ + 1]
      BY DEF AbandonEntry
    <3>2. queue_cur \in Ids
      BY <1>0, <2>1, QueuedIds
    <3> QED
      BY <1>0, <3>1, <3>2 DEF QueueOK
  <2>5. QueueOK'
    BY <1>0, <2>3, <2>4 DEF AbandonEntry, QueueOK
  <2>6. CursorOK'
    BY <1>0, <2>3 DEF AbandonEntry, CursorOK, Control
  <2> QED
    BY <2>2, <2>5, <2>6
<1>j. UNCHANGED vars => ScoreOK' /\ QueueOK' /\ CursorOK'
  <2> SUFFICES ASSUME UNCHANGED vars PROVE ScoreOK' /\ QueueOK' /\ CursorOK'
    OBVIOUS
  <2>1. ScoreOK'
    BY <1>0, ScoreFrame DEF vars, countVars
  <2>2. QueueOK'
    BY <1>0 DEF vars, QueueOK, countVars
  <2>3. CursorOK'
    BY <1>0 DEF vars, CursorOK, Control, countVars, favVars
  <2> QED
    BY <2>1, <2>2, <2>3
<1> QED
  BY <1>a, <1>b, <1>c, <1>d, <1>e, <1>f, <1>g, <1>h, <1>i, <1>j DEF Next

\* The types of the queue's state hold in every reachable state, whatever
\* the dry run, cull_queue, fuzz_one and syncing do.
THEOREM QueueTypes == Spec => []TypeOK
<1>1. IInv => TypeOK
  BY DEF IInv
<1> QED
  BY <1>1, InitInv, NextInv, PTL DEF Spec

\* The u32 tc_ref that update_bitmap_score counts up and down is the number
\* of top_rated slots of the entry, for any map and any queue: it never
\* underflows and is 0 exactly when the last slot is gone.
THEOREM RefCountExact == Spec => []RefCount
<1>1. IInv => RefCount
  BY DEF IInv
<1> QED
  BY <1>1, InitInv, NextInv, PTL DEF Spec

\* update_bitmap_score never frees the trace_mini of an entry that is still
\* top rated, and leaks none of an entry that is not.
THEOREM TracesAlive == Spec => []MiniAlive
<1>1. IInv => MiniAlive
  BY DEF IInv
<1> QED
  BY <1>1, InitInv, NextInv, PTL DEF Spec

\* What CountersAgree needs to be inductive: the dry run disables and marks
\* as fuzzed the same entries (Disable counts both off by those not marked
\* yet), and nothing is favoured before the first culling.
DryCounts == pc = "dry" => was_fuzzed = disabled /\ favored = {}

Counts == CountersAgree /\ DryCounts

\* The queue is finite.
LEMMA QueuedFinite == TypeOK => IsFiniteSet(Queued)
BY FS_Interval, SizeAssumption DEF Queued, TypeOK

\* Disabling entries in the dry run counts each of them off exactly once.
LEMMA DisableCounts ==
  ASSUME IInv, Counts, pc = "dry", NEW D \in SUBSET Queued, Disable(D),
         UNCHANGED <<favVars, queued_items>>
  PROVE  CountersAgree' /\ was_fuzzed' = disabled'
<1> DEFINE open == Queued \ was_fuzzed
           off == D \ was_fuzzed
<1>1. /\ was_fuzzed = disabled /\ favored = {} /\ TypeOK
      /\ pending_not_fuzzed = Cardinality(open) /\ active_items = Cardinality(open)
  BY DEF IInv, Counts, DryCounts, CountersAgree
<1>2. IsFiniteSet(open)
  <2>1. open \subseteq Queued
    OBVIOUS
  <2> QED
    BY <1>1, <2>1, QueuedFinite, FS_Subset
<1>3. open \cap off = off
  OBVIOUS
<1>4. Cardinality(open \ off) = Cardinality(open) - Cardinality(open \cap off)
  <2> HIDE DEF open, off
  <2> QED
    BY <1>2, FS_Difference
<1>5. Cardinality(open \ off) = Cardinality(open) - Cardinality(off)
  BY <1>3, <1>4
<1>6. /\ was_fuzzed' = was_fuzzed \cup D /\ disabled' = was_fuzzed \cup D /\ Queued' = Queued
      /\ pending_not_fuzzed' = pending_not_fuzzed - Cardinality(off)
      /\ active_items' = active_items - Cardinality(off)
  BY <1>1 DEF Disable, Queued
<1>7. (Queued \ was_fuzzed)' = open \ off /\ (Queued \ disabled)' = open \ off
  BY <1>6
<1>8. (favored \ was_fuzzed)' = favored \ was_fuzzed
  BY <1>1 DEF favVars
<1>9. pending_not_fuzzed' = Cardinality(open \ off) /\ active_items' = Cardinality(open \ off)
  BY <1>1, <1>5, <1>6
<1>10. queued_favored' = Cardinality(favored') /\ pending_favored' = Cardinality(favored \ was_fuzzed)
  BY DEF Counts, CountersAgree, favVars
<1> QED
  BY <1>6, <1>7, <1>8, <1>9, <1>10 DEF CountersAgree

\* Every action keeps the counters and the flags in step.
LEMMA CountsStep == IInv /\ Counts /\ [Next]_vars => Counts'
<1> SUFFICES ASSUME IInv, Counts, [Next]_vars PROVE Counts'
  OBVIOUS
<1>0. TypeOK /\ Control /\ CountersAgree /\ DryCounts
  BY DEF IInv, Counts
<1>a. ASSUME UNCHANGED <<favVars, countVars>>, pc' = "dry" => pc = "dry"
      PROVE  Counts'
  BY <1>0, <1>a DEF favVars, countVars, Counts, CountersAgree, DryCounts, Queued
<1>b. CASE DryRunSeed
  <2>1. pc = "dry" /\ pc' = "dry" /\ UNCHANGED <<favVars, queued_items>>
    BY <1>b DEF DryRunSeed
  <2>2. CASE UNCHANGED <<disabled, was_fuzzed, pending_not_fuzzed, active_items>>
    BY <1>a, <2>1, <2>2 DEF countVars
  <2>3. CASE Disable({idx})
    <3>1. {idx} \in SUBSET Queued
      BY <1>0, <1>b, SizeAssumption DEF DryRunSeed, Control, TypeOK, Queued
    <3>2. CountersAgree' /\ was_fuzzed' = disabled'
      BY <2>1, <2>3, <3>1, DisableCounts
    <3> QED
      BY <1>0, <2>1, <3>2 DEF Counts, DryCounts, favVars
  <2> QED
    BY <1>b, <2>2, <2>3 DEF DryRunSeed
<1>c. CASE DryRunEnd
  <2>1. PICK D \in SUBSET (1..Seeds \ (disabled \cup cal_failed)) : Disable(D)
    BY <1>c DEF DryRunEnd
  <2>2. D \in SUBSET Queued
    BY <1>0, SizeAssumption DEF TypeOK, Queued
  <2>3. pc = "dry" /\ pc' = "cull" /\ UNCHANGED <<favVars, queued_items>>
    BY <1>c DEF DryRunEnd
  <2>4. CountersAgree'
    BY <2>1, <2>2, <2>3, DisableCounts
  <2> QED
    BY <2>3, <2>4 DEF Counts, DryCounts
<1>d. CASE CullQueue
  <2>1. pc' # "dry" /\ UNCHANGED countVars
    BY <1>d DEF CullQueue
  <2>2. CASE UNCHANGED favVars
    BY <1>a, <2>1, <2>2
  <2>3. CASE /\ queued_favored' = Cardinality(favored')
             /\ pending_favored' = Cardinality(favored' \ was_fuzzed)
    BY <1>0, <2>1, <2>3 DEF countVars, Counts, CountersAgree, DryCounts, Queued
  <2> QED
    BY <1>d, <2>2, <2>3 DEF CullQueue
<1>e. CASE AddToQueue
  <2> DEFINE q == queued_items + 1
  <2>1. /\ q \notin Queued /\ q \notin was_fuzzed /\ q \notin disabled
        /\ Queued' = Queued \cup {q}
        /\ pending_not_fuzzed' = pending_not_fuzzed + 1 /\ active_items' = active_items + 1
        /\ UNCHANGED <<favVars, was_fuzzed, disabled>> /\ pc' # "dry"
    BY <1>0, <1>e, SizeAssumption DEF AddToQueue, Enqueue, TypeOK, Queued
  <2>2. /\ (Queued \ was_fuzzed)' = (Queued \ was_fuzzed) \cup {q}
        /\ (Queued \ disabled)' = (Queued \ disabled) \cup {q}
    BY <2>1
  <2>3. ASSUME NEW S, S \subseteq Queued
        PROVE  Cardinality(S \cup {q}) = Cardinality(S) + 1
    <3>1. IsFiniteSet(S) /\ q \notin S
      BY <1>0, <2>1, <2>3, QueuedFinite, FS_Subset
    <3> QED
      BY <3>1, FS_AddElement
  <2>4. /\ Cardinality((Queued \ was_fuzzed) \cup {q}) = Cardinality(Queued \ was_fuzzed) + 1
        /\ Cardinality((Queued \ disabled) \cup {q}) = Cardinality(Queued \ disabled) + 1
    BY <2>3
  <2> HIDE DEF q
  <2> QED
    BY <1>0, <2>1, <2>2, <2>4 DEF Counts, CountersAgree, DryCounts, favVars
<1>f. CASE AbandonEntry
  <2> DEFINE q == queue_cur
             first == q \notin cal_failed \cup was_fuzzed \cup disabled
  <2>1. /\ q \in Queued /\ pc' # "dry"
        /\ UNCHANGED <<favored, queued_favored, queued_items, active_items, disabled>>
    BY <1>0, <1>f DEF AbandonEntry, TypeOK, Control
  <2>2. Queued' = Queued
    BY <2>1 DEF Queued
  <2>3. CASE ~first
    <3>1. UNCHANGED <<was_fuzzed, pending_not_fuzzed, pending_favored>>
      BY <1>f, <2>3 DEF AbandonEntry
    <3> QED
      BY <1>0, <2>1, <2>2, <3>1 DEF Counts, CountersAgree, DryCounts
  <2>4. CASE first
    <3>1. /\ q \notin was_fuzzed /\ was_fuzzed' = was_fuzzed \cup {q}
          /\ pending_not_fuzzed' = pending_not_fuzzed - 1
          /\ pending_favored' = IF q \in favored THEN pending_favored - 1 ELSE pending_favored
      BY <1>f, <2>4 DEF AbandonEntry
    <3>2. /\ (Queued \ was_fuzzed)' = (Queued \ was_fuzzed) \ {q}
          /\ (favored \ was_fuzzed)' = (favored \ was_fuzzed) \ {q}
          /\ (Queued \ disabled)' = Queued \ disabled
      BY <2>1, <2>2, <3>1
    <3>3. ASSUME NEW S, S \subseteq Queued, q \in S
          PROVE  Cardinality(S \ {q}) = Cardinality(S) - 1
      <4>1. IsFiniteSet(S)
        BY <1>0, <3>3, QueuedFinite, FS_Subset
      <4> HIDE DEF q
      <4> QED
        BY <3>3, <4>1, FS_RemoveElement
    <3>4. Cardinality((Queued \ was_fuzzed) \ {q}) = Cardinality(Queued \ was_fuzzed) - 1
      BY <2>1, <3>1, <3>3
    <3>5. Cardinality((favored \ was_fuzzed) \ {q})
            = IF q \in favored THEN Cardinality(favored \ was_fuzzed) - 1
                               ELSE Cardinality(favored \ was_fuzzed)
      <4>1. CASE q \in favored
        <5>1. favored \ was_fuzzed \subseteq Queued /\ q \in favored \ was_fuzzed
          BY <1>0, <3>1, <4>1 DEF TypeOK
        <5> QED
          BY <3>3, <4>1, <5>1
      <4>2. CASE q \notin favored
        <5>1. (favored \ was_fuzzed) \ {q} = favored \ was_fuzzed
          BY <4>2
        <5> QED
          BY <4>2, <5>1
      <4> QED
        BY <4>1, <4>2
    <3> HIDE DEF q
    <3> QED
      BY <1>0, <2>1, <3>1, <3>2, <3>4, <3>5 DEF Counts, CountersAgree, DryCounts
  <2> QED
    BY <2>3, <2>4
<1>g. CASE \/ MatrixBirth \/ CullSegv \/ StartRescore \/ Rescore \/ SkipEntry
           \/ (\E q \in Ids : SelectEntry(q)) \/ Calibrate \/ Trim
  <2>1. UNCHANGED <<favVars, countVars>> /\ (pc' = "dry" => pc = "dry")
    BY <1>g DEF MatrixBirth, CullSegv, StartRescore, Rescore, SkipEntry, SelectEntry,
                Calibrate, Trim
  <2> QED
    BY <1>a, <2>1
<1>h. CASE UNCHANGED vars
  BY <1>a, <1>h DEF vars
<1> QED
  BY <1>b, <1>c, <1>d, <1>e, <1>f, <1>g, <1>h DEF Next

\* The counters by which fuzz_one skips entries, main ends and "exit when
\* done" decides agree with the flags of the entries for any number of seeds
\* and entries: disabling in the dry run, abandon_entry and add_to_queue
\* count every entry exactly once.
THEOREM CountsAgree == Spec => []CountersAgree
<1>1. Init => IInv /\ Counts
  <2> SUFFICES ASSUME Init PROVE Counts
    BY InitInv
  <2>1. Cardinality(Queued) = Seeds
    BY SizeAssumption, FS_Interval DEF Init, Queued
  <2>2. Queued \ was_fuzzed = Queued /\ Queued \ disabled = Queued
    BY DEF Init
  <2>3. favored \ was_fuzzed = {} /\ favored = {}
    BY DEF Init
  <2> QED
    BY <2>1, <2>2, <2>3, FS_EmptySet DEF Init, Counts, CountersAgree, DryCounts
<1>2. (IInv /\ Counts) /\ [Next]_vars => (IInv /\ Counts)'
  BY NextInv, CountsStep
<1>3. IInv /\ Counts => CountersAgree
  BY DEF Counts
<1> QED
  BY <1>1, <1>2, <1>3, PTL DEF Spec

----------------------------------------------------------------------------
(* What cull_queue picks                                                   *)

\* One turn of the loop over the map, when p has been picked so far.
PickStep(p, i) ==
  IF top_rated[i] # 0 /\ \A j \in p : i \notin Missing(top_rated[j]) THEN p \cup {i} ELSE p

\* The loop can be run up to any edge.
LEMMA PicksExist ==
  ASSUME NEW n \in 0..MapSize
  PROVE  \E g : g = [i \in 0..n |-> IF i = 0 THEN {} ELSE PickStep(g[i - 1], i)]
<1> DEFINE Run(k) == \E g : g = [i \in 0..k |-> IF i = 0 THEN {} ELSE PickStep(g[i - 1], i)]
           Bad == {k \in 0..MapSize : ~Run(k)}
<1> SUFFICES ASSUME Bad # {} PROVE FALSE
  OBVIOUS
<1>1. PICK k \in Bad : \A m \in Bad : k <= m
  <2>1. Bad \in SUBSET Nat
    BY SizeAssumption
  <2> HIDE DEF Bad
  <2> QED
    BY <2>1, LeastNat
<1>2. k \in 0..MapSize /\ ~Run(k) /\ MapSize \in Nat
  BY <1>1, SizeAssumption
<1>3. k # 0
  <2>1. ASSUME k = 0 PROVE Run(k)
    <3> DEFINE g == [i \in 0..k |-> {}]
    <3>1. g = [i \in 0..k |-> IF i = 0 THEN {} ELSE PickStep(g[i - 1], i)]
      BY <2>1
    <3> QED
      BY <3>1
  <2> QED
    BY <1>2, <2>1
<1>4. Run(k - 1)
  <2>1. k - 1 \in 0..MapSize /\ ~(k <= k - 1)
    BY <1>2, <1>3
  <2> QED
    BY <1>1, <2>1
<1>5. PICK h : h = [i \in 0..(k - 1) |-> IF i = 0 THEN {} ELSE PickStep(h[i - 1], i)]
  BY <1>4
<1> DEFINE g == [i \in 0..k |-> IF i = k THEN PickStep(h[k - 1], k) ELSE h[i]]
<1>6. ASSUME NEW i \in 0..k
      PROVE  g[i] = IF i = 0 THEN {} ELSE PickStep(g[i - 1], i)
  <2>1. CASE i = k
    <3>1. g[i] = PickStep(h[k - 1], k) /\ g[k - 1] = h[k - 1]
      BY <1>2, <1>3, <2>1
    <3> QED
      BY <1>3, <2>1, <3>1
  <2>2. CASE i # k
    <3>1. i \in 0..(k - 1) /\ g[i] = h[i]
      BY <1>2, <2>2
    <3>2. h[i] = IF i = 0 THEN {} ELSE PickStep(h[i - 1], i)
      BY <1>5, <3>1
    <3>3. i # 0 => g[i - 1] = h[i - 1]
      BY <1>2, <2>2
    <3> QED
      BY <3>1, <3>2, <3>3
  <2> QED
    BY <2>1, <2>2
<1>7. g = [i \in 0..k |-> IF i = 0 THEN {} ELSE PickStep(g[i - 1], i)]
  <2>1. g = [i \in 0..k |-> g[i]]
    OBVIOUS
  <2> HIDE DEF g
  <2> QED
    BY <1>6, <2>1
<1> QED
  BY <1>2, <1>7

\* Picked is what its recursive definition says.
LEMMA PickedIs ==
  \A i \in 0..MapSize : Picked[i] = IF i = 0 THEN {} ELSE PickStep(Picked[i - 1], i)
<1>1. \E g : g = [i \in 0..MapSize |-> IF i = 0 THEN {} ELSE PickStep(g[i - 1], i)]
  <2>1. MapSize \in 0..MapSize
    BY SizeAssumption
  <2> QED
    BY <2>1, PicksExist
<1>2. Picked = CHOOSE g : g = [i \in 0..MapSize |-> IF i = 0 THEN {} ELSE PickStep(g[i - 1], i)]
  BY DEF Picked, PickStep
<1>3. Picked = [i \in 0..MapSize |-> IF i = 0 THEN {} ELSE PickStep(Picked[i - 1], i)]
  BY <1>1, <1>2
<1> HIDE DEF Picked
<1> QED
  BY <1>3

\* The edges up to i that have a winner are picked, or missing in the trace of
\* the winner of a picked one.
CoveredTo(i) ==
  \A j \in 1..i : top_rated[j] # 0 =>
    j \in Picked[i] \/ \E k \in Picked[i] : j \in Missing(top_rated[k])

\* The loop covers the whole map.
LEMMA PicksCover == CoveredTo(MapSize)
<1> DEFINE Bad == {n \in 0..MapSize : ~CoveredTo(n)}
<1> SUFFICES ASSUME Bad # {} PROVE FALSE
  BY SizeAssumption
<1>1. PICK n \in Bad : \A m \in Bad : n <= m
  <2>1. Bad \in SUBSET Nat
    BY SizeAssumption
  <2> HIDE DEF Bad
  <2> QED
    BY <2>1, LeastNat
<1>2. n \in 0..MapSize /\ ~CoveredTo(n) /\ MapSize \in Nat
  BY <1>1, SizeAssumption
<1>3. n # 0
  BY <1>2 DEF CoveredTo
<1>4. CoveredTo(n - 1)
  <2>1. n - 1 \in 0..MapSize /\ ~(n <= n - 1)
    BY <1>2, <1>3
  <2> QED
    BY <1>1, <2>1
<1>5. Picked[n] = PickStep(Picked[n - 1], n)
  BY <1>2, <1>3, PickedIs
<1>6. Picked[n - 1] \subseteq Picked[n]
  BY <1>5 DEF PickStep
<1>7. ASSUME NEW j \in 1..n, top_rated[j] # 0
      PROVE  j \in Picked[n] \/ \E k \in Picked[n] : j \in Missing(top_rated[k])
  <2>1. CASE j = n
    <3>1. CASE \A k \in Picked[n - 1] : n \notin Missing(top_rated[k])
      BY <1>5, <1>7, <2>1, <3>1 DEF PickStep
    <3>2. CASE \E k \in Picked[n - 1] : n \in Missing(top_rated[k])
      BY <1>6, <2>1, <3>2
    <3> QED
      BY <3>1, <3>2
  <2>2. CASE j # n
    <3>1. j \in 1..(n - 1)
      BY <1>2, <2>2
    <3> QED
      BY <1>4, <1>6, <1>7, <3>1 DEF CoveredTo
  <2> QED
    BY <2>1, <2>2
<1> QED
  BY <1>2, <1>7 DEF CoveredTo

\* Only edges that have a winner are picked.
LEMMA PicksHaveWinners == \A k \in Picked[MapSize] : k \in Edges /\ top_rated[k] # 0
<1> DEFINE Won1(n) == \A k \in Picked[n] : k \in Edges /\ top_rated[k] # 0
           Bad == {n \in 0..MapSize : ~Won1(n)}
<1> SUFFICES ASSUME Bad # {} PROVE FALSE
  BY SizeAssumption
<1>1. PICK n \in Bad : \A m \in Bad : n <= m
  <2>1. Bad \in SUBSET Nat
    BY SizeAssumption
  <2> HIDE DEF Bad
  <2> QED
    BY <2>1, LeastNat
<1>2. n \in 0..MapSize /\ ~Won1(n) /\ MapSize \in Nat
  BY <1>1, SizeAssumption
<1>3. n # 0
  BY <1>2, PickedIs
<1>4. Won1(n - 1)
  <2>1. n - 1 \in 0..MapSize /\ ~(n <= n - 1)
    BY <1>2, <1>3
  <2> QED
    BY <1>1, <2>1
<1>5. Picked[n] = PickStep(Picked[n - 1], n) /\ n \in Edges
  BY <1>2, <1>3, PickedIs DEF Edges
<1> QED
  BY <1>2, <1>4, <1>5 DEF PickStep

----------------------------------------------------------------------------
(* The favoured entries cover every known decrease                         *)

\* What FavoredCover needs to be inductive: it holds in every step in which no
\* score changed, the dry run gives no slot without a change of scores, and
\* the matrix, once there is a winner, has the trace that the cover is about.
Covered ==
  /\ pc # "dry" => testcase_matrix # 0
  /\ ~score_changed =>
       /\ pc = "dry" => \A i \in Edges : top_rated[i] = 0
       /\ \A i \in Edges : top_rated[i] # 0 =>
            /\ trace_mini[testcase_matrix] # NULL
            /\ top_rated[i] \in favored \/ \E q \in favored : i \in Missing(q)

\* update_bitmap_score without a new winner changes no trace, unless the
\* matrix had none.
LEMMA QuietScore ==
  ASSUME TypeOK, NEW q \in Ids, NEW f, NEW t, NEW m,
         UpdateBitmapScore(q, f, t, m), ~score_changed'
  PROVE  /\ ~score_changed /\ top_rated' = top_rated
         /\ \A r \in Ids : trace_mini'[r] = trace_mini[r] \/ (r = m /\ trace_mini[r] = NULL)
<1> DEFINE won == Won(q, f, t)
<1>1. won = {} /\ ~score_changed
  BY DEF UpdateBitmapScore, TypeOK
<1>2. top_rated' = [i \in Edges |-> IF i \in won THEN q ELSE top_rated[i]]
  BY DEF UpdateBitmapScore
<1>3. trace_mini' = [r \in Ids |-> Mini(q, t, m, won, r)]
  BY DEF UpdateBitmapScore
<1> HIDE DEF won
<1>4. top_rated' = top_rated
  BY <1>1, <1>2 DEF TypeOK
<1>5. ASSUME NEW r \in Ids
      PROVE  trace_mini'[r] = trace_mini[r] \/ (r = m /\ trace_mini[r] = NULL)
  BY <1>1, <1>3 DEF Mini, Retakes
<1> QED
  BY <1>1, <1>4, <1>5

\* A step outside cull_queue that scores an entry, or none, keeps Covered.
LEMMA ScoredCovered ==
  ASSUME IInv, Covered,
         \/ UNCHANGED scoreVars
         \/ \E q \in Ids, f \in Nat, t \in SUBSET Edges :
              UpdateBitmapScore(q, f, t, testcase_matrix),
         UNCHANGED favored, pc' = "dry" => pc = "dry",
         pc' # "dry" => testcase_matrix' # 0,
         pc # "dry" => testcase_matrix' = testcase_matrix
  PROVE  Covered'
<1>0. TypeOK
  BY DEF IInv
<1> SUFFICES ASSUME ~score_changed'
             PROVE  /\ pc' = "dry" => \A i \in Edges : top_rated'[i] = 0
                    /\ \A i \in Edges : top_rated'[i] # 0 =>
                         /\ trace_mini'[testcase_matrix'] # NULL
                         /\ \/ top_rated'[i] \in favored
                            \/ \E q \in favored : i \in Missing(q)'
  BY DEF Covered
<1>1. /\ ~score_changed /\ top_rated' = top_rated
      /\ \A r \in Ids : \/ trace_mini'[r] = trace_mini[r]
                        \/ r = testcase_matrix /\ trace_mini[r] = NULL
  <2>1. CASE UNCHANGED scoreVars
    BY <2>1 DEF scoreVars
  <2>2. CASE \E q \in Ids, f \in Nat, t \in SUBSET Edges :
               UpdateBitmapScore(q, f, t, testcase_matrix)
    BY <1>0, <2>2, QuietScore
  <2> QED
    BY <2>1, <2>2
<1>2. CASE pc = "dry"
  BY <1>1, <1>2 DEF Covered
<1>3. CASE pc # "dry"
  <2>1. testcase_matrix' = testcase_matrix /\ testcase_matrix \in Ids
    BY <1>0, <1>3, QueuedIds DEF TypeOK, Covered
  <2>2. ASSUME NEW i \in Edges, top_rated'[i] # 0
        PROVE  /\ trace_mini'[testcase_matrix'] # NULL
               /\ \/ top_rated'[i] \in favored
                  \/ \E q \in favored : i \in Missing(q)'
    <3>1. /\ trace_mini[testcase_matrix] # NULL
          /\ top_rated[i] \in favored \/ \E q \in favored : i \in Missing(q)
      BY <1>1, <2>2 DEF Covered
    <3>2. \A r \in Ids : trace_mini'[r] = trace_mini[r]
      BY <1>1, <3>1
    <3>3. \A q \in favored : Missing(q)' = Missing(q)
      <4>1. favored \subseteq Ids
        BY <1>0, QueuedIds DEF TypeOK
      <4> QED
        BY <2>1, <3>2, <4>1 DEF Missing
    <3> QED
      BY <1>1, <2>1, <3>1, <3>2, <3>3
  <2> QED
    BY <1>3, <2>2
<1> QED
  BY <1>2, <1>3

\* Culling: the winners of the picked edges are favoured, and they cover.
LEMMA CullCovers == IInv /\ Covered /\ CullQueue => Covered'
<1> SUFFICES ASSUME IInv, Covered, CullQueue PROVE Covered'
  OBVIOUS
<1>0. TypeOK
  BY DEF IInv
<1>1. /\ pc = "cull" /\ pc' # "dry" /\ testcase_matrix' = testcase_matrix
      /\ top_rated' = top_rated /\ trace_mini' = trace_mini
  BY DEF CullQueue
<1>2. CASE ~score_changed /\ UNCHANGED <<favVars, score_changed>>
  BY <1>1, <1>2 DEF Covered, favVars, Missing
<1>3. CASE /\ Dereferenceable
           /\ favored' = {q \in Queued : \E i \in Picked[MapSize] : top_rated[i] = q}
  <2>1. ASSUME NEW i \in Edges, top_rated[i] # 0
        PROVE  /\ trace_mini[testcase_matrix] # NULL
               /\ top_rated[i] \in favored' \/ \E q \in favored' : i \in Missing(q)
    <3>1. trace_mini[testcase_matrix] # NULL
      BY <1>3, <2>1 DEF Dereferenceable
    <3>2. i \in Picked[MapSize] \/ \E k \in Picked[MapSize] : i \in Missing(top_rated[k])
      BY <2>1, PicksCover DEF CoveredTo, Edges
    <3>3. \A k \in Picked[MapSize] : top_rated[k] \in favored'
      <4>1. \A k \in Picked[MapSize] : top_rated[k] \in Queued
        BY <1>0, PicksHaveWinners DEF TypeOK
      <4> QED
        BY <1>3, <4>1
    <3> QED
      BY <3>1, <3>2, <3>3
  <2>2. \A q : Missing(q)' = Missing(q)
    BY <1>1 DEF Missing
  <2> QED
    BY <1>1, <2>1, <2>2 DEF Covered
<1> QED
  BY <1>2, <1>3 DEF CullQueue

\* Every action keeps the cover.
LEMMA CoveredStep == IInv /\ Covered /\ [Next]_vars => Covered'
<1> SUFFICES ASSUME IInv, Covered, [Next]_vars PROVE Covered'
  OBVIOUS
<1>0. TypeOK /\ Control /\ Factors \subseteq Nat
  BY SizeAssumption DEF IInv
<1>1. CASE CullQueue
  BY <1>1, CullCovers
<1>2. CASE MatrixBirth
  <2>1. idx \in Ids /\ testcase_matrix = 0
    BY <1>0, <1>2, SizeAssumption DEF MatrixBirth, Control, Ids
  <2>2. /\ UNCHANGED favored /\ pc = "dry" /\ pc' = "dry"
        /\ SeedCalibrated(idx, testcase_matrix)
    BY <1>2, <2>1 DEF MatrixBirth, favVars
  <2> QED
    BY <1>0, <2>1, <2>2, ScoredCovered DEF SeedCalibrated
<1>3. CASE DryRunSeed
  <2>1. idx \in Ids
    BY <1>0, <1>3, SizeAssumption DEF DryRunSeed, Control, Ids
  <2>2. /\ UNCHANGED favored /\ pc = "dry" /\ pc' = "dry"
        /\ SeedCalibrated(idx, testcase_matrix)
    BY <1>3 DEF DryRunSeed, favVars
  <2> QED
    BY <1>0, <2>1, <2>2, ScoredCovered DEF SeedCalibrated
<1>4. CASE DryRunEnd
  <2>1. testcase_matrix # 0
    BY <1>0, <1>4, SizeAssumption DEF DryRunEnd, Control
  <2> QED
    BY <1>4, <2>1, ScoredCovered DEF DryRunEnd, favVars
<1>5. CASE CullSegv \/ StartRescore \/ SkipEntry \/ AbandonEntry \/ \E q \in Ids : SelectEntry(q)
  <2>1. /\ UNCHANGED <<scoreVars, favored, testcase_matrix>>
        /\ pc # "dry" /\ pc' # "dry"
    BY <1>5 DEF CullSegv, StartRescore, SkipEntry, AbandonEntry, SelectEntry, favVars
  <2> QED
    BY <2>1, ScoredCovered DEF Covered
<1>6. CASE Rescore \/ Calibrate \/ Trim
  <2>1. UNCHANGED <<favored, testcase_matrix>> /\ pc # "dry" /\ pc' # "dry"
    BY <1>6 DEF Rescore, Calibrate, Trim, favVars
  <2>2. queue_cur # 0 => queue_cur \in Ids
    BY <1>0, QueuedIds DEF TypeOK
  <2>3. \/ UNCHANGED scoreVars
        \/ \E q \in Ids, f \in Nat, t \in SUBSET Edges :
             UpdateBitmapScore(q, f, t, testcase_matrix)
    <3>1. CASE Rescore
      <4>1. idx \in Queued => idx \in Ids /\ fav_factor[idx] \in Nat
        BY <1>0, QueuedIds DEF TypeOK
      <4> QED
        BY <3>1, <4>1 DEF Rescore
    <3>2. CASE Calibrate
      BY <1>0, <2>2, <3>2 DEF Calibrate, Control
    <3>3. CASE Trim
      BY <1>0, <2>2, <3>3 DEF Trim, Control
    <3> QED
      BY <1>6, <3>1, <3>2, <3>3
  <2> QED
    BY <2>1, <2>3, ScoredCovered DEF Covered
<1>7. CASE AddToQueue
  <2>1. UNCHANGED <<favored, testcase_matrix>> /\ pc # "dry" /\ pc' # "dry"
    BY <1>7 DEF AddToQueue, favVars
  <2>2. queued_items + 1 \in Ids
    BY <1>0, <1>7, SizeAssumption DEF AddToQueue, TypeOK, Ids
  <2>3. \/ UNCHANGED scoreVars
        \/ \E q \in Ids, f \in Nat, t \in SUBSET Edges :
             UpdateBitmapScore(q, f, t, testcase_matrix)
    BY <1>0, <1>7, <2>2 DEF AddToQueue
  <2> QED
    BY <2>1, <2>3, ScoredCovered DEF Covered
<1>8. CASE UNCHANGED vars
  BY <1>8, ScoredCovered DEF vars, favVars, Covered
<1> QED
  BY <1>1, <1>2, <1>3, <1>4, <1>5, <1>6, <1>7, <1>8 DEF Next

\* cull_queue's favoured entries, until a score changes, cover every edge that
\* has a winner: its winner is favoured, or a favoured entry no longer hits it.
\* For any map, any queue and any order of rescoring, trimming and syncing.
THEOREM FavouritesCover == Spec => []FavoredCover
<1>1. Init => IInv /\ Covered
  BY InitInv DEF Init, Covered
<1>2. (IInv /\ Covered) /\ [Next]_vars => (IInv /\ Covered)'
  BY NextInv, CoveredStep
<1>3. IInv /\ Covered => FavoredCover
  BY DEF Covered, FavoredCover, Missing
<1> QED
  BY <1>1, <1>2, <1>3, PTL DEF Spec

=============================================================================
