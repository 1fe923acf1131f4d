----------------------------- MODULE TrimProofs -----------------------------
(***************************************************************************)
(* Proofs about Trim, for entries of every length, every need of the       *)
(* target, every choice of the trimming steps and every outcome of runs    *)
(* and writes.                                                             *)
(***************************************************************************)
EXTENDS Trim, FiniteSums, SequenceTheorems

Whole == [there |-> TRUE, bytes |-> Original]

\* Writing went well enough for the file to be whole at the end.
Good == ~failed /\ short <= (IF InPlace THEN 0 ELSE 1)

\* The first bytes, which no round of trim_case removes.
Keep == Smaller(orig_len, TRIM_MIN_BYTES)

----------------------------------------------------------------------------
(* The inductive invariant                                                 *)

Types ==
  /\ orig_len \in Nat \ {0} /\ len \in 1..(orig_len + 1)
  /\ custom \in BOOLEAN /\ no_unlink \in BOOLEAN
  /\ in_buf \in Bytes /\ out_buf \in Bytes /\ accepted \in Bytes
  /\ remove_pos \in Nat /\ remove_len \in Nat /\ len_p2 \in Nat
  /\ trace_bits \in {"own", "other"} /\ fault \in {"RAN", "ERROR"}
  /\ stage_cur \in 0..MaxStage /\ stage_max \in 0..MaxStage
  /\ file \in [there : BOOLEAN, bytes : Bytes]
  /\ w \in [buf : Bytes, off : Nat, len : 0..(orig_len + 1), written : Nat]
  /\ short \in 0..MaxShort /\ failed \in BOOLEAN /\ stop_soon \in BOOLEAN
  /\ pc \in {"enter", "round", "exec", "custom", "open", "write", "close", "leave",
             "done", "stopped", "fatal"}

\* Where each trimmer is, and what its runs and the score have seen.
Traces ==
  /\ pc \in {"round", "exec"} => ~custom
  /\ pc = "custom" => custom
  /\ pc = "enter" => clean_trace = "none"
  /\ pc = "exec" => remove_pos >= TRIM_MIN_BYTES /\ remove_len >= TRIM_MIN_BYTES
  /\ pc \notin {"leave", "done", "stopped", "fatal"} => scored = "none" /\ fault = "RAN"
  /\ clean_trace \in {"none", "own"} /\ scored \in {"none", "own"}
  /\ scored = "own" => clean_trace = "own"
  /\ pc \in {"open", "write", "close"} => clean_trace = "own"
  /\ pc = "leave" /\ scored = "none" => clean_trace = "none" \/ stop_soon \/ fault = "ERROR"
  /\ pc = "done" /\ scored = "none" => clean_trace = "none"

\* The buffers hold what was accepted.
Buffers ==
  /\ clean_trace = "none" => accepted = Original
  /\ ~custom =>
       /\ len <= Len(in_buf) /\ SubSeq(in_buf, 1, len) = accepted
       /\ Smaller(len, TRIM_MIN_BYTES) = Keep
       /\ \A i \in 1..Keep : in_buf[i] = i
  /\ custom => IF clean_trace = "none" THEN out_buf = <<>>
               ELSE out_buf = accepted /\ Len(out_buf) \in 1..(orig_len + 1)
  /\ custom /\ scored = "none" => in_buf = Original /\ len = orig_len

\* The file is as it was, being written, or written.
OnDisk ==
  /\ scored = "none" /\ pc \notin {"open", "write", "close"} => file = Whole
  /\ pc \in {"enter", "round", "exec", "custom", "open"} => short = 0 /\ ~failed
  /\ pc = "write" =>
       /\ file.there /\ w.buf = Trimmed /\ w.written = w.off
       /\ w.len = Len(w.buf) - w.off /\ w.len >= 1
       /\ ~failed /\ short = 0 => w.off = 0
       /\ Good => file.bytes = SubSeq(w.buf, 1, w.off)
  /\ pc = "close" => file.there /\ (Good => file.bytes = Trimmed)
  /\ scored = "own" /\ Good =>
       file = [there |-> TRUE, bytes |-> accepted] /\ SubSeq(in_buf, 1, len) = accepted

IInv == Types /\ Traces /\ Buffers /\ OnDisk

----------------------------------------------------------------------------
(* next_pow2                                                               *)

\* g doubles from 1 on, n times.
Doubles(g, n) == g \in [0..n -> Nat] /\ g[0] = 1 /\ \A i \in 1..n : g[i] = 2 * g[i - 1]

\* There is such a function for every n.
LEMMA DoublesExist == \A n \in Nat : \E g : Doubles(g, n)
<1> DEFINE Bad == {n \in Nat : ~\E g : Doubles(g, n)}
<1> SUFFICES ASSUME Bad # {} PROVE FALSE
  OBVIOUS
<1>1. PICK n \in Bad : \A m \in Bad : n <= m
  <2> HIDE DEF Bad
  <2>1. Bad \in SUBSET Nat
    BY DEF Bad
  <2> QED
    BY <2>1, LeastNat
<1>2. n \in Nat /\ ~\E g : Doubles(g, n)
  BY <1>1
<1>3. n # 0
  <2>1. Doubles([i \in 0..0 |-> 1], 0)
    BY DEF Doubles
  <2> QED
    BY <1>2, <2>1
<1>4. PICK h : Doubles(h, n - 1)
  <2>1. n - 1 \in Nat /\ ~(n <= n - 1)
    BY <1>2, <1>3
  <2> QED
    BY <1>1, <2>1
<1> DEFINE g == [i \in 0..n |-> IF i = n THEN 2 * h[n - 1] ELSE h[i]]
<1>5. Doubles(g, n)
  <2>1. h \in [0..(n - 1) -> Nat] /\ h[0] = 1 /\ \A i \in 1..(n - 1) : h[i] = 2 * h[i - 1]
    BY <1>4 DEF Doubles
  <2>2. g \in [0..n -> Nat] /\ g[0] = 1
    BY <1>2, <1>3, <2>1
  <2>3. ASSUME NEW i \in 1..n PROVE g[i] = 2 * g[i - 1]
    BY <1>2, <1>3, <2>1, <2>3
  <2> HIDE DEF g
  <2> QED
    BY <2>2, <2>3 DEF Doubles
<1> QED
  BY <1>2, <1>5

\* Two such functions agree where both are defined.
LEMMA DoublesSame ==
  ASSUME NEW m \in Nat, NEW n \in Nat, m <= n, NEW g, NEW h, Doubles(g, m), Doubles(h, n)
  PROVE  g[m] = h[m]
<1> DEFINE Bad == {i \in 0..m : g[i] # h[i]}
<1> SUFFICES ASSUME Bad # {} PROVE FALSE
  OBVIOUS
<1>1. PICK i \in Bad : \A j \in Bad : i <= j
  <2> HIDE DEF Bad
  <2>1. Bad \in SUBSET Nat
    BY DEF Bad
  <2> QED
    BY <2>1, LeastNat
<1>2. i # 0
  BY <1>1 DEF Doubles
<1>3. g[i - 1] = h[i - 1]
  <2>1. i - 1 \in 0..m /\ ~(i <= i - 1)
    BY <1>1, <1>2
  <2> QED
    BY <1>1, <2>1
<1>4. i \in 1..m /\ i \in 1..n
  BY <1>1, <1>2
<1>5. g[i] = 2 * g[i - 1] /\ h[i] = 2 * h[i - 1]
  BY <1>4 DEF Doubles
<1> QED
  BY <1>1, <1>3, <1>5

\* Pow2 is what its recursive definition says.
LEMMA Pow2Is == Pow2 \in [Nat -> Nat] /\ Pow2[0] = 1 /\ \A k \in Nat \ {0} : Pow2[k] = 2 * Pow2[k - 1]
<1> DEFINE D(n) == CHOOSE g : Doubles(g, n)
           f == [n \in Nat |-> D(n)[n]]
<1>1. \A n \in Nat : Doubles(D(n), n)
  BY DoublesExist
<1> HIDE DEF D
<1>2. f[0] = 1 /\ f \in [Nat -> Nat]
  BY <1>1 DEF Doubles
<1>3. ASSUME NEW k \in Nat \ {0} PROVE f[k] = 2 * f[k - 1]
  <2>1. k - 1 \in Nat /\ k \in Nat /\ k - 1 <= k /\ k \in 1..k
    OBVIOUS
  <2>2. Doubles(D(k - 1), k - 1) /\ Doubles(D(k), k)
    BY <1>1, <2>1
  <2>3. D(k - 1)[k - 1] = D(k)[k - 1]
    BY <2>1, <2>2, DoublesSame
  <2>4. D(k)[k] = 2 * D(k)[k - 1]
    BY <2>1, <2>2 DEF Doubles
  <2> QED
    BY <2>1, <2>3, <2>4
<1>4. f = [k \in Nat |-> IF k = 0 THEN 1 ELSE 2 * f[k - 1]]
  <2>1. f = [k \in Nat |-> f[k]]
    OBVIOUS
  <2>2. \A k \in Nat : f[k] = IF k = 0 THEN 1 ELSE 2 * f[k - 1]
    BY <1>2, <1>3
  <2> HIDE DEF f
  <2> QED
    BY <2>1, <2>2
<1>5. Pow2 = CHOOSE g : g = [k \in Nat |-> IF k = 0 THEN 1 ELSE 2 * g[k - 1]]
  BY DEF Pow2
<1>6. Pow2 = [k \in Nat |-> IF k = 0 THEN 1 ELSE 2 * Pow2[k - 1]]
  <2> HIDE DEF f, Pow2
  <2> QED
    BY <1>4, <1>5
<1> HIDE DEF Pow2
<1>7. Pow2[0] = 1 /\ \A k \in Nat \ {0} : Pow2[k] = 2 * Pow2[k - 1]
  BY <1>6
<1>8. \A k \in Nat : Pow2[k] = f[k]
  <2> DEFINE Bad == {k \in Nat : Pow2[k] # f[k]}
  <2> SUFFICES ASSUME Bad # {} PROVE FALSE
    OBVIOUS
  <2>1. PICK i \in Bad : \A j \in Bad : i <= j
    <3> HIDE DEF Bad
    <3>1. Bad \in SUBSET Nat
      BY DEF Bad
    <3> QED
      BY <3>1, LeastNat
  <2> HIDE DEF f
  <2>2. i # 0
    BY <1>2, <1>7, <2>1
  <2>3. i - 1 \in Nat /\ ~(i <= i - 1) /\ i \in Nat \ {0}
    BY <2>1, <2>2
  <2>4. Pow2[i - 1] = f[i - 1]
    BY <2>1, <2>3
  <2> QED
    BY <1>3, <1>7, <2>1, <2>3, <2>4
<1>9. Pow2 \in [Nat -> Nat]
  <2>1. \A k \in Nat : Pow2[k] \in Nat
    <3> HIDE DEF f
    <3> QED
      BY <1>2, <1>8
  <2>2. Pow2 = [k \in Nat |-> Pow2[k]]
    BY <1>6
  <2> QED
    BY <2>1, <2>2
<1> QED
  BY <1>7, <1>9

\* Powers of two outgrow every length.
LEMMA Pow2Grows == \A k \in Nat : Pow2[k] >= k + 1
<1> HIDE DEF Pow2
<1> DEFINE Bad == {k \in Nat : ~(Pow2[k] >= k + 1)}
<1> SUFFICES ASSUME Bad # {} PROVE FALSE
  OBVIOUS
<1>1. PICK i \in Bad : \A j \in Bad : i <= j
  <2> HIDE DEF Bad
  <2>1. Bad \in SUBSET Nat
    BY DEF Bad
  <2> QED
    BY <2>1, LeastNat
<1>2. i # 0
  BY <1>1, Pow2Is
<1>3. i - 1 \in Nat /\ ~(i <= i - 1) /\ i \in Nat \ {0}
  BY <1>1, <1>2
<1>4. Pow2[i - 1] >= (i - 1) + 1
  BY <1>1, <1>3
<1>5. Pow2[i] = 2 * Pow2[i - 1] /\ Pow2[i - 1] \in Nat /\ Pow2[i] \in Nat
  BY <1>3, Pow2Is
<1> QED
  BY <1>1, <1>3, <1>4, <1>5

\* next_pow2 has a result: a power of two, not below its argument, and the
\* half of it is.
LEMMA NextPow2 ==
  ASSUME NEW n \in Nat \ {0}
  PROVE  /\ next_pow2(n) \in Nat /\ next_pow2(n) >= n
         /\ next_pow2(n) = 1 \/ next_pow2(n) \div 2 < n
<1> HIDE DEF Pow2
<1> DEFINE Up == {k \in Nat : Pow2[k] >= n}
<1>1. Up \in SUBSET Nat /\ n \in Up
  BY Pow2Grows, Pow2Is
<1>2. PICK k \in Up : \A j \in Up : k <= j
  <2> HIDE DEF Up
  <2> QED
    BY <1>1, LeastNat
<1>3. k \in 0..n /\ Pow2[k] \in Nat /\ Pow2[k] >= n
  BY <1>1, <1>2, Pow2Is
<1>4. Pow2[k] = 1 \/ Pow2[k] \div 2 < n
  <2>1. CASE k = 0
    BY <2>1, Pow2Is
  <2>2. CASE k # 0
    <3>1. k \in Nat \ {0} /\ k - 1 \in Nat /\ ~(k <= k - 1)
      BY <1>3, <2>2
    <3>2. ~(Pow2[k - 1] >= n)
      BY <1>2, <3>1
    <3>3. Pow2[k] = 2 * Pow2[k - 1] /\ Pow2[k - 1] \in Nat
      BY <3>1, Pow2Is
    <3> QED
      BY <3>2, <3>3
  <2> QED
    BY <2>1, <2>2
<1> DEFINE All == {Pow2[i] : i \in 0..n}
<1>5. \E p \in All : p >= n /\ (p = 1 \/ p \div 2 < n)
  BY <1>3, <1>4
<1>6. \A p \in All : p \in Nat
  BY Pow2Is
<1>7. next_pow2(n) = CHOOSE p \in All : p >= n /\ (p = 1 \/ p \div 2 < n)
  BY DEF next_pow2
<1> HIDE DEF All
<1> QED
  BY <1>5, <1>6, <1>7

----------------------------------------------------------------------------
(* Bytes                                                                   *)

\* The entry's bytes are the numbers 1 to its length, in order.
LEMMA OriginalIs ==
  ASSUME orig_len \in Nat
  PROVE  /\ Original \in Bytes /\ Len(Original) = orig_len
         /\ \A i \in 1..orig_len : Original[i] = i
         /\ SubSeq(Original, 1, orig_len) = Original
<1>1. Original \in [1..orig_len -> 1..orig_len]
  BY DEF Original
<1>2. Original \in Bytes /\ Len(Original) = orig_len
  BY <1>1 DEF Bytes
<1>3. \A i \in 1..orig_len : Original[i] = i
  BY DEF Original
<1> QED
  BY <1>2, <1>3, SubSeqFull DEF Bytes

\* A prefix or another part of a sequence of bytes.
LEMMA PartOf ==
  ASSUME NEW S, NEW s \in Seq(S), NEW a \in Nat \ {0}, NEW b \in Nat, b <= Len(s)
  PROVE  /\ SubSeq(s, a, b) \in Seq(S)
         /\ Len(SubSeq(s, a, b)) = IF a <= b THEN b - a + 1 ELSE 0
         /\ \A i \in 1..(b - a + 1) : SubSeq(s, a, b)[i] = s[a + i - 1]
<1>1. \A i \in a..b : s[i] \in S
  <2>1. Len(s) \in Nat
    BY LenProperties
  <2>2. \A i \in 1..Len(s) : s[i] \in S
    BY ElementOfSeq
  <2> QED
    BY <2>1, <2>2
<1> QED
  BY <1>1, SubSeqProperties

\* A prefix has the length that was asked for.
LEMMA Prefix ==
  ASSUME NEW S, NEW s \in Seq(S), NEW n \in Nat, n <= Len(s)
  PROVE  SubSeq(s, 1, n) \in Seq(S) /\ Len(SubSeq(s, 1, n)) = n
<1>1. 1 \in Nat \ {0}
  OBVIOUS
<1>2. /\ SubSeq(s, 1, n) \in Seq(S)
      /\ Len(SubSeq(s, 1, n)) = IF 1 <= n THEN n - 1 + 1 ELSE 0
  BY <1>1, PartOf
<1> QED
  BY <1>2

\* A prefix has the bytes of the sequence.
LEMMA PrefixAt ==
  ASSUME NEW S, NEW s \in Seq(S), NEW n \in Nat, n <= Len(s)
  PROVE  \A i \in 1..n : SubSeq(s, 1, n)[i] = s[i]
<1>1. 1 \in Nat \ {0}
  OBVIOUS
<1>2. \A i \in 1..(n - 1 + 1) : SubSeq(s, 1, n)[i] = s[1 + i - 1]
  BY <1>1, PartOf
<1> QED
  BY <1>2

\* A prefix and the part behind it make a longer prefix.
LEMMA Longer ==
  ASSUME NEW S, NEW s \in Seq(S), NEW a \in Nat, NEW n \in Nat, a + n <= Len(s)
  PROVE  SubSeq(s, 1, a) \o SubSeq(s, a + 1, a + n) = SubSeq(s, 1, a + n)
<1>1. Len(s) \in Nat
  BY LenProperties
<1>2. 1 \in 1..(Len(s) + 1) /\ a \in (1 - 1)..Len(s) /\ a + n \in a..Len(s)
  BY <1>1
<1> QED
  BY <1>2, ConcatAdjacentSubSeq

\* What the target has run on (write_with_gap) is what the buffer holds after
\* the memmove.
LEMMA GapMoved ==
  ASSUME NEW S, in_buf \in Seq(S), len \in Nat, len <= Len(in_buf),
         NEW pos \in Nat, NEW n \in Nat, pos + n <= len
  PROVE  /\ Moved(pos, n) \in Seq(S) /\ Len(Moved(pos, n)) = Len(in_buf)
         /\ WithGap(pos, n) \in Seq(S)
         /\ SubSeq(Moved(pos, n), 1, len - n) = WithGap(pos, n)
         /\ \A i \in 1..pos : Moved(pos, n)[i] = in_buf[i]
<1> DEFINE L == Len(in_buf)
           mv == Moved(pos, n)
           a == SubSeq(in_buf, 1, pos)
           b == SubSeq(in_buf, pos + n + 1, len)
<1>1. L \in Nat /\ \A i \in 1..L : in_buf[i] \in S
  BY LenProperties, ElementOfSeq
<1>2. mv = [i \in 1..L |-> IF i > pos /\ i <= len - n THEN in_buf[i + n] ELSE in_buf[i]]
  BY DEF Moved
<1>3. \A i \in 1..L : mv[i] \in S /\ mv[i] = IF i > pos /\ i <= len - n THEN in_buf[i + n] ELSE in_buf[i]
  BY <1>1, <1>2
<1>4. mv \in Seq(S) /\ Len(mv) = L
  <2>1. mv \in [1..L -> S]
    <3> HIDE DEF mv
    <3> QED
      BY <1>2, <1>3
  <2> HIDE DEF mv, L
  <2> QED
    BY <1>1, <2>1
<1>5. /\ a \in Seq(S) /\ Len(a) = pos
      /\ \A i \in 1..pos : a[i] = in_buf[i]
  <2>1. /\ a \in Seq(S) /\ Len(a) = (IF 1 <= pos THEN pos - 1 + 1 ELSE 0)
        /\ \A i \in 1..(pos - 1 + 1) : a[i] = in_buf[1 + i - 1]
    BY <1>1, PartOf
  <2> HIDE DEF a
  <2> QED
    BY <2>1
<1>6. /\ b \in Seq(S) /\ Len(b) = len - n - pos
      /\ \A i \in 1..(len - n - pos) : b[i] = in_buf[pos + n + i]
  <2>1. /\ b \in Seq(S)
        /\ Len(b) = (IF pos + n + 1 <= len THEN len - (pos + n + 1) + 1 ELSE 0)
        /\ \A i \in 1..(len - (pos + n + 1) + 1) : b[i] = in_buf[pos + n + 1 + i - 1]
    BY <1>1, PartOf
  <2> HIDE DEF b
  <2> QED
    BY <2>1
<1>7. WithGap(pos, n) = a \o b
  BY DEF WithGap
<1> HIDE DEF a, b, mv
<1>8. /\ a \o b \in Seq(S) /\ Len(a \o b) = len - n
      /\ \A i \in 1..(len - n) : (a \o b)[i] = IF i <= pos THEN a[i] ELSE b[i - pos]
  BY <1>5, <1>6, ConcatProperties
<1> DEFINE c == SubSeq(mv, 1, len - n)
<1>9. /\ c \in Seq(S) /\ Len(c) = len - n
      /\ \A i \in 1..(len - n) : c[i] = mv[i]
  <2>1. /\ c \in Seq(S) /\ Len(c) = (IF 1 <= len - n THEN len - n - 1 + 1 ELSE 0)
        /\ \A i \in 1..(len - n - 1 + 1) : c[i] = mv[1 + i - 1]
    BY <1>1, <1>4, PartOf
  <2> HIDE DEF c
  <2> QED
    BY <2>1
<1>10. ASSUME NEW i \in 1..(len - n) PROVE c[i] = (a \o b)[i]
  <2>1. i \in 1..L /\ c[i] = mv[i]
    BY <1>1, <1>9
  <2>2. CASE i <= pos
    BY <1>3, <1>5, <1>8, <2>1, <2>2
  <2>3. CASE i > pos
    <3>1. i - pos \in 1..(len - n - pos) /\ pos + n + (i - pos) = i + n
      BY <2>3
    <3>2. b[i - pos] = in_buf[i + n]
      BY <1>6, <3>1
    <3>3. mv[i] = in_buf[i + n]
      BY <1>3, <2>1, <2>3
    <3>4. (a \o b)[i] = b[i - pos]
      BY <1>8, <2>3
    <3> QED
      BY <2>1, <3>2, <3>3, <3>4
  <2>4. i <= pos \/ i > pos
    OBVIOUS
  <2> QED
    BY <2>2, <2>3, <2>4
<1>11. c = a \o b
  <2> HIDE DEF c
  <2>1. Len(c) = Len(a \o b) /\ \A i \in 1..Len(c) : c[i] = (a \o b)[i]
    BY <1>8, <1>9, <1>10
  <2> QED
    BY <1>8, <1>9, <2>1, SeqEqual
<1>12. \A i \in 1..pos : mv[i] = in_buf[i]
  BY <1>1, <1>3
<1> QED
  BY <1>4, <1>7, <1>8, <1>11, <1>12 DEF mv

\* What a custom trimmer returns is a sequence of the entry's bytes, at most
\* one byte longer than the entry.
LEMMA CandidateIs ==
  ASSUME orig_len \in Nat \ {0}, NEW c \in Candidates
  PROVE  c \in Bytes /\ Len(c) \in 0..(orig_len + 1)
<1>1. Original \in Bytes /\ Len(Original) = orig_len
  BY OriginalIs
<1>2. ASSUME NEW a \in 1..orig_len, NEW b \in 0..orig_len
      PROVE  SubSeq(Original, a, b) \in Bytes /\ Len(SubSeq(Original, a, b)) \in 0..(orig_len + 1)
  <2>1. /\ SubSeq(Original, a, b) \in Bytes
        /\ Len(SubSeq(Original, a, b)) = IF a <= b THEN b - a + 1 ELSE 0
    BY <1>1, <1>2, PartOf DEF Bytes
  <2> QED
    BY <2>1
<1>3. Append(Original, 1) \in Bytes /\ Len(Append(Original, 1)) = orig_len + 1
  <2>1. 1 \in 1..orig_len
    OBVIOUS
  <2> QED
    BY <1>1, <2>1, AppendProperties DEF Bytes
<1>4. CASE \E a \in 1..orig_len : c = SubSeq(Original, a, orig_len)
  BY <1>2, <1>4
<1>5. CASE \E b \in 0..orig_len : c = SubSeq(Original, 1, b)
  BY <1>2, <1>5
<1>6. CASE c = Append(Original, 1)
  BY <1>3, <1>6
<1> QED
  BY <1>4, <1>5, <1>6 DEF Candidates

----------------------------------------------------------------------------
(* The actions                                                             *)

\* fuzz_one calls the trimmers with an entry that was read whole.
LEMMA InitIInv == Init => IInv
<1> SUFFICES ASSUME Init PROVE IInv
  OBVIOUS
<1>1. orig_len \in Nat \ {0} /\ TRIM_MIN_BYTES \in Nat \ {0} /\ MaxStage \in Nat /\ MaxShort \in Nat
  BY LengthsAssumption, TrimAssumption DEF Init
<1>2. /\ Original \in Bytes /\ Len(Original) = orig_len
      /\ \A i \in 1..orig_len : Original[i] = i
      /\ SubSeq(Original, 1, orig_len) = Original
  BY <1>1, OriginalIs
<1>3. <<>> \in Bytes /\ Len(<<>>) = 0
  BY EmptySeq DEF Bytes
<1> HIDE DEF Original, Bytes
<1>4. file \in [there : BOOLEAN, bytes : Bytes] /\ file.bytes = Original
  BY <1>2 DEF Init
<1>5. w \in [buf : Bytes, off : Nat, len : 0..(orig_len + 1), written : Nat]
  BY <1>1, <1>3 DEF Init, NoWrite
<1>6. Types
  <2>1. failed \in BOOLEAN /\ stop_soon \in BOOLEAN
    BY Zenon DEF Init
  <2> QED
    BY <1>1, <1>2, <1>3, <1>4, <1>5, <2>1 DEF Init, Types
<1>7. Traces
  BY DEF Init, Traces
<1>8. Buffers
  BY <1>1, <1>2, <1>3 DEF Init, Buffers, Keep, Smaller
<1>9. OnDisk
  BY DEF Init, OnDisk, Whole
<1> QED
  BY <1>6, <1>7, <1>8, <1>9 DEF IInv

\* What a step of the entry's trimming leaves alone.
LEMMA Still ==
  ASSUME UNCHANGED entryVars
  PROVE  /\ orig_len' = orig_len /\ need' = need /\ no_unlink' = no_unlink /\ custom' = custom
         /\ Bytes' = Bytes /\ Original' = Original /\ Whole' = Whole /\ Keep' = Keep
         /\ InPlace' = InPlace
BY DEF entryVars, Bytes, Original, Whole, Keep, InPlace

\* The parts of Types as TypeOK states them.
LEMMA TypesOK == IInv => TypeOK
<1> SUFFICES ASSUME IInv PROVE TypeOK
  OBVIOUS
<1>1. Types /\ Traces
  BY DEF IInv
<1>2. {failed, stop_soon} \subseteq BOOLEAN
  BY <1>1, Zenon DEF Types
<1>3. {clean_trace, scored} \subseteq {"none", "own", "other"}
  BY <1>1 DEF Traces
<1>4. file.bytes \in Bytes /\ w.len \in 0..(orig_len + 1) /\ w.off \in Nat /\ w.written \in Nat
  <2> HIDE DEF Bytes
  <2> QED
    BY <1>1 DEF Types
<1> QED
  BY <1>1, <1>2, <1>3, <1>4 DEF Types, TypeOK

\* A step before the file is touched, or after the trimmers, that changes
\* neither the buffers nor what was accepted or scored.
LEMMA Quiet ==
  ASSUME IInv, Types', Traces',
         UNCHANGED <<entryVars, in_buf, len, out_buf, clean_trace, scored, fileVars, accepted>>,
         \/ pc' = pc
         \/ /\ pc \notin {"open", "write", "close"} /\ pc' \notin {"write", "close"}
            /\ \/ pc \in {"enter", "round", "exec", "custom"}
               \/ pc' \notin {"enter", "round", "exec", "custom", "open"}
  PROVE  IInv'
<1>0. Types /\ Traces /\ Buffers /\ OnDisk
  BY DEF IInv
<1>1. /\ orig_len' = orig_len /\ need' = need /\ no_unlink' = no_unlink /\ custom' = custom
      /\ Bytes' = Bytes /\ Original' = Original /\ Whole' = Whole /\ Keep' = Keep
      /\ InPlace' = InPlace
  BY Still
<1>2. Trimmed' = Trimmed /\ Good' = Good
  BY <1>1 DEF Trimmed, Good, fileVars
<1>3. Buffers'
  BY <1>0, <1>1 DEF Buffers
<1>4. OnDisk'
  <2>1. CASE pc' = pc
    BY <1>0, <1>1, <1>2, <2>1 DEF OnDisk, fileVars
  <2>2. CASE /\ pc \notin {"open", "write", "close"} /\ pc' \notin {"write", "close"}
             /\ \/ pc \in {"enter", "round", "exec", "custom"}
                \/ pc' \notin {"enter", "round", "exec", "custom", "open"}
    BY <1>0, <1>1, <1>2, <2>2 DEF OnDisk, fileVars
  <2> QED
    BY <2>1, <2>2
<1> QED
  BY <1>3, <1>4 DEF IInv

\* Enter: the first size of the gaps.
LEMMA EnterStep == IInv /\ Enter => IInv'
<1> SUFFICES ASSUME IInv, Enter PROVE IInv'
  OBVIOUS
<1>0. Types /\ Traces
  BY DEF IInv
<1>1. /\ len_p2' \in Nat /\ remove_len' \in Nat /\ remove_pos' \in Nat
      /\ pc' \in {"leave", "round"}
  <2>1. CASE len < 5
    BY <1>0, <2>1 DEF Enter, Types, trimVars
  <2>2. CASE ~(len < 5)
    <3>1. next_pow2(len) \in Nat
      BY <1>0, NextPow2 DEF Types
    <3>2. next_pow2(len) \div TRIM_START_STEPS \in Nat
      BY <3>1, TrimAssumption
    <3> QED
      BY <2>2, <3>1, <3>2, TrimAssumption DEF Enter, Larger
  <2> QED
    BY <2>1, <2>2
<1>2. /\ UNCHANGED <<entryVars, in_buf, len, stageVars, fault, trace_bits, clean_trace, scored,
                     fileVars, accepted, stop_soon>>
      /\ pc = "enter" /\ ~custom
  BY DEF Enter
<1>3. Bytes' = Bytes /\ custom' = custom
  BY <1>2, Still
<1>4. Types'
  BY <1>0, <1>1, <1>2, <1>3 DEF Types, entryVars, stageVars, fileVars
<1>5. Traces'
  BY <1>0, <1>1, <1>2, <1>3 DEF Traces
<1> QED
  BY <1>1, <1>2, <1>4, <1>5, Quiet DEF stageVars

\* The head and the end of a round.
LEMMA RoundStep == IInv /\ (Round \/ RoundEnd) => IInv'
<1> SUFFICES ASSUME IInv, Round \/ RoundEnd PROVE IInv'
  OBVIOUS
<1>0. Types /\ Traces /\ TRIM_MIN_BYTES \in Nat \ {0} /\ TRIM_END_STEPS \in Nat \ {0}
  BY TrimAssumption DEF IInv
<1>1. /\ UNCHANGED <<entryVars, in_buf, len, len_p2, stageVars, fault, trace_bits, clean_trace,
                     scored, fileVars, accepted, stop_soon>>
      /\ pc \in {"round", "exec"}
  BY DEF Round, RoundEnd
<1>2. Bytes' = Bytes /\ custom' = custom
  BY <1>1, Still
<1>3. /\ remove_len' \in Nat /\ remove_pos' \in Nat
      /\ pc' \in {"round", "exec", "leave", "open"}
      /\ pc' = "exec" => remove_pos' >= TRIM_MIN_BYTES /\ remove_len' >= TRIM_MIN_BYTES
      /\ pc' = "leave" => clean_trace = "none"
      /\ pc' = "open" => clean_trace # "none"
  <2>1. CASE Round
    <3>1. len_p2 \div TRIM_END_STEPS \in Nat
      BY <1>0 DEF Types
    <3>2. Larger(len_p2 \div TRIM_END_STEPS, TRIM_MIN_BYTES) \in Nat
          /\ Larger(len_p2 \div TRIM_END_STEPS, TRIM_MIN_BYTES) >= TRIM_MIN_BYTES
      BY <1>0, <3>1 DEF Larger
    <3> QED
      BY <1>0, <2>1, <3>2 DEF Round, FirstPos, Types
  <2>2. CASE RoundEnd
    BY <1>0, <2>2 DEF RoundEnd, NextLen, Types
  <2> QED
    BY <2>1, <2>2
<1>4. Types'
  BY <1>0, <1>1, <1>2, <1>3 DEF Types, entryVars, stageVars, fileVars
<1>5. Traces'
  BY <1>0, <1>1, <1>2, <1>3 DEF Traces
<1> QED
  BY <1>1, <1>3, <1>4, <1>5, Quiet DEF stageVars

\* The steps of trim_case_custom that run nothing.
LEMMA CustomStep == IInv /\ (EnterCustom \/ CustomEmpty \/ CustomEnd) => IInv'
<1> SUFFICES ASSUME IInv, EnterCustom \/ CustomEmpty \/ CustomEnd PROVE IInv'
  OBVIOUS
<1>0. Types /\ Traces /\ Buffers /\ MaxStage \in Nat
  BY TrimAssumption DEF IInv
<1>1. /\ UNCHANGED <<entryVars, in_buf, len, trimVars, out_buf, fault, trace_bits, clean_trace,
                     scored, fileVars, accepted, stop_soon>>
      /\ pc \in {"enter", "custom"} /\ custom
  BY <1>0 DEF EnterCustom, CustomEmpty, CustomEnd, stageVars, Traces
<1>2. Bytes' = Bytes /\ custom' = custom
  BY <1>1, Still
<1>3. /\ stage_cur' \in 0..MaxStage /\ stage_max' \in 0..MaxStage
      /\ pc' \in {"custom", "leave", "open"}
      /\ pc' = "leave" => clean_trace = "none"
      /\ pc' = "open" => clean_trace = "own"
  <2>1. CASE EnterCustom
    BY <1>0, <2>1 DEF EnterCustom, Types
  <2>2. CASE CustomEmpty
    BY <1>0, <2>2 DEF CustomEmpty, Types
  <2>3. CASE CustomEnd
    <3>1. clean_trace # "none" => out_buf # <<>>
      BY <1>0, <1>1 DEF Buffers
    <3>2. clean_trace = "none" => out_buf = <<>>
      BY <1>0, <1>1 DEF Buffers
    <3> QED
      BY <1>0, <2>3, <3>1, <3>2 DEF CustomEnd, Types, Traces, stageVars
  <2> QED
    BY <2>1, <2>2, <2>3
<1>4. Types'
  BY <1>0, <1>1, <1>2, <1>3 DEF Types, entryVars, trimVars, fileVars
<1>5. Traces'
  BY <1>0, <1>1, <1>2, <1>3 DEF Traces
<1> QED
  BY <1>1, <1>3, <1>4, <1>5, Quiet

\* The way back to fuzz_one, a stop signal, and a step of somebody else.
LEMMA OuterStep == IInv /\ (Leave \/ HandleStopSig \/ UNCHANGED vars) => IInv'
<1> SUFFICES ASSUME IInv, Leave \/ HandleStopSig \/ UNCHANGED vars PROVE IInv'
  OBVIOUS
<1>0. Types /\ Traces
  BY DEF IInv
<1>1. UNCHANGED <<entryVars, in_buf, len, trimVars, stageVars, fault, trace_bits, clean_trace,
                  scored, fileVars, accepted>>
  BY DEF Leave, HandleStopSig, vars
<1>2. Bytes' = Bytes /\ custom' = custom
  BY <1>1, Still
<1>3. /\ stop_soon' \in BOOLEAN /\ (stop_soon => stop_soon')
      /\ \/ pc' = pc
         \/ /\ pc = "leave" /\ pc' \in {"fatal", "stopped", "done"}
            /\ pc' = "done" => fault # "ERROR" /\ ~stop_soon
  <2>1. CASE Leave
    <3>1. stop_soon' = stop_soon
      BY <2>1 DEF Leave
    <3>2. stop_soon' \in BOOLEAN
      BY <1>0, <3>1 DEF Types
    <3>3. /\ pc = "leave" /\ pc' \in {"fatal", "stopped", "done"}
          /\ pc' = "done" => fault # "ERROR" /\ ~stop_soon
      BY <2>1 DEF Leave
    <3> QED
      BY <3>1, <3>2, <3>3
  <2>2. CASE HandleStopSig
    <3>1. stop_soon' = TRUE /\ pc' = pc
      BY <2>2 DEF HandleStopSig
    <3> QED
      BY <3>1
  <2>3. CASE UNCHANGED vars
    BY <1>0, <2>3 DEF vars, Types
  <2> QED
    BY <2>1, <2>2, <2>3
<1>4. Types'
  BY <1>0, <1>1, <1>2, <1>3 DEF Types, entryVars, trimVars, stageVars, fileVars
<1>5. Traces'
  <2>1. CASE pc' = pc
    BY <1>0, <1>1, <1>2, <1>3, <2>1 DEF Traces, trimVars
  <2>2. CASE /\ pc = "leave" /\ pc' \in {"fatal", "stopped", "done"}
             /\ pc' = "done" => fault # "ERROR" /\ ~stop_soon
    BY <1>0, <1>1, <1>2, <2>2 DEF Traces, trimVars
  <2> QED
    BY <1>3, <2>1, <2>2
<1> QED
  BY <1>1, <1>3, <1>4, <1>5, Quiet DEF stageVars

\* A run of the target with a gap, and the memmove that follows an accepted one.
LEMMA TrimExecStep ==
  ASSUME IInv, NEW t \in {"own", "other"}, NEW f \in {"RAN", "ERROR"}, TrimExec(t, f)
  PROVE  IInv'
<1> DEFINE n == Smaller(remove_len, len - remove_pos)
<1>0. Types /\ Traces /\ Buffers /\ OnDisk /\ TRIM_MIN_BYTES \in Nat \ {0}
  BY TrimAssumption DEF IInv
<1>1. /\ UNCHANGED <<entryVars, remove_len, stageVars, scored, fileVars, stop_soon>>
      /\ pc = "exec" /\ remove_pos < len /\ ~custom /\ scored = "none"
      /\ trace_bits' = t /\ fault' = f
      /\ t = "own" => f # "ERROR"
  BY <1>0 DEF TrimExec, Run, Traces
<1>2. /\ orig_len' = orig_len /\ need' = need /\ no_unlink' = no_unlink /\ custom' = custom
      /\ Bytes' = Bytes /\ Original' = Original /\ Whole' = Whole /\ Keep' = Keep
      /\ InPlace' = InPlace
  BY <1>1, Still
<1>3. /\ n \in Nat /\ n >= 1 /\ remove_pos + n <= len
      /\ remove_pos \in Nat /\ remove_len \in Nat /\ len \in Nat /\ orig_len \in Nat
      /\ remove_pos >= TRIM_MIN_BYTES /\ remove_len >= TRIM_MIN_BYTES
  BY <1>0, <1>1 DEF Types, Traces, Smaller
<1> HIDE DEF n
<1>4. CASE /\ Aborts(f) /\ pc' = "leave"
           /\ UNCHANGED <<in_buf, len, len_p2, remove_pos, clean_trace, accepted>>
  <2>1. Types'
    BY <1>0, <1>1, <1>2, <1>4 DEF Types, entryVars, stageVars, fileVars
  <2>2. Traces'
    BY <1>0, <1>1, <1>2, <1>4 DEF Traces, Aborts
  <2> QED
    BY <1>1, <1>4, <2>1, <2>2, Quiet DEF stageVars
<1>5. CASE /\ ~Aborts(f) /\ remove_pos' = remove_pos + remove_len
           /\ UNCHANGED <<in_buf, len, len_p2, clean_trace, accepted, pc>>
  <2>1. remove_pos' \in Nat /\ remove_pos' >= TRIM_MIN_BYTES /\ f = "RAN"
    BY <1>0, <1>3, <1>5 DEF Aborts
  <2>2. Types'
    BY <1>0, <1>1, <1>2, <1>5, <2>1 DEF Types, entryVars, stageVars, fileVars
  <2>3. Traces'
    BY <1>0, <1>1, <1>2, <1>5, <2>1 DEF Traces
  <2> QED
    BY <1>1, <1>5, <2>2, <2>3, Quiet DEF stageVars
<1>6. CASE /\ ~Aborts(f) /\ t = "own"
           /\ in_buf' = Moved(remove_pos, n) /\ len' = len - n
           /\ len_p2' = next_pow2(len')
           /\ clean_trace' = IF clean_trace = "none" THEN t ELSE clean_trace
           /\ accepted' = WithGap(remove_pos, n)
           /\ UNCHANGED <<remove_pos, pc>>
  <2>1. in_buf \in Seq(1..orig_len) /\ len <= Len(in_buf)
    BY <1>0, <1>1 DEF Types, Buffers, Bytes
  <2>2. /\ in_buf' \in Bytes /\ Len(in_buf') = Len(in_buf)
        /\ accepted' \in Bytes
        /\ SubSeq(in_buf', 1, len') = accepted'
        /\ \A i \in 1..remove_pos : in_buf'[i] = in_buf[i]
    BY <1>3, <1>6, <2>1, GapMoved DEF Bytes
  <2>3. len' \in Nat /\ len' >= remove_pos /\ len' \in 1..(orig_len + 1) /\ len' <= len
    BY <1>0, <1>3, <1>6 DEF Types
  <2>4. len_p2' \in Nat
    BY <1>6, <2>3, NextPow2
  <2>5. clean_trace' = "own" /\ f = "RAN"
    BY <1>0, <1>6 DEF Traces, Aborts
  <2>6. Types'
    BY <1>0, <1>1, <1>2, <1>6, <2>2, <2>3, <2>4 DEF Types, entryVars, stageVars, fileVars
  <2>7. Traces'
    BY <1>0, <1>1, <1>2, <1>6, <2>5 DEF Traces
  <2>8. Buffers'
    <3>1. len' <= Len(in_buf')
      <4>1. Len(in_buf) \in Nat
        BY <2>1, LenProperties
      <4> QED
        BY <1>3, <2>1, <2>2, <2>3, <4>1
    <3>2. Smaller(len, TRIM_MIN_BYTES) = Keep /\ \A i \in 1..Keep : in_buf[i] = i
      BY <1>0, <1>1 DEF Buffers
    <3>3. Smaller(len', TRIM_MIN_BYTES) = Keep /\ Keep <= remove_pos /\ Keep \in Nat
      BY <1>0, <1>3, <2>3, <3>2 DEF Smaller
    <3>4. \A i \in 1..Keep : in_buf'[i] = i
      BY <1>3, <2>2, <3>2, <3>3
    <3> QED
      BY <1>1, <1>2, <2>2, <2>5, <3>1, <3>3, <3>4 DEF Buffers
  <2>9. OnDisk'
    BY <1>0, <1>1, <1>2, <1>6 DEF OnDisk, fileVars
  <2> QED
    BY <2>6, <2>7, <2>8, <2>9 DEF IInv
<1> QED
  BY <1>4, <1>5, <1>6 DEF TrimExec, n

\* A run of the target on what a custom trimmer returned.
LEMMA CustomExecStep ==
  ASSUME IInv, NEW c \in Candidates, NEW t \in {"own", "other"}, NEW f \in {"RAN", "ERROR"},
         CustomExec(c, t, f)
  PROVE  IInv'
<1>0. Types /\ Traces /\ Buffers /\ OnDisk /\ MaxStage \in Nat
  BY TrimAssumption DEF IInv
<1>1. /\ UNCHANGED <<entryVars, in_buf, len, trimVars, stage_max, scored, fileVars, stop_soon>>
      /\ pc = "custom" /\ custom /\ scored = "none" /\ c # <<>>
      /\ trace_bits' = t /\ fault' = f
      /\ t = "own" => f # "ERROR"
  BY <1>0 DEF CustomExec, Run, Traces
<1>2. /\ orig_len' = orig_len /\ need' = need /\ no_unlink' = no_unlink /\ custom' = custom
      /\ Bytes' = Bytes /\ Original' = Original /\ Whole' = Whole /\ Keep' = Keep
      /\ InPlace' = InPlace
  BY <1>1, Still
<1>3. c \in Bytes /\ Len(c) \in 1..(orig_len + 1)
  <2>1. c \in Bytes /\ Len(c) \in 0..(orig_len + 1) /\ orig_len \in Nat
    BY <1>0, CandidateIs DEF Types
  <2>2. Len(c) \in Nat \ {0}
    BY <1>1, <2>1, EmptySeq DEF Bytes
  <2> QED
    BY <2>1, <2>2
<1>4. CASE /\ Aborts(f) /\ pc' = "leave"
           /\ UNCHANGED <<stage_cur, out_buf, clean_trace, accepted>>
  <2>1. Types'
    BY <1>0, <1>1, <1>2, <1>4 DEF Types, entryVars, trimVars, fileVars
  <2>2. Traces'
    BY <1>0, <1>1, <1>2, <1>4 DEF Traces, Aborts
  <2> QED
    BY <1>1, <1>4, <2>1, <2>2, Quiet
<1>5. CASE /\ ~Aborts(f)
           /\ stage_cur' \in (stage_cur + 1)..stage_max
           /\ out_buf' = IF t = "own" THEN c ELSE out_buf
           /\ accepted' = IF t = "own" THEN c ELSE accepted
           /\ clean_trace' = IF t = "own" /\ clean_trace = "none" THEN t ELSE clean_trace
           /\ UNCHANGED pc
  <2>1. f = "RAN" /\ stage_cur' \in 0..MaxStage
    BY <1>0, <1>5 DEF Aborts, Types
  <2>2. Types'
    <3>1. out_buf' \in Bytes /\ accepted' \in Bytes
      BY <1>0, <1>3, <1>5 DEF Types
    <3> QED
      BY <1>0, <1>1, <1>2, <1>5, <2>1, <3>1 DEF Types, entryVars, trimVars, fileVars
  <2>3. Traces'
    BY <1>0, <1>1, <1>2, <1>5, <2>1 DEF Traces
  <2>4. Buffers'
    BY <1>0, <1>1, <1>2, <1>3, <1>5 DEF Buffers, Traces
  <2>5. OnDisk'
    BY <1>0, <1>1, <1>2, <1>5 DEF OnDisk, fileVars
  <2> QED
    BY <2>2, <2>3, <2>4, <2>5 DEF IInv
<1> QED
  BY <1>4, <1>5 DEF CustomExec

\* What is about to be written is what was accepted.
LEMMA TrimmedIs ==
  ASSUME IInv, clean_trace = "own", scored = "none"
  PROVE  Trimmed = accepted /\ Trimmed \in Bytes /\ Len(Trimmed) \in 1..(orig_len + 1)
         /\ (~custom => Len(Trimmed) = len)
<1>0. Types /\ Buffers
  BY DEF IInv
<1>1. CASE custom
  BY <1>0, <1>1 DEF Types, Buffers, Trimmed
<1>2. CASE ~custom
  <2>1. in_buf \in Bytes /\ len \in Nat /\ len <= Len(in_buf) /\ len \in 1..(orig_len + 1)
    BY <1>0, <1>2 DEF Types, Buffers
  <2>2. SubSeq(in_buf, 1, len) \in Bytes /\ Len(SubSeq(in_buf, 1, len)) = len
    BY <2>1, Prefix DEF Bytes
  <2>3. Trimmed = SubSeq(in_buf, 1, len) /\ Trimmed = accepted
    BY <1>0, <1>2 DEF Trimmed, Buffers
  <2> QED
    BY <1>2, <2>1, <2>2, <2>3
<1> QED
  BY <1>1, <1>2

\* The file is truncated, or removed and made anew.
LEMMA OpenStep == IInv /\ Open => IInv'
<1> SUFFICES ASSUME IInv, Open PROVE IInv'
  OBVIOUS
<1>0. Types /\ Traces /\ Buffers /\ OnDisk
  BY DEF IInv
<1>1. /\ UNCHANGED <<entryVars, in_buf, len, trimVars, stageVars, fault, trace_bits, clean_trace,
                     scored, short, failed, accepted, stop_soon>>
      /\ pc = "open" /\ clean_trace = "own" /\ scored = "none" /\ short = 0 /\ ~failed
  BY <1>0 DEF Open, Traces, OnDisk
<1>2. /\ orig_len' = orig_len /\ need' = need /\ no_unlink' = no_unlink /\ custom' = custom
      /\ Bytes' = Bytes /\ Original' = Original /\ Whole' = Whole /\ Keep' = Keep
      /\ InPlace' = InPlace
  BY <1>1, Still
<1>3. Trimmed' = Trimmed
  BY <1>1, <1>2 DEF Trimmed, stageVars
<1>4. Trimmed \in Bytes /\ Len(Trimmed) \in 1..(orig_len + 1)
  BY <1>1, TrimmedIs
<1>5. <<>> \in Bytes /\ SubSeq(Trimmed, 1, 0) = <<>>
  BY EmptySeq, SubSeqEmpty DEF Bytes
<1>6. /\ StartWrite = [buf |-> Trimmed, off |-> 0, len |-> Len(Trimmed), written |-> 0]
      /\ StartWrite \in [buf : Bytes, off : Nat, len : 0..(orig_len + 1), written : Nat]
  <2> HIDE DEF Bytes, Trimmed
  <2>1. StartWrite = [buf |-> Trimmed, off |-> 0, len |-> Len(Trimmed), written |-> 0]
    BY DEF StartWrite
  <2> QED
    BY <1>0, <1>4, <2>1 DEF Types
<1> HIDE DEF Bytes, Trimmed, StartWrite
<1>7. CASE file' = [there |-> TRUE, bytes |-> <<>>] /\ w' = StartWrite /\ pc' = "write"
  <2>1. file' \in [there : BOOLEAN, bytes : Bytes]
    BY <1>5, <1>7
  <2>2. Types'
    BY <1>0, <1>1, <1>2, <1>6, <1>7, <2>1 DEF Types, entryVars, trimVars, stageVars
  <2>3. Traces'
    BY <1>0, <1>1, <1>2, <1>7 DEF Traces
  <2>4. Buffers'
    BY <1>0, <1>1, <1>2 DEF Buffers, stageVars
  <2>5. OnDisk'
    <3>1. /\ file'.there /\ file'.bytes = <<>> /\ w'.buf = Trimmed /\ w'.off = 0
          /\ w'.written = 0 /\ w'.len = Len(Trimmed)
      BY <1>6, <1>7
    <3>2. w'.len = Len(w'.buf) - w'.off /\ w'.len >= 1 /\ w'.written = w'.off
          /\ file'.bytes = SubSeq(w'.buf, 1, w'.off)
      BY <1>0, <1>4, <1>5, <3>1 DEF Types
    <3> QED
      BY <1>1, <1>3, <1>7, <3>1, <3>2 DEF OnDisk
  <2> QED
    BY <2>2, <2>3, <2>4, <2>5 DEF IInv
<1>8. CASE file' = [there |-> FALSE, bytes |-> <<>>] /\ UNCHANGED <<w, pc>>
  <2>1. file' \in [there : BOOLEAN, bytes : Bytes]
    BY <1>5, <1>8
  <2>2. Types'
    BY <1>0, <1>1, <1>2, <1>8, <2>1 DEF Types, entryVars, trimVars, stageVars
  <2>3. Traces'
    BY <1>0, <1>1, <1>2, <1>8 DEF Traces
  <2>4. Buffers'
    BY <1>0, <1>1, <1>2 DEF Buffers, stageVars
  <2>5. OnDisk'
    BY <1>0, <1>1, <1>8 DEF OnDisk
  <2> QED
    BY <2>2, <2>3, <2>4, <2>5 DEF IInv
<1> QED
  BY <1>7, <1>8 DEF Open

\* One write.  What is in the file is a prefix of the buffer as long as no
\* write failed and at most one was cut short, none in place; the last one
\* then completes it.
LEMMA WriteStep ==
  ASSUME IInv, NEW res \in Int, Write(res)
  PROVE  IInv'
<1> DEFINE n == IF res > 0 THEN res ELSE 0
<1>0. Types /\ Traces /\ Buffers /\ OnDisk /\ MaxShort \in Nat
  BY TrimAssumption DEF IInv
<1>1. /\ UNCHANGED <<entryVars, in_buf, len, trimVars, stageVars, fault, trace_bits, clean_trace,
                     scored, accepted, stop_soon>>
      /\ pc = "write" /\ clean_trace = "own" /\ scored = "none"
  BY <1>0 DEF Write, Traces
<1>2. /\ orig_len' = orig_len /\ need' = need /\ no_unlink' = no_unlink /\ custom' = custom
      /\ Bytes' = Bytes /\ Original' = Original /\ Whole' = Whole /\ Keep' = Keep
      /\ InPlace' = InPlace
  BY <1>1, Still
<1>3. Trimmed' = Trimmed
  BY <1>1, <1>2 DEF Trimmed, stageVars
<1>4. Trimmed \in Bytes /\ Len(Trimmed) \in 1..(orig_len + 1) /\ Len(Trimmed) \in Nat
  BY <1>0, <1>1, TrimmedIs DEF Types
<1>5. /\ file.there /\ w.buf = Trimmed /\ w.written = w.off
      /\ w.len = Len(Trimmed) - w.off /\ w.len >= 1 /\ w.len \in Nat /\ w.off \in Nat
      /\ ~failed /\ short = 0 => w.off = 0
      /\ Good => file.bytes = SubSeq(Trimmed, 1, w.off)
      /\ file.bytes \in Bytes
  <2> HIDE DEF Bytes, Trimmed
  <2> QED
    BY <1>0, <1>1 DEF Types, OnDisk
<1>6. /\ res \in 1..w.len \/ res = -1
      /\ res \in 1..(w.len - 1) => short < MaxShort
      /\ short' = IF res \in 1..(w.len - 1) THEN short + 1 ELSE short
      /\ failed' = (failed \/ res = -1)
      /\ file' = [file EXCEPT !.bytes = @ \o SubSeq(w.buf, WriteFrom + 1, WriteFrom + n)]
      /\ IF WritesOn(res)
         THEN w' = [w EXCEPT !.written = @ + n, !.off = @ + n, !.len = @ - n] /\ pc' = pc
         ELSE w' = NoWrite /\ pc' = "close"
  BY DEF Write
<1> DEFINE part == SubSeq(Trimmed, WriteFrom + 1, WriteFrom + n)
<1>7. WriteFrom \in Nat /\ n \in Nat /\ WriteFrom + n <= Len(Trimmed) /\ n <= w.len
  BY <1>4, <1>5, <1>6 DEF WriteFrom
<1>8. part \in Bytes
  <2>1. WriteFrom + 1 \in Nat \ {0} /\ WriteFrom + n \in Nat
    BY <1>7
  <2> HIDE DEF n
  <2> QED
    BY <1>4, <1>7, <2>1, PartOf DEF Bytes
<1>9. file'.bytes = file.bytes \o part /\ file'.there = file.there
      /\ file' \in [there : BOOLEAN, bytes : Bytes]
  <2>1. file.bytes \o part \in Bytes
    BY <1>5, <1>8, ConcatProperties DEF Bytes
  <2> HIDE DEF Bytes, Trimmed, part
  <2>2. file' = [file EXCEPT !.bytes = @ \o part]
    BY <1>5, <1>6 DEF part
  <2>3. file \in [there : BOOLEAN, bytes : Bytes]
    BY <1>0 DEF Types
  <2> DEFINE new == file.bytes \o part
  <2>4. file' = [file EXCEPT !.bytes = new] /\ new \in Bytes
    BY <2>1, <2>2
  <2> HIDE DEF new
  <2>5. file'.bytes = new /\ file'.there = file.there
        /\ file' \in [there : BOOLEAN, bytes : Bytes]
    BY <2>3, <2>4
  <2> QED
    BY <2>5 DEF new
<1>10. short \in Nat /\ short' \in 0..MaxShort /\ failed' \in BOOLEAN
  <2>1. short' \in 0..MaxShort /\ short \in Nat
    BY <1>0, <1>6 DEF Types
  <2>2. failed' \in BOOLEAN
    BY <1>6, Zenon
  <2> QED
    BY <2>1, <2>2
<1>11. w' \in [buf : Bytes, off : Nat, len : 0..(orig_len + 1), written : Nat]
  <2> HIDE DEF Bytes, n
  <2>1. CASE WritesOn(res)
    <3>1. w' = [w EXCEPT !.written = @ + n, !.off = @ + n, !.len = @ - n]
      BY <1>6, <2>1
    <3>2. w.written + n \in Nat /\ w.off + n \in Nat /\ w.len - n \in 0..(orig_len + 1)
      BY <1>0, <1>5, <1>7 DEF Types
    <3> QED
      BY <1>0, <3>1, <3>2 DEF Types
  <2>2. CASE ~WritesOn(res)
    <3>1. w' = NoWrite /\ <<>> \in Bytes
      BY <1>6, <2>2, EmptySeq DEF Bytes
    <3> QED
      BY <1>0, <3>1 DEF NoWrite, Types
  <2> QED
    BY <2>1, <2>2
<1>12. Types'
  <2>1. pc' \in {"write", "close"}
    BY <1>1, <1>6
  <2> HIDE DEF Bytes, n, part
  <2> QED
    BY <1>0, <1>1, <1>2, <1>9, <1>10, <1>11, <2>1 DEF Types, entryVars, trimVars, stageVars
<1>13. Traces'
  BY <1>0, <1>1, <1>2, <1>6 DEF Traces
<1>14. Buffers'
  BY <1>0, <1>1, <1>2 DEF Buffers, stageVars
\* When all is well the old prefix and the new part make a longer prefix.
<1>15. ASSUME Good'
       PROVE  /\ file'.bytes = SubSeq(Trimmed, 1, w.off + n)
              /\ ~WritesOn(res) => w.off + n = Len(Trimmed)
  <2>0. SubSeq(Trimmed, 1, w.off) \o SubSeq(Trimmed, w.off + 1, w.off + n)
          = SubSeq(Trimmed, 1, w.off + n)
    <3>1. w.off \in Nat /\ n \in Nat /\ w.off + n <= Len(Trimmed)
      BY <1>4, <1>5, <1>7
    <3> DEFINE S == 1..orig_len
    <3>2. Trimmed \in Seq(S)
      BY <1>4 DEF Bytes
    <3> HIDE DEF n, S
    <3> QED
      BY <3>1, <3>2, Longer
  <2>1. ~failed /\ res # -1 /\ short' <= (IF InPlace THEN 0 ELSE 1)
    BY <1>2, <1>6, <1>15 DEF Good
  <2>2. res \in 1..w.len /\ n = res
    BY <1>6, <2>1
  <2>3. short <= short' /\ Good
    BY <1>6, <1>10, <2>1 DEF Good
  <2>4. file.bytes = SubSeq(Trimmed, 1, w.off)
    BY <1>5, <2>3
  <2>5. CASE InPlace
    <3>1. short' = 0 /\ short = 0 /\ w.off = 0 /\ res = w.len
      BY <1>5, <1>6, <1>10, <2>1, <2>2, <2>5
    <3>2. WriteFrom = w.off
      BY <2>5, <3>1 DEF WriteFrom
    <3>3. w.off + n = Len(Trimmed)
      BY <1>4, <1>5, <2>2, <3>1
    <3> QED
      BY <1>9, <2>0, <2>4, <3>2, <3>3
  <2>6. CASE ~InPlace
    <3>1. WriteFrom = w.off
      BY <2>6 DEF WriteFrom
    <3>2. ~WritesOn(res) => w.off + n = Len(Trimmed)
      <4>1. CASE res = w.len
        BY <1>4, <1>5, <2>2, <4>1
      <4>2. CASE res # w.len
        <5>1. short' = 1 /\ short = 0 /\ w.off = 0
          BY <1>5, <1>6, <1>10, <2>1, <2>2, <2>6, <4>2
        <5>2. WritesOn(res)
          BY <1>5, <2>2, <2>6, <4>2, <5>1 DEF WritesOn
        <5> QED
          BY <5>2
      <4> QED
        BY <4>1, <4>2
    <3> QED
      BY <1>9, <2>0, <2>4, <3>1, <3>2
  <2> QED
    BY <2>5, <2>6
<1>16. OnDisk'
  <2> HIDE DEF Trimmed, part, Bytes
  <2>1. CASE WritesOn(res)
    <3>1. w' = [w EXCEPT !.written = @ + n, !.off = @ + n, !.len = @ - n] /\ pc' = "write"
      BY <1>1, <1>6, <2>1
    <3>2. w'.buf = Trimmed /\ w'.written = w.off + n /\ w'.off = w.off + n /\ w'.len = w.len - n
      <4> HIDE DEF n
      <4> QED
        BY <1>0, <1>5, <3>1 DEF Types
    <3>3. w'.len >= 1
      <4>1. CASE InPlace
        BY <1>4, <1>5, <1>6, <2>1, <3>2, <4>1 DEF WritesOn
      <4>2. CASE ~InPlace
        BY <1>4, <1>5, <1>6, <2>1, <3>2, <4>2 DEF WritesOn
      <4> QED
        BY <4>1, <4>2
    <3>4. ~failed' /\ short' = 0 => w'.off = 0
      <4>1. ASSUME ~failed', short' = 0 PROVE w'.off = 0
        <5>1. res # -1 /\ res \notin 1..(w.len - 1)
          <6>1. failed' = (failed \/ res = -1)
            BY <1>6
          <6>2. res # -1
            BY <4>1, <6>1, Zenon
          <6> QED
            BY <1>6, <1>10, <4>1, <6>2
        <5>2. res = w.len
          BY <1>5, <1>6, <5>1
        <5>3. FALSE
          BY <1>5, <3>2, <3>3, <5>2
        <5> QED
          BY <5>3
      <4> QED
        BY <4>1
    <3>5. w'.len = Len(w'.buf) - w'.off /\ w'.written = w'.off
      BY <1>4, <1>5, <1>7, <3>2
    <3>6. Good' => file'.bytes = SubSeq(w'.buf, 1, w'.off)
      BY <1>15, <3>2
    <3> QED
      BY <1>1, <1>3, <1>5, <1>9, <3>1, <3>2, <3>3, <3>4, <3>5, <3>6 DEF OnDisk
  <2>2. CASE ~WritesOn(res)
    <3>1. pc' = "close" /\ file'.there
      BY <1>5, <1>6, <1>9, <2>2
    <3>2. Good' => file'.bytes = Trimmed
      <4>1. SubSeq(Trimmed, 1, Len(Trimmed)) = Trimmed
        BY <1>4, SubSeqFull DEF Bytes
      <4> QED
        BY <1>15, <2>2, <4>1
    <3> QED
      BY <1>1, <1>3, <3>1, <3>2 DEF OnDisk
  <2> QED
    BY <2>1, <2>2
<1> QED
  BY <1>12, <1>13, <1>14, <1>16 DEF IInv

\* The end of trimming: the entry is scored and its cached copy renewed.
LEMMA CloseStep == IInv /\ Close => IInv'
<1> SUFFICES ASSUME IInv, Close PROVE IInv'
  OBVIOUS
<1>0. Types /\ Traces /\ Buffers /\ OnDisk
  BY DEF IInv
<1>1. /\ UNCHANGED <<entryVars, trimVars, stageVars, fault, clean_trace, fileVars, accepted,
                     stop_soon>>
      /\ pc = "close" /\ clean_trace = "own" /\ scored = "none"
      /\ trace_bits' = "own" /\ scored' = "own" /\ len' = Len(Trimmed)
  BY <1>0 DEF Close, Rescored, Traces
<1>2. /\ orig_len' = orig_len /\ need' = need /\ no_unlink' = no_unlink /\ custom' = custom
      /\ Bytes' = Bytes /\ Original' = Original /\ Whole' = Whole /\ Keep' = Keep
      /\ InPlace' = InPlace
  BY <1>1, Still
<1>3. /\ Trimmed = accepted /\ Trimmed \in Bytes /\ Len(Trimmed) \in 1..(orig_len + 1)
      /\ ~custom => Len(Trimmed) = len
  BY <1>1, TrimmedIs
<1>4. SubSeq(Trimmed, 1, Len(Trimmed)) = Trimmed /\ Len(Trimmed) \in Nat
  BY <1>3, SubSeqFull, LenProperties DEF Bytes
<1>5. file.there /\ file.bytes \in Bytes /\ (Good => file.bytes = accepted) /\ Good' = Good
  <2> HIDE DEF Bytes
  <2> QED
    BY <1>0, <1>1, <1>2, <1>3 DEF Types, OnDisk, Good, fileVars
<1>6. CASE custom /\ Len(file.bytes) < len' /\ pc' = "fatal" /\ UNCHANGED in_buf
  <2>1. Types'
    BY <1>0, <1>1, <1>2, <1>3, <1>6 DEF Types, entryVars, trimVars, stageVars, fileVars
  <2>2. Traces'
    BY <1>0, <1>1, <1>2, <1>6 DEF Traces
  <2>3. Buffers'
    BY <1>0, <1>1, <1>2, <1>6 DEF Buffers, stageVars
  <2>4. ~Good
    BY <1>1, <1>3, <1>4, <1>5, <1>6
  <2>5. OnDisk'
    BY <1>1, <1>5, <1>6, <2>4 DEF OnDisk
  <2> QED
    BY <2>1, <2>2, <2>3, <2>5 DEF IInv
<1>7. CASE /\ pc' = "leave"
           /\ IF custom THEN ~(Len(file.bytes) < len') /\ in_buf' = SubSeq(file.bytes, 1, len')
              ELSE in_buf' = Trimmed
  <2>1. /\ in_buf' \in Bytes
        /\ Good \/ ~custom => SubSeq(in_buf', 1, len') = accepted
    <3>1. CASE custom
      <4>1. len' \in Nat /\ len' <= Len(file.bytes)
        <5>1. Len(file.bytes) \in Nat
          BY <1>5, LenProperties DEF Bytes
        <5> QED
          BY <1>1, <1>4, <1>7, <3>1, <5>1
      <4>2. SubSeq(file.bytes, 1, len') \in Bytes
        BY <1>5, <4>1, Prefix DEF Bytes
      <4>3. Good => SubSeq(file.bytes, 1, len') = accepted
        BY <1>1, <1>3, <1>4, <1>5
      <4>4. Good => SubSeq(accepted, 1, len') = accepted
        BY <1>1, <1>3, <1>4
      <4> QED
        BY <1>7, <3>1, <4>2, <4>3, <4>4
    <3>2. CASE ~custom
      BY <1>1, <1>3, <1>4, <1>7, <3>2
    <3> QED
      BY <3>1, <3>2
  <2>2. Types'
    BY <1>0, <1>1, <1>2, <1>3, <1>7, <2>1 DEF Types, entryVars, trimVars, stageVars, fileVars
  <2>3. Traces'
    BY <1>0, <1>1, <1>2, <1>7 DEF Traces
  <2>4. Buffers'
    <3>1. CASE custom
      BY <1>0, <1>1, <1>2, <3>1 DEF Buffers, stageVars
    <3>2. CASE ~custom
      <4>1. len' = len /\ len' <= Len(in_buf') /\ SubSeq(in_buf', 1, len') = accepted'
        BY <1>1, <1>3, <1>4, <1>7, <2>1, <3>2
      <4>2. Smaller(len, TRIM_MIN_BYTES) = Keep /\ \A i \in 1..Keep : in_buf[i] = i
        BY <1>0, <3>2 DEF Buffers
      <4>3. \A i \in 1..Keep : in_buf'[i] = in_buf[i]
        <5>1. /\ in_buf \in Bytes /\ len <= Len(in_buf) /\ len \in Nat
              /\ in_buf' = SubSeq(in_buf, 1, len)
          BY <1>0, <1>7, <3>2 DEF Types, Buffers, Trimmed
        <5>2. \A i \in 1..len : SubSeq(in_buf, 1, len)[i] = in_buf[i]
          BY <5>1, PrefixAt DEF Bytes
        <5>3. \A i \in 1..Keep : i \in 1..len
          BY <4>2, <5>1, TrimAssumption DEF Smaller
        <5> QED
          BY <5>1, <5>2, <5>3
      <4> QED
        BY <1>1, <1>2, <3>2, <4>1, <4>2, <4>3 DEF Buffers
    <3> QED
      BY <3>1, <3>2
  <2>5. OnDisk'
    <3>1. Good => file = [there |-> TRUE, bytes |-> accepted]
      <4> HIDE DEF Bytes
      <4>1. file.there = TRUE
        BY <1>0, <1>5 DEF Types
      <4> QED
        BY <1>0, <1>5, <4>1 DEF Types
    <3> QED
      BY <1>1, <1>5, <1>7, <2>1, <3>1 DEF OnDisk, fileVars
  <2> QED
    BY <2>2, <2>3, <2>4, <2>5 DEF IInv
<1> QED
  BY <1>6, <1>7 DEF Close

\* Every step of the trimmers keeps the invariant.
LEMMA NextIInv == IInv /\ [Next]_vars => IInv'
<1> SUFFICES ASSUME IInv, [Next]_vars PROVE IInv'
  OBVIOUS
<1>1. CASE \E t \in {"own", "other"}, f \in {"RAN", "ERROR"} :
             TrimExec(t, f) \/ \E c \in Candidates : CustomExec(c, t, f)
  BY <1>1, TrimExecStep, CustomExecStep
<1>2. CASE \E res \in -1..(orig_len + 1) : Write(res)
  BY <1>2, WriteStep
<1> QED
  BY <1>1, <1>2, EnterStep, RoundStep, CustomStep, OuterStep, OpenStep, CloseStep DEF Next, Step

\* The invariant holds throughout.
LEMMA Invariance == Spec => []IInv
BY InitIInv, NextIInv, PTL DEF Spec

----------------------------------------------------------------------------
(* Theorems                                                                *)

\* After any number of accepted gaps, of any sizes, the first q->len bytes of
\* the buffer that trim_case has moved about are the input that was last run
\* and accepted, and the first TRIM_MIN_BYTES of the entry are untouched.
THEOREM BufferIsAccepted == Spec => []KeptIsAccepted
<1>1. IInv => KeptIsAccepted
  <2> SUFFICES ASSUME IInv, ~custom
               PROVE  /\ SubSeq(in_buf, 1, len) = accepted
                      /\ SubSeq(in_buf, 1, Smaller(len, TRIM_MIN_BYTES))
                           = SubSeq(Original, 1, Smaller(orig_len, TRIM_MIN_BYTES))
    BY TypesOK DEF KeptIsAccepted
  <2>1. /\ Types /\ len <= Len(in_buf) /\ SubSeq(in_buf, 1, len) = accepted
        /\ Smaller(len, TRIM_MIN_BYTES) = Keep /\ \A i \in 1..Keep : in_buf[i] = i
    BY DEF IInv, Buffers
  <2>2. /\ in_buf \in Bytes /\ Original \in Bytes /\ Len(Original) = orig_len
        /\ \A i \in 1..orig_len : Original[i] = i
        /\ Keep \in Nat /\ Keep <= orig_len /\ Keep <= len /\ orig_len \in Nat /\ len \in Nat
    <3>1. orig_len \in Nat /\ len \in Nat /\ in_buf \in Bytes
      BY <2>1 DEF Types
    <3>2. Keep \in Nat /\ Keep <= orig_len /\ Keep <= len
      BY <2>1, <3>1, TrimAssumption DEF Keep, Smaller
    <3> QED
      BY <3>1, <3>2, OriginalIs
  <2> HIDE DEF Keep, Original
  <2>3. Keep <= Len(in_buf)
    <3>1. Len(in_buf) \in Nat
      BY <2>2, LenProperties DEF Bytes
    <3> QED
      BY <2>1, <2>2, <3>1
  <2> DEFINE a == SubSeq(in_buf, 1, Keep)
             b == SubSeq(Original, 1, Keep)
  <2>4. a \in Bytes /\ Len(a) = Keep /\ \A i \in 1..Keep : a[i] = in_buf[i]
    BY <2>2, <2>3, Prefix, PrefixAt DEF Bytes
  <2>5. b \in Bytes /\ Len(b) = Keep /\ \A i \in 1..Keep : b[i] = Original[i]
    BY <2>2, Prefix, PrefixAt DEF Bytes
  <2>6. \A i \in 1..Keep : in_buf[i] = Original[i]
    BY <2>1, <2>2
  <2>7. a = b
    <3> HIDE DEF a, b
    <3>1. Len(a) = Len(b) /\ \A i \in 1..Len(a) : a[i] = b[i]
      BY <2>4, <2>5, <2>6
    <3> QED
      BY <2>4, <2>5, <3>1, SeqEqual DEF Bytes
  <2> QED
    BY <2>1, <2>7 DEF Keep
<1> QED
  BY <1>1, Invariance, PTL

\* update_bitmap_score after a trim gets the trace of an accepted run, never
\* the one the last run left in trace_bits, and is called only if there is one.
THEOREM ScoreIsOwn == Spec => []ScoredOwn
<1>1. IInv => ScoredOwn
  BY DEF IInv, Traces, ScoredOwn
<1> QED
  BY <1>1, Invariance, PTL

\* Trimming that ends leaves file, cached copy and length of the accepted
\* input, as long as no write failed and at most one was cut short (none with
\* AFL_NO_UNLINK); trimming that is aborted leaves the file alone.
THEOREM FileStaysWhole == Spec => []FileWhole
<1>1. IInv => FileWhole
  <2> SUFFICES ASSUME IInv PROVE FileWhole
    OBVIOUS
  <2>0. Types /\ Traces /\ Buffers /\ OnDisk
    BY DEF IInv
  <2>1. ASSUME pc = "done", Good
        PROVE  file = [there |-> TRUE, bytes |-> accepted] /\ SubSeq(in_buf, 1, len) = accepted
    <3>1. CASE scored = "own"
      BY <2>0, <2>1, <3>1 DEF OnDisk
    <3>2. CASE scored = "none"
      <4>1. clean_trace = "none" /\ accepted = Original /\ file = Whole
        BY <2>0, <2>1, <3>2 DEF Traces, Buffers, OnDisk
      <4>2. SubSeq(in_buf, 1, len) = accepted
        <5>1. SubSeq(Original, 1, orig_len) = Original
          BY <2>0, OriginalIs DEF Types
        <5> QED
          BY <2>0, <3>2, <4>1, <5>1 DEF Buffers
      <4> QED
        BY <4>1, <4>2 DEF Whole
    <3> QED
      BY <2>0, <3>1, <3>2 DEF Traces
  <2>2. pc \in {"stopped", "fatal"} /\ scored = "none" => file = Whole
    BY <2>0 DEF OnDisk
  <2> QED
    BY <2>1, <2>2 DEF FileWhole, Good, Whole
<1> QED
  BY <1>1, Invariance, PTL

=============================================================================
