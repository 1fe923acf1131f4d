---------------------------- MODULE CoverageMap ----------------------------
(***************************************************************************)
(* The coverage map of afl-fuzz and the pure functions on it: hit-count    *)
(* classification, simplification, has_new_bits and IgorFuzz's             *)
(* has_few_bits.  An edge is one byte of the shared map.  A trace maps     *)
(* every edge to a byte; a virgin map gives, for every edge, the set of    *)
(* bits still set in its virgin byte, so Virgin (0xff) is all of them and  *)
(* {} is the byte 0.                                                       *)
(***************************************************************************)
EXTENDS Integers, FiniteSets, FiniteSetsExt

CONSTANTS
  Edges,      \* the bytes of the map (real_map_size = map_size)
  WordOf,     \* the machine word each byte lies in
  Lane,       \* 0 for the low, 1 for the high byte of a 16-bit half word
  UintMax     \* UINT32_MAX and UINT64_MAX: above every count of the map

Byte == 0..255
Trace == [Edges -> Byte]

\* A byte has eight bits; a classified byte is one of them or 0.
Bit == {1, 2, 4, 8, 16, 32, 64, 128}
BitsOf(b) == {c \in Bit : (b \div c) % 2 = 1}

Virgin == Bit
VirginMap == [Edges -> SUBSET Bit]

ASSUME EdgesAssumption == IsFiniteSet(Edges)
ASSUME LaneAssumption == Lane \in [Edges -> {0, 1}]
ASSUME UintMaxAssumption ==
  UintMax \in Nat /\ UintMax > 65535 * Cardinality(Edges)

----------------------------------------------------------------------------
(* Classification of hit counts.                                           *)

count_class_lookup8(n) ==
  CASE n = 0 -> 0
    [] n = 1 -> 1
    [] n = 2 -> 2
    [] n = 3 -> 4
    [] n \in 4..7 -> 8
    [] n \in 8..15 -> 16
    [] n \in 16..31 -> 32
    [] n \in 32..127 -> 64
    [] n \in 128..255 -> 128

classify_counts(t) == [e \in Edges |-> count_class_lookup8(t[e])]

\* actual_counts: 16-bit halves are added up, so a byte in the high lane of
\* its half counts 256 times its hits.
sum_word(t) ==
  LET hits == [e \in Edges |-> t[e] * (IF Lane[e] = 1 THEN 256 ELSE 1)]
  IN  MapThenSumSet(LAMBDA e : hits[e], Edges)

simplify_trace(t) == [e \in Edges |-> IF t[e] = 0 THEN 1 ELSE 128]

HitEdges(t) == {e \in Edges : t[e] # 0}
count_bytes(t) == Cardinality(HitEdges(t))

----------------------------------------------------------------------------
(* Comparison of a trace with a virgin map.                                *)

\* The edges some earlier trace has touched: virgin byte is not 0xff.
Touched(v) == {e \in Edges : v[e] # Virgin}

\* Edges whose current bits are not all cleared from the virgin map.
Fresh(t, v) == {e \in Edges : BitsOf(t[e]) \cap v[e] # {}}

has_new_bits(t, v) ==
  [ret    |-> IF \E e \in Edges : t[e] # 0 /\ v[e] = Virgin THEN 2
              ELSE IF Fresh(t, v) # {} THEN 1 ELSE 0,
   virgin |-> [e \in Edges |-> v[e] \ BitsOf(t[e])]]

\* MUTANT of Lost: the guard vir != 0xff is dropped.
Lost_Unguarded(t, v) == Edges \ HitEdges(t)

\* Touched edges that this trace no longer hits.
Lost(t, v) == Touched(v) \ HitEdges(t)

\* Some word that holds a touched byte has bits not seen before.
FreshTouchedWord(t, v) ==
  \E e \in Touched(v), f \in Fresh(t, v) : WordOf[e] = WordOf[f]

Flag(b) == IF b THEN 1 ELSE 0

\* The result once a testcase matrix exists, in 16..23 (0x10..0x17).
DecreaseCode(t, v, counts, minSize, minCounts) ==
  16 + 4 * Flag(count_bytes(t) < minSize)
     + 2 * Flag(Lost(t, v) # {})
     +     Flag(FreshTouchedWord(t, v) /\ counts < minCounts)

\* MUTANT of ForgetLost: the virgin map is not written back.
ForgetLost_Kept(t, v) == v

\* Touched edges that disappeared become virgin again.
ForgetLost(t, v) == [e \in Edges |-> IF e \in Lost(t, v) THEN Virgin ELSE v[e]]

has_few_bits(matrix, t, v, counts, minSize, minCounts) ==
  IF matrix
  THEN [ret    |-> DecreaseCode(t, v, counts, minSize, minCounts),
        virgin |-> ForgetLost(t, v)]
  ELSE has_new_bits(t, v)

\* few_bits & 0x02
CovBit(code) == (code \div 2) % 2 = 1

=============================================================================
