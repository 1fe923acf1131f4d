----------------------------- MODULE AliasTable -----------------------------
(***************************************************************************)
(* Weighted choice of the next queue entry: create_alias_table,            *)
(* select_next_queue_entry and the part of the main loop that decides when *)
(* the table is made anew.                                                 *)
(*                                                                         *)
(* Probabilities are kept in units of 1/sum, so that all numbers are whole *)
(* and the algorithm is exact; rounding is not modelled.  compute_weight   *)
(* and calculate_score give any positive weight, a new one for each table; *)
(* a disabled entry has weight 0.  fuzz_one and sync_fuzzers are reduced   *)
(* to the entries they add.                                                *)
(***************************************************************************)
EXTENDS Integers, Sequences, SequencesExt

CONSTANTS
  MaxItems,       \* bound: entries of the queue
  Weights,        \* weights that an entry may get
  INTROSPECTION   \* the build counts the finds of each entry

ASSUME AliasAssumption ==
  /\ MaxItems \in Nat \ {0} /\ Weights \subseteq Nat \ {0} /\ INTROSPECTION \in BOOLEAN

VARIABLES
  queued_items, disabled, prev_queued_items, reinit_table,
  apc,                 \* where in the loop
  weight, sum, P,      \* as create_alias_table computes them
  S, L,                \* its two stacks
  alias_table, alias_probability,
  current_entry,
  p_one                \* the last number drawn was 1.0

tableVars == <<weight, sum, P, S, L, alias_table, alias_probability>>
aliasVars == <<queued_items, disabled, prev_queued_items, reinit_table, apc, tableVars,
              current_entry, p_one>>

Items(n) == 0..(n - 1)
Enabled == Items(queued_items) \ disabled

\* After the dry run: some seeds, at least one of them enabled.
AliasInit ==
  /\ queued_items \in 1..MaxItems
  /\ disabled \in SUBSET Items(queued_items) /\ disabled # Items(queued_items)
  /\ prev_queued_items = 0 /\ reinit_table = FALSE /\ apc = "loop"
  /\ weight = <<>> /\ sum = 0 /\ P = <<>> /\ S = <<>> /\ L = <<>>
  /\ alias_table = <<>> /\ alias_probability = <<>>
  /\ current_entry = 0 /\ p_one = FALSE

----------------------------------------------------------------------------
(* create_alias_table                                                      *)

\* MUTANT of TableStale: only the flag is looked at.
TableStale_Flag == reinit_table

\* "we have new queue entries since the last run, recreate alias table"
TableStale == prev_queued_items < queued_items \/ reinit_table

Total(f) == MapThenSumSet(LAMBDA i : f[i], DOMAIN f)

\* The given indices below n, pushed from the last to the first.
Stack(n, these) ==
  LET pushed[k \in 0..n] ==
        IF k = 0 THEN <<>>
        ELSE IF n - k \in these THEN Append(pushed[k - 1], n - k) ELSE pushed[k - 1]
  IN  pushed[n]

\* MMOPT: the newest cnt entries count twice.  When queued_discovered, read
\* from an old fuzzer_stats, exceeds the queue, n - cnt wraps and none does.
Newest(n, cnt) == IF cnt <= n THEN (n - cnt)..(n - 1) ELSE {}

\* MUTANT of Weighted: a disabled entry is weighed as well.
Weighted_All(w) == [i \in Items(queued_items) |-> IF i \in Enabled THEN w[i] ELSE 1]

\* "weight is always 0 for disabled entries"
Weighted(w) == [i \in Items(queued_items) |-> IF i \in Enabled THEN w[i] ELSE 0]

\* Weights, their sum (before MMOPT doubles some), and the two stacks.
CreateTable ==
  LET n == queued_items
  IN  /\ apc = "loop" /\ TableStale
      /\ prev_queued_items' = queued_items
      /\ \E w \in [Enabled -> Weights], cnt \in 0..5 :
           /\ sum' = Total(Weighted(w))
           /\ weight' = [i \in Items(n) |->
                           (IF i \in Newest(n, cnt) THEN 2 ELSE 1) * Weighted(w)[i]]
      /\ P' = [i \in Items(n) |-> weight'[i] * n]
      /\ S' = Stack(n, {i \in Items(n) : P'[i] < sum'})
      /\ L' = Stack(n, {i \in Items(n) : P'[i] >= sum'})
      /\ alias_table' = [i \in Items(n) |-> 0]
      /\ alias_probability' = [i \in Items(n) |-> 0]
      /\ apc' = "pair"
      /\ UNCHANGED <<queued_items, disabled, reinit_table, current_entry, p_one>>

\* MUTANT of Given: the giver keeps all it had.
Given_Kept(a, g) == P[g]

\* What the large entry has left when it has filled up the small one.
Given(a, g) == P[g] + P[a] - sum

\* One turn of the loop: a small entry is filled up from a large one.
Pair ==
  LET a == S[Len(S)]
      g == L[Len(L)]
  IN  /\ apc = "pair" /\ S # <<>> /\ L # <<>>
      /\ alias_probability' = [alias_probability EXCEPT ![a] = P[a]]
      /\ alias_table' = [alias_table EXCEPT ![a] = g]
      /\ P' = [P EXCEPT ![g] = Given(a, g)]
      /\ IF P'[g] < sum
         THEN S' = Append(Front(S), g) /\ L' = Front(L)
         ELSE S' = Front(S) /\ UNCHANGED L
      /\ UNCHANGED <<queued_items, disabled, prev_queued_items, reinit_table, apc, weight, sum,
                     current_entry, p_one>>

\* What is left of either stack keeps its column for itself.
Drain ==
  /\ apc = "pair" /\ (S = <<>> \/ L = <<>>)
  /\ alias_probability' = [i \in DOMAIN alias_probability |->
       IF i \in Range(S) \cup Range(L) THEN sum ELSE alias_probability[i]]
  /\ S' = <<>> /\ L' = <<>>
  /\ reinit_table' = FALSE /\ apc' = "select"
  /\ UNCHANGED <<queued_items, disabled, prev_queued_items, weight, sum, P, alias_table,
                 current_entry, p_one>>

----------------------------------------------------------------------------
(* The main loop                                                           *)

KeepTable ==
  /\ apc = "loop" /\ ~TableStale
  /\ apc' = "select"
  /\ UNCHANGED <<queued_items, disabled, prev_queued_items, reinit_table, tableVars,
                 current_entry, p_one>>

\* select_next_queue_entry.  The number drawn is compared with the column of
\* an entry; now and then rand_next_percent rounds up to 1.0.
SelectEntry ==
  /\ apc = "select" /\ apc' = "fuzz"
  /\ \E s \in Items(queued_items) :
       \/ alias_probability[s] > 0 /\ current_entry' = s /\ p_one' = FALSE
       \/ /\ alias_probability[s] < sum
          /\ current_entry' = alias_table[s] /\ p_one' = FALSE
       \/ current_entry' = alias_table[s] /\ p_one' = TRUE
  /\ UNCHANGED <<queued_items, disabled, prev_queued_items, reinit_table, tableVars>>

\* With INTROSPECTION, the finds of an entry are counted, and
\* prev_queued_items is used for it.
Counted(n) == IF INTROSPECTION /\ n > prev_queued_items THEN n ELSE prev_queued_items

\* fuzz_one goes through an entry, for the first time or not, and adds some.
FuzzOneAdds ==
  /\ apc = "fuzz" /\ apc' = "sync"
  /\ queued_items' \in queued_items..MaxItems
  /\ reinit_table' \in {reinit_table, TRUE}
  /\ prev_queued_items' = Counted(queued_items')
  /\ UNCHANGED <<disabled, tableVars, current_entry, p_one>>

\* fuzz_one skips the entry, perhaps after a calibration that added nothing.
SkipEntry ==
  /\ apc = "fuzz" /\ apc' = "loop"
  /\ reinit_table' \in {reinit_table, TRUE}
  /\ UNCHANGED <<queued_items, disabled, prev_queued_items, tableVars, current_entry, p_one>>

\* sync_fuzzers, when it is time, adds entries too.
SyncFuzzers ==
  /\ apc = "sync" /\ apc' = "loop"
  /\ queued_items' \in queued_items..MaxItems
  /\ UNCHANGED <<disabled, prev_queued_items, reinit_table, tableVars, current_entry, p_one>>

AliasNext ==
  \/ CreateTable \/ Pair \/ Drain
  \/ KeepTable \/ SelectEntry \/ FuzzOneAdds \/ SkipEntry \/ SyncFuzzers

AliasSpec == AliasInit /\ [][AliasNext]_aliasVars

----------------------------------------------------------------------------
(* Properties                                                              *)

\* Type invariant of queue, weights, stacks and table.
AliasTypeOK ==
  /\ queued_items \in 1..MaxItems /\ prev_queued_items \in 0..MaxItems
  /\ disabled \subseteq Items(queued_items) /\ {reinit_table, p_one} \subseteq BOOLEAN
  /\ apc \in {"loop", "pair", "select", "fuzz", "sync"}
  /\ sum \in Nat /\ \A i \in DOMAIN P : P[i] \in Nat /\ weight[i] \in Nat
  /\ Range(S) \cup Range(L) \subseteq Items(queued_items)
  /\ \A i \in DOMAIN alias_table :
       alias_table[i] \in Items(queued_items) /\ alias_probability[i] \in 0..sum
  /\ current_entry \in Items(queued_items)

\* When an entry is drawn the table has a column for every entry of the queue:
\* whoever added entries since it was made, fuzz_one or sync_fuzzers, it has
\* been made anew, and nothing is read beyond its end.  (With the types.)
TableCovers ==
  /\ AliasTypeOK
  /\ apc = "select" =>
       DOMAIN alias_table = Items(queued_items) /\ DOMAIN alias_probability = Items(queued_items)

\* The chance of an entry: its column, and what other columns leave to it.
Chance(i) ==
  alias_probability[i]
    + Total([s \in DOMAIN alias_table |->
               IF alias_table[s] = i THEN sum - alias_probability[s] ELSE 0])

\* The finished table draws each entry with a chance proportional to its
\* weight.  Where MMOPT has doubled some after the sum was taken, the chances
\* are not exact, but still every entry with a weight can be drawn and none
\* without.
ChancesRight ==
  apc = "select" => \A i \in DOMAIN alias_table :
    /\ Total(weight) = sum => Chance(i) = queued_items * weight[i]
    /\ Chance(i) > 0 <=> weight[i] > 0

\* A disabled entry (a seed that timed out or is a duplicate) is never drawn,
\* but for the draws of exactly 1.0, which end at entry 0.
ChosenEnabled == apc = "fuzz" /\ ~p_one => current_entry \notin disabled

=============================================================================
