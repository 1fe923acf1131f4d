--------------------------- MODULE MCCovDecrease ---------------------------
(***************************************************************************)
(* CovDecrease on a map of three edges: the first two share a word and a   *)
(* 16-bit half, the third has a word of its own.                           *)
(***************************************************************************)
EXTENDS CovDecrease

MCEdges == 1..3
MCWordOf == <<1, 1, 2>>
MCLane == <<0, 1, 0>>
MCUintMax == 1000000

Crash(a, b, c) == [fault |-> "CRASH", trace |-> <<a, b, c>>]

\* Crashes that hit all edges, lose one, lose two, or differ in counts only,
\* and a timeout.
MCRuns == {Crash(1, 1, 1), Crash(0, 1, 1), Crash(2, 0, 1), Crash(0, 3, 0),
           [fault |-> "TMOUT", trace |-> <<4, 0, 0>>]}

\* For several seeds: crashes that hit all edges, lose one, lose two, or have
\* no coverage, a timeout and a failed fork.
MCRunsSeeds == {Crash(1, 1, 1), Crash(2, 0, 1), Crash(0, 3, 0), Crash(0, 0, 0),
                [fault |-> "TMOUT", trace |-> <<1, 0, 3>>],
                [fault |-> "ERROR", trace |-> <<0, 0, 0>>]}

MCSeedLen == <<2, 2, 1>>
MCSeedLen1 == <<1>>

=============================================================================
