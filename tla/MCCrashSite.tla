---------------------------- MODULE MCCrashSite -----------------------------
(* CrashSite with one blocked, one unknown and two known frames, one of    *)
(* which has no function, and a heap of four blocks: enough for two sites. *)
EXTENDS CrashSite, TLC
CONSTANTS san, lib, f, g, main
MCBlocked == {san}
MCSites == {f, g}
MCOther == {lib}
MCFunc == [s \in MCSites |-> IF s = f THEN main ELSE NULL]
BlockSymmetry == Permutations(Blocks)
=============================================================================
