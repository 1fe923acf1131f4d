-------------------------- MODULE MCTestcaseCache --------------------------
(* TestcaseCache with inputs of one and of MAX_FILE = 3 bytes. *)
EXTENDS TestcaseCache

MCIds == 1..4
MCLens == {1, 3}

=============================================================================
