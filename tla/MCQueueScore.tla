---------------------------- MODULE MCQueueScore ----------------------------
(* QueueScore with two speed x size factors. *)
EXTENDS QueueScore

MCFactors == {1, 2}

=============================================================================
