---------------------------- MODULE MCLoopContext ----------------------------
(* Every sequence of up to MaxLength items.                                *)
EXTENDS LoopContext, SequencesExt
CONSTANTS a, b, MaxLength
MCItems == {a, b}
BoundedInit == seq \in BoundedSeq(Items, MaxLength) /\ Init
BoundedSpec == BoundedInit /\ [][Next]_vars
=============================================================================
