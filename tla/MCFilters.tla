----------------------------- MODULE MCFilters -----------------------------
(* Every sequence of up to MaxItems items with the keys "A", "a", "b" or   *)
(* none.                                                                   *)
EXTENDS FilterContracts

CONSTANT MaxItems \* bound

KeyNames == {"A", "a", "b", "undefined"}
MCSequences == {[i \in DOMAIN keys |-> [id |-> i, key |-> keys[i]]] : keys \in UNION {[1 .. n -> KeyNames] : n \in 0 .. MaxItems}}
=============================================================================
