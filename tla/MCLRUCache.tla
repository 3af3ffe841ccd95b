----------------------------- MODULE MCLRUCache -----------------------------
(* Two threads and three keys over a cache of two, so that a store evicts, *)
(* a lookup reorders and two writers collide on a key.                     *)
EXTENDS LRUCache
CONSTANTS k1, k2, k3, v1, v2, t1, t2
MCKeys == {k1, k2, k3}
MCValues == {v1, v2}
MCThreads == {t1, t2}
=============================================================================
