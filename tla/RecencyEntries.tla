--------------------------- MODULE RecencyEntries ---------------------------
(***************************************************************************)
(* The contents of a least-recently-used cache as one sequence of entries  *)
(* [key, val], the least recently used first and no key twice, and what a  *)
(* lookup and a store make of it.  RecencyCache states with them what the  *)
(* cache promises, LRUCache that it keeps the promise, and the components  *)
(* that use a cache take their cache steps from here.                      *)
(***************************************************************************)
EXTENDS Integers, SequencesExt

KeysOnce(s) == \A i, j \in DOMAIN s : s[i].key = s[j].key => i = j

Held(s)       == {e.key : e \in ToSet(s)}
Without(s, k) == RemoveFirstMatch(s, LAMBDA e : e.key = k)
ValueOf(s, k) == (CHOOSE e \in ToSet(s) : e.key = k).val
PutLast(s, k, v) == Append(Without(s, k), [key |-> k, val |-> v])

(* A lookup that hits makes its key the most recently used one. *)
Touched(s, k) == PutLast(s, k, ValueOf(s, k))

(* Only a new key in a full cache costs another key its place: the one     *)
(* unused for longest.                                                     *)
Stored(s, k, v, capacity) ==
    PutLast(IF k \notin Held(s) /\ Len(s) = capacity THEN Tail(s) ELSE s,
            k, v)
=============================================================================
