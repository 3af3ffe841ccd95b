------------------------------ MODULE LRUCache ------------------------------
(***************************************************************************)
(* jinja2.utils.LRUCache, the cache behind Environment.get_template and    *)
(* the lexer cache, shared by every thread that uses the environment.      *)
(*                                                                         *)
(* One action per statement that touches the shared _mapping, _queue or    *)
(* _wlock, so that the readers that take no lock (items, copy) see what    *)
(* lies between two statements of a writer.  A statement that only tests   *)
(* state no one else may change is taken with the statement before it.     *)
(***************************************************************************)
EXTENDS Integers, FiniteSets, SequencesExt

CONSTANTS
    Keys,       \* the keys threads use
    Values,     \* the values they store
    Threads,    \* the threads that share the cache
    Capacity,   \* LRUCache(capacity)
    None        \* no value, no key, no thread

ASSUME CapacityAssumption == Capacity \in Nat \ {0}
ASSUME NoneAssumption == None \notin Keys \cup Values \cup Threads

VARIABLES
    mapping,    \* _mapping: the value of each key, None if it has none
    queue,      \* _queue: the keys, least recently used first
    wlock,      \* _wlock: the thread that holds it, or None
    pc,         \* pc[t]: the statement t executes next
    call,       \* call[t]: the method t is in, its key and its value
    result,     \* result[t]: what the method has returned or raised so far
    popped,     \* popped[t]: the key __setitem__ took off the queue
    snapKeys,   \* snapKeys[t]: the keys of the mapping copy() has copied
    snapQueue   \* snapQueue[t]: the keys items() has still to look up

vars == <<mapping, queue, wlock, pc, call, result, popped,
          snapKeys, snapQueue>>
locals == <<popped, snapKeys, snapQueue>>

NoCall  == [op |-> "none", key |-> None, val |-> None]
Pending == [status |-> "pending", value |-> None]
Ok(v)   == [status |-> "ok", value |-> v]
Raised(e) == [status |-> e, value |-> None]

Calls ==
    [op : {"get", "del"}, key : Keys, val : {None}]
        \cup [op : {"set", "setdefault"}, key : Keys, val : Values]
        \cup [op : {"clear", "items", "copy"}, key : {None}, val : {None}]

Empty == [k \in Keys |-> None]

(* `key in self._mapping` and `len(self._mapping)` *)
Present == {k \in Keys : mapping[k] # None}
Size    == Cardinality(Present)

-----------------------------------------------------------------------------
Init ==
    /\ mapping = Empty
    /\ queue = <<>>
    /\ wlock = None
    /\ pc = [t \in Threads |-> "idle"]
    /\ call = [t \in Threads |-> NoCall]
    /\ result = [t \in Threads |-> Pending]
    /\ popped = [t \in Threads |-> None]
    /\ snapKeys = [t \in Threads |-> {}]
    /\ snapQueue = [t \in Threads |-> <<>>]

Goto(t, from, to) == pc[t] = from /\ pc' = [pc EXCEPT ![t] = to]

(* The outcome of t's method is settled: what it returns or raises. *)
Finish(t, r) == result' = [result EXCEPT ![t] = r]

(* `with self._wlock:` of each method, entered by Acquire *)
Entry(op) ==
    CASE op \in {"get", "setdefault"} -> "get_read"
      [] op \in {"set", "store_default"} -> "set_check"
      [] op = "del"   -> "del_pop"
      [] op = "clear" -> "clr_mapping"

Invoke(t) ==
    \E c \in Calls :
        /\ Goto(t, "idle", CASE c.op = "items" -> "items_list"
                             [] c.op = "copy" -> "copy_mapping"
                             [] OTHER -> "acquire")
        /\ call' = [call EXCEPT ![t] = c]
        /\ UNCHANGED <<mapping, queue, wlock, result, locals>>

Acquire(t) ==
    /\ Goto(t, "acquire", Entry(call[t].op))
    /\ wlock = None
    /\ wlock' = t
    /\ UNCHANGED <<mapping, queue, call, result, locals>>

(* Mutant: a hit does not move the key up (first in, first out).           *)
GetReadInPlace(t) ==
    LET rv == mapping[call[t].key] IN
    /\ Goto(t, "get_read", "release")
    /\ Finish(t, IF rv = None THEN Raised("KeyError") ELSE Ok(rv))
    /\ UNCHANGED <<mapping, queue, wlock, call, locals>>

(* __getitem__: rv = _mapping[key], which may raise KeyError, then the test *)
(* `_queue[-1] != key`, which raises IndexError on an empty queue.          *)
GetRead(t) ==
    LET k  == call[t].key
        rv == mapping[k]
    IN
    /\ Goto(t, "get_read",
            IF rv = None \/ queue = <<>> THEN "release"
            ELSE IF Last(queue) = k THEN "release" ELSE "get_remove")
    /\ Finish(t, IF rv = None THEN Raised("KeyError")
                 ELSE IF queue = <<>> THEN Raised("IndexError") ELSE Ok(rv))
    /\ UNCHANGED <<mapping, queue, wlock, call, locals>>

(* __getitem__: _remove(key), a ValueError ignored *)
GetRemove(t) ==
    /\ Goto(t, "get_remove", "get_append")
    /\ queue' = RemoveFirst(queue, call[t].key)
    /\ UNCHANGED <<mapping, wlock, call, result, locals>>

(* Mutant: the value, not the key, goes to the queue.                      *)
GetAppendValue(t) ==
    /\ Goto(t, "get_append", "release")
    /\ queue' = Append(queue, result[t].value)
    /\ UNCHANGED <<mapping, wlock, call, result, locals>>

GetAppend(t) ==
    /\ Goto(t, "get_append", "release")
    /\ queue' = Append(queue, call[t].key)
    /\ UNCHANGED <<mapping, wlock, call, result, locals>>

(* Mutant: the capacity test is off by one.                                *)
SetCheckLate(t) ==
    /\ Goto(t, "set_check",
            IF call[t].key \in Present THEN "set_remove"
            ELSE IF Size = Capacity + 1 THEN "set_popleft"
            ELSE "set_append")
    /\ UNCHANGED <<mapping, queue, wlock, call, result, locals>>

(* Mutant: a key that is set again keeps its old place on the queue too.   *)
SetCheckKeepsOld(t) ==
    /\ Goto(t, "set_check",
            IF Size = Capacity /\ call[t].key \notin Present
            THEN "set_popleft" ELSE "set_append")
    /\ UNCHANGED <<mapping, queue, wlock, call, result, locals>>

(* __setitem__: which of the branches of its if/elif is taken *)
SetCheck(t) ==
    /\ Goto(t, "set_check",
            IF call[t].key \in Present THEN "set_remove"
            ELSE IF Size = Capacity THEN "set_popleft"
            ELSE "set_append")
    /\ UNCHANGED <<mapping, queue, wlock, call, result, locals>>

(* __setitem__: _remove(key), whose ValueError nothing catches *)
SetRemove(t) ==
    /\ IF Contains(queue, call[t].key)
       THEN /\ Goto(t, "set_remove", "set_append")
            /\ queue' = RemoveFirst(queue, call[t].key)
            /\ UNCHANGED result
       ELSE /\ Goto(t, "set_remove", "release")
            /\ Finish(t, Raised("ValueError"))
            /\ UNCHANGED queue
    /\ UNCHANGED <<mapping, wlock, call, locals>>

(* __setitem__: the _popleft() of `del self._mapping[self._popleft()]` *)
SetPopleft(t) ==
    /\ IF queue # <<>>
       THEN /\ Goto(t, "set_popleft", "set_delete")
            /\ popped' = [popped EXCEPT ![t] = Head(queue)]
            /\ queue' = Tail(queue)
            /\ UNCHANGED result
       ELSE /\ Goto(t, "set_popleft", "release")
            /\ Finish(t, Raised("IndexError"))
            /\ UNCHANGED <<queue, popped>>
    /\ UNCHANGED <<mapping, wlock, call, snapKeys, snapQueue>>

(* __setitem__: the del of the same statement (EvictError: its KeyError) *)
SetDelete(t) ==
    /\ IF popped[t] \in Present
       THEN /\ Goto(t, "set_delete", "set_append")
            /\ mapping' = [mapping EXCEPT ![popped[t]] = None]
            /\ UNCHANGED result
       ELSE /\ Goto(t, "set_delete", "release")
            /\ Finish(t, Raised("EvictError"))
            /\ UNCHANGED mapping
    /\ popped' = [popped EXCEPT ![t] = None]
    /\ UNCHANGED <<queue, wlock, call, snapKeys, snapQueue>>

SetAppend(t) ==
    /\ Goto(t, "set_append", "set_store")
    /\ queue' = Append(queue, call[t].key)
    /\ UNCHANGED <<mapping, wlock, call, result, locals>>

SetStore(t) ==
    /\ Goto(t, "set_store", "release")
    /\ mapping' = [mapping EXCEPT ![call[t].key] = call[t].val]
    /\ Finish(t, Ok(call[t].val))
    /\ UNCHANGED <<queue, wlock, call, locals>>

(* __delitem__: del _mapping[key], then _remove(key), a ValueError ignored *)
DelPop(t) ==
    /\ IF call[t].key \in Present
       THEN /\ Goto(t, "del_pop", "del_remove")
            /\ mapping' = [mapping EXCEPT ![call[t].key] = None]
            /\ Finish(t, Ok(None))
       ELSE /\ Goto(t, "del_pop", "release")
            /\ Finish(t, Raised("KeyError"))
            /\ UNCHANGED mapping
    /\ UNCHANGED <<queue, wlock, call, locals>>

(* Mutant: a deleted key stays on the queue.                               *)
DelRemoveSkipped(t) ==
    /\ Goto(t, "del_remove", "release")
    /\ UNCHANGED <<mapping, queue, wlock, call, result, locals>>

DelRemove(t) ==
    /\ Goto(t, "del_remove", "release")
    /\ queue' = RemoveFirst(queue, call[t].key)
    /\ UNCHANGED <<mapping, wlock, call, result, locals>>

ClearMapping(t) ==
    /\ Goto(t, "clr_mapping", "clr_queue")
    /\ mapping' = Empty
    /\ Finish(t, Ok(None))
    /\ UNCHANGED <<queue, wlock, call, locals>>

(* Mutant: clear empties the mapping only.                                 *)
ClearQueueSkipped(t) ==
    /\ Goto(t, "clr_queue", "release")
    /\ UNCHANGED <<mapping, queue, wlock, call, result, locals>>

ClearQueue(t) ==
    /\ Goto(t, "clr_queue", "release")
    /\ queue' = <<>>
    /\ UNCHANGED <<mapping, wlock, call, result, locals>>

(* Mutant: setdefault stores while it still holds the lock of its lookup.  *)
ReleaseKeepsLock(t) ==
    LET caught == call[t].op = "setdefault" /\ result[t].status = "KeyError"
    IN
    /\ Goto(t, "release", IF caught THEN "acquire" ELSE "idle")
    /\ wlock' = IF caught THEN t ELSE None
    /\ call' = [call EXCEPT ![t] =
                  IF caught THEN [@ EXCEPT !.op = "store_default"] ELSE NoCall]
    /\ Finish(t, Pending)
    /\ UNCHANGED <<mapping, queue, locals>>

(* Leaving the `with` block, whether by return or by an exception, and so  *)
(* the method.  Only setdefault goes on: it catches the KeyError of its    *)
(* lookup and stores.                                                      *)
Release(t) ==
    LET caught == call[t].op = "setdefault" /\ result[t].status = "KeyError"
    IN
    /\ Goto(t, "release", IF caught THEN "acquire" ELSE "idle")
    /\ wlock' = None
    /\ call' = [call EXCEPT ![t] =
                  IF caught THEN [@ EXCEPT !.op = "store_default"] ELSE NoCall]
    /\ Finish(t, Pending)
    /\ UNCHANGED <<mapping, queue, locals>>

(* items: list(_queue), then one _mapping[key] after another, unlocked; it *)
(* ends with the list or with the KeyError of a key that has gone.         *)
ItemsList(t) ==
    /\ Goto(t, "items_list", "items_next")
    /\ snapQueue' = [snapQueue EXCEPT ![t] = queue]
    /\ UNCHANGED <<mapping, queue, wlock, call, result, popped, snapKeys>>

ItemsNext(t) ==
    LET ends == snapQueue[t] = <<>> \/ Head(snapQueue[t]) \notin Present IN
    /\ Goto(t, "items_next", IF ends THEN "idle" ELSE "items_next")
    /\ call' = [call EXCEPT ![t] = IF ends THEN NoCall ELSE @]
    /\ snapQueue' = [snapQueue EXCEPT ![t] = IF ends THEN <<>> ELSE Tail(@)]
    /\ UNCHANGED <<mapping, queue, wlock, result, popped, snapKeys>>

(* copy: rv._mapping.update(_mapping), then rv._queue.extend(_queue), then *)
(* the new instance, whose queue is the one of this moment, is returned.   *)
CopyMapping(t) ==
    /\ Goto(t, "copy_mapping", "copy_queue")
    /\ snapKeys' = [snapKeys EXCEPT ![t] = Present]
    /\ UNCHANGED <<mapping, queue, wlock, call, result, popped, snapQueue>>

CopyQueue(t) ==
    /\ Goto(t, "copy_queue", "idle")
    /\ call' = [call EXCEPT ![t] = NoCall]
    /\ snapKeys' = [snapKeys EXCEPT ![t] = {}]
    /\ UNCHANGED <<mapping, queue, wlock, result, popped, snapQueue>>

Step(t) ==
    \/ Acquire(t) \/ Release(t)
    \/ GetRead(t) \/ GetRemove(t) \/ GetAppend(t)
    \/ SetCheck(t) \/ SetRemove(t) \/ SetPopleft(t) \/ SetDelete(t)
    \/ SetAppend(t) \/ SetStore(t)
    \/ DelPop(t) \/ DelRemove(t) \/ ClearMapping(t) \/ ClearQueue(t)
    \/ ItemsList(t) \/ ItemsNext(t) \/ CopyMapping(t) \/ CopyQueue(t)

Next == \E t \in Threads : Invoke(t) \/ Step(t)

Spec == Init /\ [][Next]_vars

(* The interpreter keeps running every thread that can run.  Nothing makes *)
(* a thread call a method, and threading.Lock promises no order to those   *)
(* that wait for it.                                                       *)
FairSpec == Spec /\ \A t \in Threads : WF_vars(Step(t))

-----------------------------------------------------------------------------
PCs == {"idle", "acquire", "release",
        "get_read", "get_remove", "get_append",
        "set_check", "set_remove", "set_popleft", "set_delete", "set_append",
        "set_store", "del_pop", "del_remove", "clr_mapping", "clr_queue",
        "items_list", "items_next", "copy_mapping", "copy_queue"}
Ops == {"none", "get", "set", "setdefault", "store_default", "del", "clear",
        "items", "copy"}
Statuses == {"pending", "ok", "KeyError", "IndexError", "ValueError",
             "EvictError"}
CallRecords == [op : Ops, key : Keys \cup {None}, val : Values \cup {None}]
Outcomes    == [status : Statuses, value : Values \cup {None}]

(* Every variable holds a value of its kind. *)
TypeOK ==
    /\ mapping \in [Keys -> Values \cup {None}]
    /\ queue \in Seq(Keys)
    /\ wlock \in Threads \cup {None}
    /\ pc \in [Threads -> PCs]
    /\ call \in [Threads -> CallRecords]
    /\ result \in [Threads -> Outcomes]
    /\ popped \in [Threads -> Keys \cup {None}]
    /\ snapKeys \in [Threads -> SUBSET Keys]
    /\ snapQueue \in [Threads -> Seq(Keys)]

(* No key is on the queue twice. *)
NoDuplicates == IsInjective(queue)

(* Between two operations the queue and the mapping hold the same keys,    *)
(* each once (utils.py: every method that writes one also writes the       *)
(* other before it gives up _wlock).                                       *)
QueueMirrorsMapping ==
    wlock = None => NoDuplicates /\ ToSet(queue) = Present

(* The cache never holds more than `capacity` entries, not even between    *)
(* two statements of a method, where __len__ and copy can see it.          *)
WithinCapacity == Size <= Capacity /\ Len(queue) <= Capacity

(* What keys(), items() and reversed() read without the lock never lists   *)
(* a key twice, and misses at most the one key a writer is moving.         *)
ReadersMissAtMostOne ==
    NoDuplicates /\ Cardinality(Present \ ToSet(queue)) <= 1

(* The statements between `with self._wlock` and its end. *)
Reading  == {"get_read", "get_remove", "get_append"}
Storing  == {"set_check", "set_remove", "set_popleft", "set_delete",
             "set_append", "set_store"}
Deleting == {"del_pop", "del_remove"}
Clearing == {"clr_mapping", "clr_queue"}
Locked   == Reading \cup Storing \cup Deleting \cup Clearing \cup {"release"}

(* The arguments a thread carries fit the statement it has reached.        *)
CallFits(t) ==
    LET c == call[t] IN
    /\ c.op \in {"get", "set", "setdefault", "store_default", "del"}
           => c.key \in Keys
    /\ c.op \in {"set", "setdefault", "store_default"} => c.val \in Values
    /\ pc[t] = "acquire" => c.op \in {"get", "set", "setdefault",
                                      "store_default", "del", "clear"}
    /\ pc[t] \in Reading  => c.op \in {"get", "setdefault"}
    /\ pc[t] \in Storing  => c.op \in {"set", "store_default"}
    /\ pc[t] \in Deleting => c.op = "del"
    /\ pc[t] \in Clearing => c.op = "clear"
    /\ pc[t] \notin Locked => result[t].status = "pending"
    /\ result[t].status = "KeyError" => c.op \in {"get", "setdefault", "del"}

(* How far apart the queue and the mapping are when the holder of the lock *)
(* is about to execute each statement.                                     *)
Apart(t) ==
    LET k == call[t].key
        Q == ToSet(queue)
    IN
    /\ pc[t] \notin {"get_append", "set_delete", "set_append", "set_store",
                     "del_remove", "clr_queue"} => Q = Present
    /\ pc[t] \in {"get_remove", "set_remove"} => k \in Present
    /\ pc[t] = "get_append"  => k \in Present /\ Q = Present \ {k}
    /\ pc[t] = "set_popleft" => k \notin Present /\ Size = Capacity
    /\ pc[t] = "set_delete"  => /\ k \notin Present /\ Size = Capacity
                               /\ popped[t] \in Present
                               /\ Q = Present \ {popped[t]}
    /\ pc[t] = "set_append"  => /\ Q = Present \ {k}
                               /\ Cardinality(Present \cup {k}) <= Capacity
    /\ pc[t] = "set_store"   => /\ Q = Present \cup {k}
                               /\ Cardinality(Q) <= Capacity
    /\ pc[t] = "del_remove"  => k \notin Present /\ Q = Present \cup {k}
    /\ pc[t] = "clr_queue"   => Present = {}

(* Who holds the lock, and what the threads carry: inductive on its own.   *)
ControlInv ==
    /\ TypeOK
    /\ \A t \in Threads : wlock = t <=> pc[t] \in Locked
    /\ \A t \in Threads : CallFits(t)

(* The inductive invariant behind the properties of this module: what the  *)
(* cache looks like at each statement of the thread that holds the lock.   *)
IndInv ==
    /\ ControlInv
    /\ \A t \in Threads :
           result[t].status \notin {"IndexError", "ValueError", "EvictError"}
    /\ NoDuplicates
    /\ IsFiniteSet(Present)
    /\ WithinCapacity
    /\ wlock = None => ToSet(queue) = Present
    /\ \A t \in Threads : wlock = t => Apart(t)

(* The only exception a locked method ends with is the KeyError of an      *)
(* absent key: `_queue[-1]`, `_popleft()`, the eviction's `del` and the    *)
(* bare `_remove(key)` of __setitem__ never raise.                         *)
NoInternalError ==
    \A t \in Threads :
        /\ result[t].status \notin {"IndexError", "ValueError", "EvictError"}
        /\ result[t].status = "KeyError" =>
               call[t].op \in {"get", "setdefault", "del"}

(* Whoever takes _wlock gives it up, on the paths that raise as well (a    *)
(* setdefault that kept it for its second half would wait for itself).     *)
LockReleased == \A t \in Threads : wlock = t ~> wlock # t

(* "Set `default` if the key is not in the cache otherwise leave           *)
(* unchanged" (utils.py:482): the store of a setdefault replaces no value. *)
SetdefaultLeavesUnchanged ==
    [][\A t \in Threads :
          SetStore(t) /\ call[t].op = "store_default"
              => call[t].key \notin Present]_vars

-----------------------------------------------------------------------------
(* LRUCache, statement by statement, implements RecencyCache: a method     *)
(* takes effect at the first statement that decides its outcome (the       *)
(* lookup in the mapping, the if of __setitem__, the first removal), and   *)
(* from then on the abstract cache is the one the method will leave        *)
(* behind, computed from what its remaining statements still have to do.   *)
Put(m, k, v) == [m EXCEPT ![k] = v]

(* What the holder h of _wlock, at the statement it has reached, will have *)
(* made of the mapping and of the queue when it releases the lock.         *)
SettledMapping(h) ==
    LET k == call[h].key  v == call[h].val IN
    CASE pc[h] \in {"set_remove", "set_append", "set_store"} ->
             Put(mapping, k, v)
      [] pc[h] = "set_popleft" -> Put(Put(mapping, Head(queue), None), k, v)
      [] pc[h] = "set_delete"  -> Put(Put(mapping, popped[h], None), k, v)
      [] OTHER -> mapping

SettledQueue(h) ==
    LET k == call[h].key IN
    CASE pc[h] \in {"get_remove", "set_remove"} ->
             Append(RemoveFirst(queue, k), k)
      [] pc[h] = "set_popleft" -> Append(Tail(queue), k)
      [] pc[h] \in {"get_append", "set_delete", "set_append"} ->
             Append(queue, k)
      [] pc[h] = "del_remove" -> RemoveFirst(queue, k)
      [] pc[h] = "clr_queue"  -> <<>>
      [] OTHER -> queue

Entries ==
    LET m == IF wlock = None THEN mapping ELSE SettledMapping(wlock)
        q == IF wlock = None THEN queue ELSE SettledQueue(wlock)
    IN [i \in 1..Len(q) |-> [key |-> q[i], val |-> m[q[i]]]]

(* A setdefault whose lookup has missed has only its store left to do. *)
DueToStore(t) ==
    \/ call[t].op \in {"set", "store_default"}
    \/ call[t].op = "setdefault" /\ result[t].status = "KeyError"

Request(t) ==
    IF DueToStore(t) THEN [call[t] EXCEPT !.op = "set"]
    ELSE IF call[t].op \in {"items", "copy"} THEN NoCall ELSE call[t]

Outcome(t) ==
    IF pc[t] \in {"set_remove", "set_popleft", "set_delete", "set_append",
                  "set_store"}
    THEN Ok(call[t].val)
    ELSE IF call[t].op = "setdefault" /\ DueToStore(t) THEN Pending
    ELSE result[t]

Asked    == [t \in Threads |-> Request(t)]
Answered == [t \in Threads |-> Outcome(t)]

Recency == INSTANCE RecencyCache WITH
    entries <- Entries, request <- Asked, reply <- Answered

(* Every get, set, delete and clear, and each half of a setdefault, acts   *)
(* at one instant of its call on a single sequence of entries ordered by   *)
(* use: the right value is returned, the right key is evicted.             *)
ImplementsRecencyCache == Recency!Spec
=============================================================================
