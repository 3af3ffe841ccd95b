---------------------------- MODULE RecencyCache ----------------------------
(***************************************************************************)
(* What a least-recently-used cache promises to the threads that share it, *)
(* whatever data structures hold it: it is ONE sequence of entries, the    *)
(* least recently used first, and every operation acts on it at a single   *)
(* instant between its call and its return.                                *)
(*                                                                         *)
(* A setdefault is promised no more than the code gives: a lookup and, if  *)
(* that misses, a store some time later.                                   *)
(***************************************************************************)
EXTENDS RecencyEntries

CONSTANTS Keys, Values, Threads, Capacity, None

VARIABLES
    entries,    \* sequence of [key, val], least recently used first
    request,    \* request[t]: the call of t that is under way, or NoRequest
    reply       \* reply[t]: its outcome, or Pending

vars == <<entries, request, reply>>

NoRequest == [op |-> "none", key |-> None, val |-> None]
Pending   == [status |-> "pending", value |-> None]
Ok(v)     == [status |-> "ok", value |-> v]
Missing   == [status |-> "KeyError", value |-> None]

Requests ==
    [op : {"get"} , key : Keys, val : {None}]
        \cup [op : {"del"}, key : Keys, val : {None}]
        \cup [op : {"set", "setdefault"}, key : Keys, val : Values]
        \cup [op : {"clear"}, key : {None}, val : {None}]

-----------------------------------------------------------------------------
Init ==
    /\ entries = <<>>
    /\ request = [t \in Threads |-> NoRequest]
    /\ reply = [t \in Threads |-> Pending]

Invoke(t) ==
    /\ request[t] = NoRequest
    /\ \E r \in Requests : request' = [request EXCEPT ![t] = r]
    /\ UNCHANGED <<entries, reply>>

(* The instant at which t's call takes effect. *)
Due(t, ops) == request[t].op \in ops /\ reply[t] = Pending

Hit(t) ==
    LET k == request[t].key IN
    /\ Due(t, {"get", "setdefault"})
    /\ k \in Held(entries)
    /\ entries' = Touched(entries, k)
    /\ reply' = [reply EXCEPT ![t] = Ok(ValueOf(entries, k))]
    /\ UNCHANGED request

Miss(t) ==
    /\ Due(t, {"get"})
    /\ request[t].key \notin Held(entries)
    /\ reply' = [reply EXCEPT ![t] = Missing]
    /\ UNCHANGED <<entries, request>>

(* A setdefault that misses still has to store, like a set. *)
MissDefault(t) ==
    /\ Due(t, {"setdefault"})
    /\ request[t].key \notin Held(entries)
    /\ request' = [request EXCEPT ![t].op = "set"]
    /\ UNCHANGED <<entries, reply>>

Store(t) ==
    LET r == request[t] IN
    /\ Due(t, {"set"})
    /\ entries' = Stored(entries, r.key, r.val, Capacity)
    /\ reply' = [reply EXCEPT ![t] = Ok(request[t].val)]
    /\ UNCHANGED request

Delete(t) ==
    LET k == request[t].key IN
    /\ Due(t, {"del"})
    /\ entries' = Without(entries, k)
    /\ reply' = [reply EXCEPT ![t] = 
                  IF k \in Held(entries) THEN Ok(None) ELSE Missing]
    /\ UNCHANGED request

Clear(t) ==
    /\ Due(t, {"clear"})
    /\ entries' = <<>>
    /\ reply' = [reply EXCEPT ![t] = Ok(None)]
    /\ UNCHANGED request

Return(t) ==
    /\ reply[t] # Pending
    /\ request' = [request EXCEPT ![t] = NoRequest]
    /\ reply' = [reply EXCEPT ![t] = Pending]
    /\ UNCHANGED entries

Next ==
    \E t \in Threads :
        \/ Invoke(t) \/ Hit(t) \/ Miss(t) \/ MissDefault(t) \/ Store(t)
        \/ Delete(t) \/ Clear(t) \/ Return(t)

Spec == Init /\ [][Next]_vars
=============================================================================
