--------------------------- MODULE LRUCacheProofs ---------------------------
(***************************************************************************)
(* Proofs about LRUCache for every set of keys, values and threads and     *)
(* every capacity: its invariant, and that it implements RecencyCache.     *)
(***************************************************************************)
EXTENDS LRUCache, RecencyEntries, FiniteSetTheorems, SequenceTheorems,
        WellFoundedInduction, TLAPS

-----------------------------------------------------------------------------
(* Sequences without duplicates, which the queue is, and entries in which  *)
(* no key is twice.                                                        *)

LEMMA Elements ==
    ASSUME NEW S, NEW q \in Seq(S)
    PROVE  /\ DOMAIN q = 1..Len(q)
           /\ ToSet(q) = {q[i] : i \in 1..Len(q)}
           /\ ToSet(q) \subseteq S
           /\ q = <<>> <=> ToSet(q) = {}
  BY DEF ToSet

(* What the three ways of changing the queue do to a sequence without      *)
(* duplicates: its elements, its length, and that it stays without.        *)
LEMMA AppendDistinct ==
    ASSUME NEW S, NEW q \in Seq(S), NEW x \in S,
           IsInjective(q), x \notin ToSet(q)
    PROVE  /\ Append(q, x) \in Seq(S)
           /\ IsInjective(Append(q, x))
           /\ ToSet(Append(q, x)) = ToSet(q) \cup {x}
           /\ Len(Append(q, x)) = Len(q) + 1
  BY DEF IsInjective, ToSet

LEMMA TailDistinct ==
    ASSUME NEW S, NEW q \in Seq(S), IsInjective(q), q # <<>>
    PROVE  /\ Tail(q) \in Seq(S)
           /\ IsInjective(Tail(q))
           /\ Head(q) \in ToSet(q)
           /\ ToSet(Tail(q)) = ToSet(q) \ {Head(q)}
           /\ Len(Tail(q)) = Len(q) - 1
<1>1. /\ Len(q) \in Nat \ {0}
      /\ Tail(q) \in Seq(S)
      /\ Len(Tail(q)) = Len(q) - 1
      /\ \A i \in 1..Len(q) - 1 : Tail(q)[i] = q[i + 1]
      /\ Head(q) = q[1]
  OBVIOUS
<1>2. IsInjective(Tail(q))
  BY <1>1 DEF IsInjective
<1>3. ToSet(Tail(q)) = ToSet(q) \ {Head(q)}
  <2>1. ASSUME NEW x \in ToSet(Tail(q)) PROVE x \in ToSet(q) \ {Head(q)}
    BY <1>1, <2>1 DEF IsInjective, ToSet
  <2>2. ASSUME NEW x \in ToSet(q) \ {Head(q)} PROVE x \in ToSet(Tail(q))
    <3>1. PICK i \in 2..Len(q) : x = q[i]
      BY <1>1, <2>2 DEF ToSet
    <3>2. i - 1 \in 1..Len(Tail(q)) /\ Tail(q)[i - 1] = x
      BY <1>1, <3>1
    <3>3. ToSet(Tail(q)) = {Tail(q)[j] : j \in 1..Len(Tail(q))}
      BY <1>1, Elements
    <3>4. QED
      BY <3>2, <3>3
  <2>3. QED
    BY <2>1, <2>2
<1>4. Head(q) \in ToSet(q)
  BY <1>1, Elements
<1>5. QED
  BY <1>1, <1>2, <1>3, <1>4

(* What is left when the item at n is taken out.                           *)
LEMMA RemoveAtIndices ==
    ASSUME NEW S, NEW q \in Seq(S), NEW n \in 1..Len(q)
    PROVE  /\ RemoveAt(q, n) \in Seq(S)
           /\ Len(RemoveAt(q, n)) = Len(q) - 1
           /\ \A i \in 1..Len(q) - 1 :
                  RemoveAt(q, n)[i] = IF i < n THEN q[i] ELSE q[i + 1]
<1> DEFINE r == RemoveAt(q, n)
           front == SubSeq(q, 1, n - 1)
           back  == SubSeq(q, n + 1, Len(q))
<1>1. Len(q) \in Nat /\ n \in Nat /\ n >= 1 /\ n <= Len(q)
  OBVIOUS
<1>2. /\ front \in Seq(S)
      /\ Len(front) = n - 1
      /\ \A i \in 1..n - 1 : front[i] = q[i]
  BY <1>1
<1>3. /\ back \in Seq(S)
      /\ Len(back) = Len(q) - n
      /\ \A i \in 1..Len(q) - n : back[i] = q[i + n]
  BY <1>1
<1> HIDE DEF r, front, back
<1>4. r = front \o back
  BY DEF r, RemoveAt, front, back
<1>5. /\ r \in Seq(S)
      /\ Len(r) = Len(q) - 1
      /\ \A i \in 1..Len(q) - 1 :
             r[i] = IF i <= n - 1 THEN front[i] ELSE back[i - (n - 1)]
  <2>1. Len(front) + Len(back) = Len(q) - 1
    BY <1>1, <1>2, <1>3
  <2>2. /\ front \o back \in Seq(S)
        /\ Len(front \o back) = Len(front) + Len(back)
        /\ \A i \in 1..Len(front) + Len(back) :
               (front \o back)[i] = IF i <= Len(front) THEN front[i]
                                    ELSE back[i - Len(front)]
    BY <1>2, <1>3, ConcatProperties
  <2>3. Len(front) = n - 1
    BY <1>2
  <2>4. QED
    BY <1>4, <2>1, <2>2, <2>3
<1>6. ASSUME NEW i \in 1..Len(q) - 1
      PROVE  r[i] = IF i < n THEN q[i] ELSE q[i + 1]
  <2>1. CASE i < n
    <3>1. i \in 1..n - 1 /\ i <= n - 1
      BY <1>1, <2>1
    <3>2. r[i] = front[i]
      BY <1>5, <3>1
    <3>3. QED
      BY <1>2, <2>1, <3>1, <3>2
  <2>2. CASE i >= n
    <3>1. i - (n - 1) \in 1..Len(q) - n
      BY <1>1, <2>2
    <3>2. QED
      BY <1>1, <1>3, <1>5, <2>2, <3>1
  <2>3. QED
    BY <1>1, <2>1, <2>2
<1>7. QED
  BY <1>5, <1>6 DEF r

(* A set of naturals that is not empty has a smallest element.             *)
LEMMA MinIn ==
    ASSUME NEW I \in SUBSET Nat, I # {}
    PROVE  Min(I) \in I /\ \A k \in I : Min(I) <= k
<1> DEFINE less == OpToRel(<, Nat)
<1>1. IsWellFoundedOn(less, Nat)
  BY NatLessThanWellFounded
<1>2. \A k, m \in Nat : k < m => <<k, m>> \in less
  BY DEF OpToRel
<1> HIDE DEF less
<1>3. PICK m \in I : \A k \in I : ~ (<<k, m>> \in less)
  BY <1>1, WFMin
<1>4. ASSUME NEW k \in I PROVE m <= k
  <2>1. k \in Nat /\ m \in Nat /\ ~ (k < m)
    BY <1>2, <1>3
  <2>2. QED
    BY <2>1
<1>5. QED
  BY <1>4 DEF Min

(* Removing the first occurrence of anything, present or not, leaves a     *)
(* sequence over the same set.                                             *)
LEMMA RemoveFirstType ==
    ASSUME NEW S, NEW q \in Seq(S), NEW x
    PROVE  RemoveFirst(q, x) \in Seq(S)
<1>1. CASE ~ \E i \in 1..Len(q) : q[i] = x
  BY <1>1 DEF RemoveFirst
<1>2. CASE \E i \in 1..Len(q) : q[i] = x
  <2> DEFINE I == {i \in 1..Len(q) : q[i] = x}
             n == SelectInSeq(q, LAMBDA v : v = x)
  <2>1. I \in SUBSET Nat /\ I # {}
    BY <1>2
  <2>2. n = Min(I)
    BY <2>1 DEF SelectInSeq
  <2> HIDE DEF I
  <2>3. n \in 1..Len(q)
    BY <2>1, <2>2, MinIn DEF I
  <2> HIDE DEF n
  <2>4. RemoveFirst(q, x) = SubSeq(q, 1, n - 1) \o SubSeq(q, n + 1, Len(q))
    BY <1>2 DEF RemoveFirst, RemoveAt, n
  <2>5. SubSeq(q, 1, n - 1) \in Seq(S) /\ SubSeq(q, n + 1, Len(q)) \in Seq(S)
    BY <2>3
  <2>6. QED
    BY <2>4, <2>5
<1>3. QED
  BY <1>1, <1>2

LEMMA RemoveFirstAt ==
    ASSUME NEW S, NEW q \in Seq(S), NEW x, NEW n \in 1..Len(q),
           \A i \in 1..Len(q) : q[i] = x <=> i = n
    PROVE  RemoveFirst(q, x) = RemoveAt(q, n)
<1>1. {i \in 1..Len(q) : q[i] = x} = {n}
  OBVIOUS
<1>2. SelectInSeq(q, LAMBDA v : v = x) = n
  BY <1>1 DEF SelectInSeq, Min
<1>3. QED
  BY <1>2 DEF RemoveFirst

LEMMA RemoveFirstDistinct ==
    ASSUME NEW S, NEW q \in Seq(S), IsInjective(q), NEW x \in ToSet(q)
    PROVE  /\ RemoveFirst(q, x) \in Seq(S)
           /\ IsInjective(RemoveFirst(q, x))
           /\ ToSet(RemoveFirst(q, x)) = ToSet(q) \ {x}
           /\ Len(RemoveFirst(q, x)) = Len(q) - 1
<1>1. PICK n \in 1..Len(q) : q[n] = x
  BY DEF ToSet
<1>2. \A i \in 1..Len(q) : q[i] = x <=> i = n
  BY <1>1 DEF IsInjective
<1> DEFINE r == RemoveFirst(q, x)
<1>4. r = RemoveAt(q, n)
  BY <1>2, RemoveFirstAt
<1> HIDE DEF r
<1>5. /\ r \in Seq(S)
      /\ Len(r) = Len(q) - 1
      /\ \A i \in 1..Len(q) - 1 : r[i] = IF i < n THEN q[i] ELSE q[i + 1]
  BY <1>4, RemoveAtIndices
<1>6. IsInjective(r)
  <2>1. SUFFICES ASSUME NEW i \in 1..Len(q) - 1, NEW j \in 1..Len(q) - 1,
                        r[i] = r[j]
                 PROVE  i = j
    BY <1>5 DEF IsInjective
  <2>2. \A a, b \in 1..Len(q) : q[a] = q[b] => a = b
    BY DEF IsInjective
  <2>3. Len(q) \in Nat /\ n \in Nat
    OBVIOUS
  <2> DEFINE up(m) == IF m < n THEN m ELSE m + 1
  <2>5. /\ up(i) \in 1..Len(q) /\ r[i] = q[up(i)]
        /\ up(j) \in 1..Len(q) /\ r[j] = q[up(j)]
    BY <1>5, <2>3
  <2>6. up(i) = up(j)
    BY <2>1, <2>2, <2>5
  <2>7. QED
    BY <2>3, <2>6
<1>7. ASSUME NEW y \in ToSet(r) PROVE y \in ToSet(q) \ {x}
  <2>1. PICK i \in 1..Len(r) : r[i] = y
    BY <1>5, <1>7, Elements
  <2>2. PICK j \in 1..Len(q) : q[j] = y /\ j # n
    BY <1>1, <1>5, <2>1
  <2>3. y # x
    BY <1>1, <2>2 DEF IsInjective
  <2>4. QED
    BY <2>2, <2>3, Elements
<1>8. ASSUME NEW y \in ToSet(q) \ {x} PROVE y \in ToSet(r)
  <2>1. PICK j \in 1..Len(q) : q[j] = y
    BY <1>8 DEF ToSet
  <2>2. CASE j < n
    BY <1>1, <1>5, <2>1, <2>2, Elements, SMTT(30)
  <2>3. CASE j > n
    <3>1. j - 1 \in 1..Len(r) /\ r[j - 1] = y
      BY <1>1, <1>5, <2>1, <2>3
    <3>2. QED
      BY <1>5, <3>1, Elements
  <2>4. QED
    BY <1>1, <1>8, <2>1, <2>2, <2>3
<1>9. QED
  BY <1>5, <1>6, <1>7, <1>8 DEF r

(* A sequence without duplicates is as long as its set of elements.        *)
LEMMA DistinctLength ==
    ASSUME NEW S, NEW q \in Seq(S), IsInjective(q)
    PROVE  IsFiniteSet(ToSet(q)) /\ Cardinality(ToSet(q)) = Len(q)
<1>1. q \in Bijection(1..Len(q), ToSet(q))
  BY Elements DEF IsInjective, ToSet, Bijection, Injection, Surjection
<1>2. ExistsBijection(1..Len(q), ToSet(q))
  BY <1>1 DEF ExistsBijection
<1>3. IsFiniteSet(1..Len(q)) /\ Cardinality(1..Len(q)) = Len(q)
  <2>1. Len(q) \in Nat
    OBVIOUS
  <2>2. QED
    BY <2>1, FS_Interval, SMTT(30)
<1>4. QED
  BY <1>2, <1>3, FS_Bijection

(* The entries of a cache                                                  *)

(* Taking a key out of the entries: nothing to do, or one item to remove.  *)
LEMMA WithoutAbsent ==
    ASSUME NEW s, NEW k, \A i \in 1..Len(s) : s[i].key # k
    PROVE  Without(s, k) = s
  BY DEF Without, RemoveFirstMatch

LEMMA WithoutAt ==
    ASSUME NEW S, NEW s \in Seq(S), NEW k, NEW n \in 1..Len(s),
           \A i \in 1..Len(s) : s[i].key = k <=> i = n
    PROVE  Without(s, k) = RemoveAt(s, n)
<1>1. {i \in 1..Len(s) : s[i].key = k} = {n}
  OBVIOUS
<1>2. SelectInSeq(s, LAMBDA e : e.key = k) = n
  BY <1>1 DEF SelectInSeq, Min
<1>3. QED
  BY <1>2 DEF Without, RemoveFirstMatch

(* Each key has one entry. *)
LEMMA ValueOfEntry ==
    ASSUME NEW S, NEW s \in Seq(S), KeysOnce(s), NEW e \in ToSet(s)
    PROVE  ValueOf(s, e.key) = e.val
<1>1. \A x \in ToSet(s) : x.key = e.key => x = e
  BY Elements DEF KeysOnce
<1>2. QED
  BY <1>1 DEF ValueOf

-----------------------------------------------------------------------------
(* The lock and the arguments                                              *)

(* The records that calls and outcomes are made of.                        *)
LEMMA Records ==
    /\ NoCall \in CallRecords /\ Calls \subseteq CallRecords
    /\ \A c \in CallRecords : [c EXCEPT !.op = "store_default"] \in CallRecords
    /\ \A v \in Values \cup {None} : Ok(v) \in Outcomes
    /\ \A e \in Statuses : Raised(e) \in Outcomes
    /\ Pending \in Outcomes /\ Ok(None) \in Outcomes
<1>1. NoCall \in CallRecords /\ Calls \subseteq CallRecords
  BY DEF NoCall, Calls, CallRecords, Ops
<1>2. \A c \in CallRecords :
         [c EXCEPT !.op = "store_default"] \in CallRecords
  BY DEF CallRecords, Ops
<1>3. ASSUME NEW v \in Values \cup {None} PROVE Ok(v) \in Outcomes
  BY DEF Ok, Outcomes, Statuses
<1>4. ASSUME NEW e \in Statuses PROVE Raised(e) \in Outcomes
  BY DEF Raised, Outcomes
<1>5. Pending \in Outcomes
  BY DEF Pending, Outcomes, Statuses
<1>6. Ok(None) \in Outcomes
  BY <1>3
<1>7. QED
  BY <1>1, <1>2, <1>3, <1>4, <1>5, <1>6

LEMMA ControlInit == Init => ControlInv
<1>1. ASSUME Init PROVE TypeOK
  BY <1>1, Records DEF Init, TypeOK, Empty, PCs
<1>2. QED
  BY <1>1, NoneAssumption
  DEF Init, ControlInv, CallFits, NoCall, Pending, Locked, Reading, Storing,
      Deleting, Clearing

LEMMA TypeNext == ControlInv /\ [Next]_vars => TypeOK'
<1> SUFFICES ASSUME ControlInv, [Next]_vars PROVE TypeOK'
  OBVIOUS
<1> TypeOK
  BY DEF ControlInv
<1> USE Records DEF TypeOK, PCs, Goto, Finish, locals
<1>1. ASSUME NEW t \in Threads, Invoke(t) PROVE TypeOK'
  BY <1>1 DEF Invoke
<1>2. ASSUME NEW t \in Threads, Acquire(t) PROVE TypeOK'
  <2>1. Entry(call[t].op) \in PCs
    BY <1>2 DEF Acquire, Entry, ControlInv, CallFits
  <2>2. QED
    BY <1>2, <2>1 DEF Acquire
<1>3. ASSUME NEW t \in Threads, Release(t) PROVE TypeOK'
  <2>1. CASE call[t].op = "setdefault" /\ result[t].status = "KeyError"
    BY <1>3, <2>1 DEF Release
  <2>2. CASE ~ (call[t].op = "setdefault" /\ result[t].status = "KeyError")
    BY <1>3, <2>2 DEF Release
  <2>3. QED
    BY <2>1, <2>2
<1>4. ASSUME NEW t \in Threads, GetRead(t) PROVE TypeOK'
  <2>1. call[t].key \in Keys /\ mapping[call[t].key] \in Values \cup {None}
    BY <1>4 DEF GetRead, ControlInv, CallFits, Reading
  <2>2. QED
    BY <1>4, <2>1 DEF GetRead, Statuses
<1>5. ASSUME NEW t \in Threads, GetRemove(t) PROVE TypeOK'
  BY <1>5, RemoveFirstType DEF GetRemove
<1>6. ASSUME NEW t \in Threads, GetAppend(t) PROVE TypeOK'
  <2>1. call[t].key \in Keys
    BY <1>6 DEF GetAppend, ControlInv, CallFits, Reading
  <2>2. QED
    BY <1>6, <2>1 DEF GetAppend
<1>7. ASSUME NEW t \in Threads, SetCheck(t) PROVE TypeOK'
  BY <1>7 DEF SetCheck
<1>8. ASSUME NEW t \in Threads, SetRemove(t) PROVE TypeOK'
  <2>1. RemoveFirst(queue, call[t].key) \in Seq(Keys)
    BY RemoveFirstType
  <2>2. CASE Contains(queue, call[t].key)
    BY <1>8, <2>1, <2>2 DEF SetRemove
  <2>3. CASE ~ Contains(queue, call[t].key)
    BY <1>8, <2>3, ZenonT(30) DEF SetRemove, Statuses
  <2>4. QED
    BY <2>2, <2>3
<1>9. ASSUME NEW t \in Threads, SetPopleft(t) PROVE TypeOK'
  <2>1. CASE queue # <<>>
    <3>1. Head(queue) \in Keys /\ Tail(queue) \in Seq(Keys)
      BY <2>1
    <3>2. QED
      BY <1>9, <2>1, <3>1, ZenonT(30) DEF SetPopleft
  <2>2. CASE queue = <<>>
    BY <1>9, <2>2, ZenonT(30) DEF SetPopleft, Statuses
  <2>3. QED
    BY <2>1, <2>2
<1>10. ASSUME NEW t \in Threads, SetDelete(t) PROVE TypeOK'
  <2>1. CASE popped[t] \in Present
    BY <1>10, <2>1 DEF SetDelete, Statuses
  <2>2. CASE ~ (popped[t] \in Present)
    BY <1>10, <2>2, ZenonT(30) DEF SetDelete, Statuses
  <2>3. QED
    BY <2>1, <2>2
<1>11. ASSUME NEW t \in Threads, SetAppend(t) PROVE TypeOK'
  <2>1. call[t].key \in Keys
    BY <1>11 DEF SetAppend, ControlInv, CallFits, Storing
  <2>2. QED
    BY <1>11, <2>1 DEF SetAppend
<1>12. ASSUME NEW t \in Threads, SetStore(t) PROVE TypeOK'
  <2>1. call[t].val \in Values
    BY <1>12 DEF SetStore, ControlInv, CallFits, Storing
  <2>2. QED
    BY <1>12, <2>1 DEF SetStore
<1>13. ASSUME NEW t \in Threads, DelPop(t) PROVE TypeOK'
  <2>1. CASE call[t].key \in Present
    BY <1>13, <2>1, ZenonT(30) DEF DelPop, Statuses
  <2>2. CASE ~ (call[t].key \in Present)
    BY <1>13, <2>2, ZenonT(30) DEF DelPop, Statuses
  <2>3. QED
    BY <2>1, <2>2
<1>14. ASSUME NEW t \in Threads, DelRemove(t) PROVE TypeOK'
  BY <1>14, RemoveFirstType DEF DelRemove
<1>15. ASSUME NEW t \in Threads, ClearMapping(t) PROVE TypeOK'
  BY <1>15 DEF ClearMapping, Empty
<1>16. ASSUME NEW t \in Threads, ClearQueue(t) PROVE TypeOK'
  BY <1>16 DEF ClearQueue
<1>17. ASSUME NEW t \in Threads, ItemsList(t) PROVE TypeOK'
  BY <1>17 DEF ItemsList
<1>18. ASSUME NEW t \in Threads, ItemsNext(t) PROVE TypeOK'
  BY <1>18 DEF ItemsNext
<1>19. ASSUME NEW t \in Threads, CopyMapping(t) PROVE TypeOK'
  BY <1>19 DEF CopyMapping, Present
<1>20. ASSUME NEW t \in Threads, CopyQueue(t) PROVE TypeOK'
  BY <1>20 DEF CopyQueue
<1>21. CASE UNCHANGED vars
  BY <1>21 DEF vars
<1>22. QED
  BY <1>1, <1>2, <1>3, <1>4, <1>5, <1>6, <1>7, <1>8, <1>9, <1>10, <1>11, <1>12, <1>13, <1>14, <1>15, <1>16, <1>17, <1>18, <1>19, <1>20, <1>21 DEF Next, Step

LEMMA ControlNext == ControlInv /\ [Next]_vars => ControlInv'
<1> SUFFICES ASSUME ControlInv, [Next]_vars
             PROVE  /\ \A u \in Threads : wlock' = u <=> pc'[u] \in Locked
                    /\ \A u \in Threads : CallFits(u)'
  BY TypeNext DEF ControlInv
<1> USE NoneAssumption
    DEF ControlInv, TypeOK, CallRecords, Outcomes, CallFits, Locked, Reading,
        Storing, Deleting, Clearing, Goto, Finish, Ok, Raised, Pending, NoCall,
        locals
<1> DEFINE Goal == /\ \A u \in Threads : wlock' = u <=> pc'[u] \in Locked
                   /\ \A u \in Threads : CallFits(u)'
<1>1. ASSUME NEW t \in Threads, Invoke(t) PROVE Goal
  BY <1>1 DEF Invoke, Calls
<1>2. ASSUME NEW t \in Threads, Acquire(t) PROVE Goal
  BY <1>2 DEF Acquire, Entry
<1>3. ASSUME NEW t \in Threads, Release(t) PROVE Goal
  BY <1>3 DEF Release
<1>4. ASSUME NEW t \in Threads, GetRead(t) PROVE Goal
  BY <1>4 DEF GetRead
<1>5. ASSUME NEW t \in Threads, GetRemove(t) PROVE Goal
  BY <1>5 DEF GetRemove
<1>6. ASSUME NEW t \in Threads, GetAppend(t) PROVE Goal
  BY <1>6 DEF GetAppend
<1>7. ASSUME NEW t \in Threads, SetCheck(t) PROVE Goal
  BY <1>7 DEF SetCheck
<1>8. ASSUME NEW t \in Threads, SetRemove(t) PROVE Goal
  BY <1>8 DEF SetRemove
<1>9. ASSUME NEW t \in Threads, SetPopleft(t) PROVE Goal
  BY <1>9 DEF SetPopleft
<1>10. ASSUME NEW t \in Threads, SetDelete(t) PROVE Goal
  BY <1>10 DEF SetDelete
<1>11. ASSUME NEW t \in Threads, SetAppend(t) PROVE Goal
  BY <1>11 DEF SetAppend
<1>12. ASSUME NEW t \in Threads, SetStore(t) PROVE Goal
  BY <1>12 DEF SetStore
<1>13. ASSUME NEW t \in Threads, DelPop(t) PROVE Goal
  BY <1>13 DEF DelPop
<1>14. ASSUME NEW t \in Threads, DelRemove(t) PROVE Goal
  BY <1>14 DEF DelRemove
<1>15. ASSUME NEW t \in Threads, ClearMapping(t) PROVE Goal
  BY <1>15 DEF ClearMapping
<1>16. ASSUME NEW t \in Threads, ClearQueue(t) PROVE Goal
  BY <1>16 DEF ClearQueue
<1>17. ASSUME NEW t \in Threads, ItemsList(t) PROVE Goal
  BY <1>17 DEF ItemsList
<1>18. ASSUME NEW t \in Threads, ItemsNext(t) PROVE Goal
  BY <1>18 DEF ItemsNext
<1>19. ASSUME NEW t \in Threads, CopyMapping(t) PROVE Goal
  BY <1>19 DEF CopyMapping
<1>20. ASSUME NEW t \in Threads, CopyQueue(t) PROVE Goal
  BY <1>20, ZenonT(30) DEF CopyQueue
<1>21. CASE UNCHANGED vars
  BY <1>21 DEF vars
<1>22. QED
  BY <1>1, <1>2, <1>3, <1>4, <1>5, <1>6, <1>7, <1>8, <1>9, <1>10, <1>11, <1>12, <1>13, <1>14, <1>15, <1>16, <1>17, <1>18, <1>19, <1>20, <1>21 DEF Next, Step

(* Every variable keeps its type.                                          *)
THEOREM TypeCorrect == Spec => []TypeOK
<1>1. ControlInv => TypeOK
  BY DEF ControlInv
<1>2. QED
  BY <1>1, ControlInit, ControlNext, PTL DEF Spec

-----------------------------------------------------------------------------
(* The queue and the mapping                                               *)

(* The keys that are present after a value is stored or taken away.        *)
LEMMA PresentAfter ==
    ASSUME TypeOK, NEW k \in Keys
    PROVE  /\ \A v \in Values : mapping' = [mapping EXCEPT ![k] = v]
                 => Present' = Present \cup {k}
           /\ mapping' = [mapping EXCEPT ![k] = None] => Present' = Present \ {k}
           /\ mapping' = mapping => Present' = Present
           /\ mapping' = Empty => Present' = {}
  BY NoneAssumption DEF TypeOK, Present, Empty

LEMMA IndInit == Init => IndInv
<1> SUFFICES ASSUME Init PROVE IndInv
  OBVIOUS
<1>1. ControlInv
  BY ControlInit
<1>2. queue = <<>> /\ queue \in Seq(Keys) /\ Len(queue) = 0
  BY DEF Init
<1>3. Present = {} /\ ToSet(queue) = {}
  BY <1>2, Elements DEF Init, Present, Empty
<1>4. IsFiniteSet(Present) /\ Size = 0
  BY <1>3, FS_EmptySet DEF Size
<1>5. NoDuplicates
  BY <1>2, Elements DEF NoDuplicates, IsInjective
<1>6. QED
  BY <1>1, <1>2, <1>3, <1>4, <1>5, NoneAssumption, CapacityAssumption
  DEF Init, IndInv, WithinCapacity, Pending

(* A step of a thread outside the lock that leaves the cache alone.        *)
LEMMA OutsideStep ==
    ASSUME IndInv, ControlInv', NEW t \in Threads,
           pc[t] \notin Locked, pc'[t] \notin Locked,
           UNCHANGED <<mapping, queue, result, popped>>, wlock' = wlock,
           \A u \in Threads \ {t} : pc'[u] = pc[u] /\ call'[u] = call[u]
    PROVE  IndInv'
<1>1. Present' = Present
  BY DEF Present
<1>2. ASSUME NEW u \in Threads, wlock' = u PROVE Apart(u)'
  <2>1. u # t /\ Apart(u)
    BY <1>2 DEF IndInv, ControlInv
  <2>2. QED
    BY <1>1, <2>1 DEF Apart, Size
<1>3. QED
  BY <1>1, <1>2 DEF IndInv, NoDuplicates, WithinCapacity, Size

(* What there is to show of a step of the thread that holds the lock.      *)
LEMMA HolderStep ==
    ASSUME IndInv, ControlInv', NEW t \in Threads, wlock' = t,
           NoDuplicates', IsFiniteSet(Present'), WithinCapacity', Apart(t)',
           \A u \in Threads : u # t => result'[u] = result[u],
           result'[t].status \notin {"IndexError", "ValueError", "EvictError"}
    PROVE  IndInv'
  BY NoneAssumption DEF IndInv

LEMMA IndNext == IndInv /\ [Next]_vars => IndInv'
<1> SUFFICES ASSUME IndInv, [Next]_vars PROVE IndInv'
  OBVIOUS
<1> ControlInv
  BY DEF IndInv
<1> ControlInv'
  BY ControlNext
<1> TypeOK
  BY DEF ControlInv
<1> DEFINE k(t) == call[t].key
           Q == ToSet(queue)
<1>0. /\ IsFiniteSet(Present) /\ Size \in Nat
      /\ IsFiniteSet(Q) /\ Cardinality(Q) = Len(queue)
      /\ queue \in Seq(Keys) /\ IsInjective(queue)
      /\ Size <= Capacity /\ Len(queue) <= Capacity
      /\ Len(queue) \in Nat /\ Capacity \in Nat \ {0}
  BY DistinctLength, FS_CardinalityType, CapacityAssumption
  DEF IndInv, NoDuplicates, TypeOK, WithinCapacity, Size
<1>1. ASSUME NEW t \in Threads, Invoke(t) PROVE IndInv'
  BY <1>1, OutsideStep, ZenonT(30)
  DEF Invoke, Goto, TypeOK, locals, Locked, Reading, Storing, Deleting, Clearing
<1>2. ASSUME NEW t \in Threads, Acquire(t) PROVE IndInv'
  <2>1. /\ wlock = None /\ wlock' = t /\ UNCHANGED <<mapping, queue, result>>
        /\ Q = Present
    BY <1>2 DEF Acquire, IndInv
  <2>2. pc'[t] \in {"get_read", "set_check", "del_pop", "clr_mapping"}
    BY <1>2 DEF Acquire, Entry, Goto, TypeOK, ControlInv, CallFits
  <2>3. Present' = Present
    BY <2>1 DEF Present
  <2>4. Apart(t)'
    BY <2>1, <2>2, <2>3 DEF Apart
  <2>5. /\ NoDuplicates' /\ IsFiniteSet(Present') /\ WithinCapacity'
        /\ \A u \in Threads : result'[u] = result[u]
        /\ result[t].status \notin {"IndexError", "ValueError", "EvictError"}
    BY <2>1, <2>3 DEF IndInv, NoDuplicates, WithinCapacity, Size
  <2>6. QED
    BY <2>1, <2>4, <2>5, HolderStep
<1>3. ASSUME NEW t \in Threads, Release(t) PROVE IndInv'
  BY <1>3, NoneAssumption, ZenonT(30)
  DEF Release, Goto, Finish, Pending, locals, IndInv, ControlInv, TypeOK,
      CallFits, Apart, NoDuplicates, WithinCapacity, Size, Present, Locked,
      Reading, Storing, Deleting, Clearing
(* The thread that is inside a method holds the lock.                      *)
<1>4. ASSUME NEW t \in Threads, pc[t] \in Locked
      PROVE  /\ wlock = t /\ Apart(t) /\ CallFits(t)
             /\ result[t].status \notin {"IndexError", "ValueError", "EvictError"}
  BY <1>4 DEF IndInv, ControlInv
(* Its steps that change neither the queue nor the mapping.                *)
<1>5. ASSUME NEW t \in Threads, GetRead(t) \/ SetCheck(t) PROVE IndInv'
  <2>1. /\ wlock = t /\ Q = Present /\ k(t) \in Keys
        /\ CallFits(t)
    BY <1>4, <1>5
    DEF GetRead, SetCheck, Goto, Locked, Reading, Storing, Apart, CallFits
  <2>2. /\ UNCHANGED <<mapping, queue, wlock, call, popped>>
        /\ Present' = Present
    BY <1>5 DEF GetRead, SetCheck, locals, Present
  <2>3. CASE GetRead(t)
    <3>1. k(t) \in Present <=> mapping[k(t)] # None
      BY <2>1 DEF Present
    <3>2. k(t) \in Present => queue # <<>>
      BY <1>0, <2>1, Elements
    <3>3. Apart(t)'
      BY <2>1, <2>2, <2>3, <3>1, <3>2 DEF GetRead, Goto, Apart, TypeOK
    <3>4. QED
      BY <1>0, <2>1, <2>2, <2>3, <3>1, <3>2, <3>3, HolderStep
      DEF GetRead, Finish, Raised, Ok, TypeOK, WithinCapacity, Size,
          NoDuplicates
  <2>4. CASE SetCheck(t)
    <3>1. k(t) \notin Present => Cardinality(Present \cup {k(t)}) = Size + 1
      BY <1>0, FS_AddElement DEF Size
    <3>2. Apart(t)'
      BY <1>0, <2>1, <2>2, <2>4, <3>1 DEF SetCheck, Goto, Apart, TypeOK, Size
    <3>3. QED
      BY <1>0, <1>4, <2>1, <2>2, <2>4, <3>2, HolderStep
      DEF SetCheck, Goto, Locked, Storing, WithinCapacity, Size, NoDuplicates
  <2>5. QED
    BY <1>5, <2>3, <2>4
(* Its steps that change the queue.                                        *)
<1>6. ASSUME NEW t \in Threads, k(t) \in Q, queue' = RemoveFirst(queue, k(t))
      PROVE  /\ NoDuplicates' /\ Q' = Q \ {k(t)} /\ Len(queue') <= Capacity
             /\ queue' \in Seq(Keys)
  BY <1>0, <1>6, RemoveFirstDistinct DEF NoDuplicates
<1>7. ASSUME NEW t \in Threads, k(t) \in Keys \ Q, Len(queue) < Capacity,
             queue' = Append(queue, k(t))
      PROVE  /\ NoDuplicates' /\ Q' = Q \cup {k(t)} /\ Len(queue') <= Capacity
  BY <1>0, <1>7, AppendDistinct DEF NoDuplicates
<1>8. ASSUME NEW t \in Threads, GetRemove(t) PROVE IndInv'
  <2>1. /\ wlock = t /\ Q = Present /\ k(t) \in Present
        /\ UNCHANGED <<mapping, wlock, call, result, popped>>
        /\ queue' = RemoveFirst(queue, k(t))
        /\ pc'[t] = "get_append" /\ Present' = Present
    BY <1>4, <1>8
    DEF GetRemove, Goto, Locked, Reading, Apart, locals, TypeOK, Present
  <2>2. /\ NoDuplicates' /\ Q' = Q \ {k(t)} /\ Len(queue') <= Capacity
    BY <1>6, <2>1
  <2>3. Apart(t)'
    BY <2>1, <2>2 DEF Apart
  <2>4. QED
    BY <1>0, <1>4, <1>8, <2>1, <2>2, <2>3, HolderStep
    DEF GetRemove, Goto, Locked, Reading, WithinCapacity, Size
<1>9. ASSUME NEW t \in Threads, GetAppend(t) PROVE IndInv'
  <2>1. /\ wlock = t /\ Q = Present \ {k(t)} /\ k(t) \in Present
        /\ UNCHANGED <<mapping, wlock, call, result, popped>>
        /\ queue' = Append(queue, k(t))
        /\ pc'[t] = "release" /\ Present' = Present
    BY <1>4, <1>9
    DEF GetAppend, Goto, Locked, Reading, Apart, locals, TypeOK, Present
  <2>2. Len(queue) < Capacity /\ k(t) \in Keys \ Q
    <3>1. Cardinality(Present \ {k(t)}) = Size - 1
      BY <1>0, <2>1, FS_RemoveElement DEF Size
    <3>2. Len(queue) = Size - 1
      BY <1>0, <2>1, <3>1
    <3>3. Len(queue) < Capacity
      BY <1>0, <3>2
    <3>4. QED
      BY <2>1, <3>3 DEF Present
  <2>3. /\ NoDuplicates' /\ Q' = Q \cup {k(t)} /\ Len(queue') <= Capacity
    BY <1>7, <2>1, <2>2
  <2>4. Apart(t)'
    BY <2>1, <2>3 DEF Apart
  <2>5. QED
    BY <1>0, <1>4, <1>9, <2>1, <2>3, <2>4, HolderStep
    DEF GetAppend, Goto, Locked, Reading, WithinCapacity, Size
<1>10. ASSUME NEW t \in Threads, SetRemove(t) PROVE IndInv'
  <2>1. wlock = t /\ Q = Present /\ k(t) \in Present /\ k(t) \in Keys
    BY <1>4, <1>10
    DEF SetRemove, Goto, Locked, Storing, Apart, Present
  <2>2. Contains(queue, k(t))
    BY <1>0, <2>1, Elements DEF Contains
  <2>3. /\ UNCHANGED <<mapping, wlock, call, result, popped>>
        /\ queue' = RemoveFirst(queue, k(t))
        /\ pc'[t] = "set_append" /\ Present' = Present
    BY <1>10, <2>2 DEF SetRemove, Goto, locals, TypeOK, Present
  <2>4. /\ NoDuplicates' /\ Q' = Q \ {k(t)} /\ Len(queue') <= Capacity
    BY <1>6, <2>1, <2>3
  <2>5. Present \cup {k(t)} = Present
    BY <2>1
  <2>6. Apart(t)'
    BY <1>0, <2>1, <2>3, <2>4, <2>5 DEF Apart, Size
  <2>7. QED
    BY <1>0, <1>4, <1>10, <2>1, <2>3, <2>4, <2>6, HolderStep
    DEF SetRemove, Goto, Locked, Storing, WithinCapacity, Size
<1>11. ASSUME NEW t \in Threads, SetPopleft(t) PROVE IndInv'
  <2>1. /\ wlock = t /\ Q = Present /\ k(t) \notin Present /\ Size = Capacity
    BY <1>4, <1>11 DEF SetPopleft, Goto, Locked, Storing, Apart
  <2>2. queue # <<>>
    BY <1>0, <2>1, Elements, FS_EmptySet DEF Size
  <2>3. /\ UNCHANGED <<mapping, wlock, call, result>>
        /\ queue' = Tail(queue) /\ popped'[t] = Head(queue)
        /\ pc'[t] = "set_delete" /\ Present' = Present
    BY <1>11, <2>2 DEF SetPopleft, Goto, TypeOK, Present
  <2>4. /\ IsInjective(Tail(queue)) /\ Head(queue) \in Q
        /\ ToSet(Tail(queue)) = Q \ {Head(queue)}
        /\ Len(Tail(queue)) <= Capacity
    BY <1>0, <2>2, TailDistinct
  <2>5. Apart(t)'
    BY <2>1, <2>3, <2>4 DEF Apart, Size
  <2>6. QED
    BY <1>0, <1>4, <1>11, <2>1, <2>3, <2>4, <2>5, HolderStep
    DEF SetPopleft, Goto, Locked, Storing, WithinCapacity, Size, NoDuplicates
<1>12. ASSUME NEW t \in Threads, SetAppend(t) PROVE IndInv'
  <2>1. /\ wlock = t /\ Q = Present \ {k(t)} /\ k(t) \in Keys
        /\ Cardinality(Present \cup {k(t)}) <= Capacity
        /\ UNCHANGED <<mapping, wlock, call, result, popped>>
        /\ queue' = Append(queue, k(t))
        /\ pc'[t] = "set_store" /\ Present' = Present
    BY <1>4, <1>12
    DEF SetAppend, Goto, Locked, Storing, Apart, CallFits, locals, TypeOK,
        Present
  <2>2. Q \cup {k(t)} = Present \cup {k(t)} /\ k(t) \notin Q
    BY <2>1
  <2>3. Cardinality(Q \cup {k(t)}) = Len(queue) + 1
    BY <1>0, <2>2, FS_AddElement
  <2>4. Len(queue) < Capacity
    <3>1. Cardinality(Q \cup {k(t)}) <= Capacity
      BY <2>1, <2>2
    <3>2. QED
      BY <1>0, <2>3, <3>1
  <2>5. /\ NoDuplicates' /\ Q' = Q \cup {k(t)} /\ Len(queue') <= Capacity
    BY <1>7, <2>1, <2>2, <2>4
  <2>6. Apart(t)'
    BY <2>1, <2>2, <2>5 DEF Apart
  <2>7. QED
    BY <1>0, <1>4, <1>12, <2>1, <2>5, <2>6, HolderStep
    DEF SetAppend, Goto, Locked, Storing, WithinCapacity, Size
<1>13. ASSUME NEW t \in Threads, DelRemove(t) PROVE IndInv'
  <2>1. /\ wlock = t /\ k(t) \notin Present /\ Q = Present \cup {k(t)}
        /\ UNCHANGED <<mapping, wlock, call, result, popped>>
        /\ queue' = RemoveFirst(queue, k(t))
        /\ pc'[t] = "release" /\ Present' = Present
    BY <1>4, <1>13
    DEF DelRemove, Goto, Locked, Deleting, Apart, locals, TypeOK, Present
  <2>2. /\ NoDuplicates' /\ Q' = Q \ {k(t)} /\ Len(queue') <= Capacity
    BY <1>6, <2>1
  <2>3. Apart(t)'
    BY <2>1, <2>2 DEF Apart
  <2>4. QED
    BY <1>0, <1>4, <1>13, <2>1, <2>2, <2>3, HolderStep
    DEF DelRemove, Goto, Locked, Deleting, WithinCapacity, Size
<1>14. ASSUME NEW t \in Threads, ClearQueue(t) PROVE IndInv'
  <2>1. /\ wlock = t /\ Present = {}
        /\ UNCHANGED <<mapping, wlock, call, result, popped>>
        /\ queue' = <<>> /\ pc'[t] = "release" /\ Present' = Present
    BY <1>4, <1>14
    DEF ClearQueue, Goto, Locked, Clearing, Apart, locals, TypeOK, Present
  <2>2. /\ IsInjective(<<>>) /\ ToSet(<<>>) = {} /\ Len(<<>>) = 0
    <3>1. <<>> \in Seq(Keys) /\ Len(<<>>) = 0
      OBVIOUS
    <3>2. DOMAIN <<>> = 1..0 /\ ToSet(<<>>) = {}
      BY <3>1, Elements
    <3>3. IsInjective(<<>>)
      BY <3>2 DEF IsInjective
    <3>4. QED
      BY <3>1, <3>2, <3>3
  <2>3. Apart(t)'
    BY <2>1, <2>2 DEF Apart
  <2>4. QED
    BY <1>0, <1>4, <1>14, <2>1, <2>2, <2>3, HolderStep
    DEF ClearQueue, Goto, Locked, Clearing, WithinCapacity, Size, NoDuplicates
(* Its steps that change the mapping.                                      *)
<1>15. ASSUME NEW t \in Threads, SetDelete(t) PROVE IndInv'
  <2> DEFINE p == popped[t]
  <2>1. /\ wlock = t /\ k(t) \notin Present /\ Size = Capacity
        /\ p \in Present /\ Q = Present \ {p} /\ p \in Keys /\ k(t) # p
    BY <1>4, <1>15 DEF SetDelete, Goto, Locked, Storing, Apart, Present
  <2>2. /\ UNCHANGED <<queue, wlock, call, result>>
        /\ mapping' = [mapping EXCEPT ![p] = None]
        /\ pc'[t] = "set_append"
    BY <1>15, <2>1 DEF SetDelete, Goto, TypeOK
  <2>3. Present' = Present \ {p}
    BY <2>1, <2>2, PresentAfter
  <2>4. /\ IsFiniteSet(Present \ {p})
        /\ Cardinality(Present \ {p}) = Capacity - 1
        /\ Cardinality((Present \ {p}) \cup {k(t)}) = Capacity
    <3>1. /\ IsFiniteSet(Present \ {p})
          /\ Cardinality(Present \ {p}) = Capacity - 1
      BY <1>0, <2>1, FS_RemoveElement DEF Size
    <3>2. k(t) \notin Present \ {p}
      BY <2>1
    <3>3. Cardinality((Present \ {p}) \cup {k(t)}) = Capacity - 1 + 1
      BY <3>1, <3>2, FS_AddElement
    <3>4. QED
      BY <1>0, <3>1, <3>3
  <2>5. Apart(t)'
    BY <1>0, <2>1, <2>2, <2>3, <2>4 DEF Apart
  <2>6. QED
    BY <1>0, <1>4, <1>15, <2>1, <2>2, <2>3, <2>4, <2>5, HolderStep
    DEF SetDelete, Goto, Locked, Storing, WithinCapacity, Size, NoDuplicates
<1>16. ASSUME NEW t \in Threads, SetStore(t) PROVE IndInv'
  <2>1. /\ wlock = t /\ Q = Present \cup {k(t)} /\ Cardinality(Q) <= Capacity
        /\ k(t) \in Keys /\ call[t].val \in Values
    BY <1>4, <1>16 DEF SetStore, Goto, Locked, Storing, Apart, CallFits
  <2>2. /\ UNCHANGED <<queue, wlock, call>>
        /\ mapping' = [mapping EXCEPT ![k(t)] = call[t].val]
        /\ pc'[t] = "release" /\ result' = [result EXCEPT ![t] = Ok(call[t].val)]
    BY <1>16 DEF SetStore, Goto, Finish, TypeOK
  <2>3. Present' = Q
    BY <2>1, <2>2, PresentAfter
  <2>4. Apart(t)'
    BY <2>2, <2>3 DEF Apart
  <2>5. QED
    BY <1>0, <2>1, <2>2, <2>3, <2>4, HolderStep
    DEF TypeOK, Ok, WithinCapacity, Size, NoDuplicates
<1>17. ASSUME NEW t \in Threads, DelPop(t) PROVE IndInv'
  <2>1. wlock = t /\ Q = Present
    BY <1>4, <1>17 DEF DelPop, Goto, Locked, Deleting, Apart
  <2>2. UNCHANGED <<queue, wlock, call, popped>>
    BY <1>17 DEF DelPop, locals
  <2>3. CASE k(t) \in Present
    <3>1. /\ mapping' = [mapping EXCEPT ![k(t)] = None] /\ k(t) \in Keys
          /\ pc'[t] = "del_remove" /\ result' = [result EXCEPT ![t] = Ok(None)]
      BY <1>17, <2>3 DEF DelPop, Goto, Finish, TypeOK, Present
    <3>2. Present' = Present \ {k(t)}
      BY <3>1, PresentAfter
    <3>3. IsFiniteSet(Present \ {k(t)}) /\ Cardinality(Present \ {k(t)}) <= Capacity
      <4>1. /\ IsFiniteSet(Present \ {k(t)})
            /\ Cardinality(Present \ {k(t)}) = Size - 1
        BY <1>0, <2>3, FS_RemoveElement DEF Size
      <4>2. QED
        BY <1>0, <4>1
    <3>4. Apart(t)'
      BY <2>1, <2>2, <2>3, <3>1, <3>2 DEF Apart
    <3>5. QED
      BY <1>0, <2>1, <2>2, <3>1, <3>2, <3>3, <3>4, HolderStep
      DEF TypeOK, Ok, WithinCapacity, Size, NoDuplicates
  <2>4. CASE k(t) \notin Present
    <3>1. /\ mapping' = mapping /\ Present' = Present /\ pc'[t] = "release"
          /\ result' = [result EXCEPT ![t] = Raised("KeyError")]
      BY <1>17, <2>4 DEF DelPop, Goto, Finish, TypeOK, Present
    <3>2. Apart(t)'
      BY <2>1, <2>2, <3>1 DEF Apart
    <3>3. QED
      BY <1>0, <2>1, <2>2, <3>1, <3>2, HolderStep
      DEF TypeOK, Raised, WithinCapacity, Size, NoDuplicates
  <2>5. QED
    BY <2>3, <2>4
<1>18. ASSUME NEW t \in Threads, ClearMapping(t) PROVE IndInv'
  <2>1. /\ wlock = t /\ UNCHANGED <<queue, wlock, call, popped>>
        /\ mapping' = Empty /\ pc'[t] = "clr_queue"
        /\ result' = [result EXCEPT ![t] = Ok(None)]
    BY <1>4, <1>18
    DEF ClearMapping, Goto, Finish, Locked, Clearing, locals, TypeOK
  <2>2. Present' = {} /\ IsFiniteSet({}) /\ Cardinality({}) = 0
    BY <2>1, FS_EmptySet DEF Present, Empty
  <2>3. Apart(t)'
    BY <2>1, <2>2 DEF Apart
  <2>4. QED
    BY <1>0, <2>1, <2>2, <2>3, HolderStep
    DEF TypeOK, Ok, WithinCapacity, Size, NoDuplicates
(* The readers that take no lock.                                          *)
<1>19. ASSUME NEW t \in Threads, ItemsList(t) \/ CopyMapping(t) PROVE IndInv'
  BY <1>19, OutsideStep
  DEF ItemsList, CopyMapping, Goto, TypeOK, Locked, Reading, Storing, Deleting,
      Clearing
<1>20. ASSUME NEW t \in Threads, ItemsNext(t) \/ CopyQueue(t) PROVE IndInv'
  BY <1>20, OutsideStep
  DEF ItemsNext, CopyQueue, Goto, TypeOK, Locked, Reading, Storing, Deleting,
      Clearing
<1>21. CASE UNCHANGED vars
  BY <1>21
  DEF vars, IndInv, NoDuplicates, WithinCapacity, Size, Present, Apart
<1>22. QED
  BY <1>1, <1>2, <1>3, <1>5, <1>8, <1>9, <1>10, <1>11, <1>12, <1>13, <1>14,
     <1>15, <1>16, <1>17, <1>18, <1>19, <1>20, <1>21 DEF Next, Step

(* The inductive invariant, for any keys, values, threads and capacity.    *)
THEOREM Invariance == Spec => []IndInv
  BY IndInit, IndNext, PTL DEF Spec

-----------------------------------------------------------------------------
(* What the inductive invariant implies                                    *)

(* While no method is under way, _queue is a permutation of _mapping's keys. *)
THEOREM Mirrored == Spec => []QueueMirrorsMapping
<1>1. IndInv => QueueMirrorsMapping
  BY DEF IndInv, QueueMirrorsMapping
<1>2. QED
  BY <1>1, Invariance, PTL

(* The capacity is never exceeded, in any state an observer can see.       *)
THEOREM Bounded == Spec => []WithinCapacity
<1>1. IndInv => WithinCapacity
  BY DEF IndInv
<1>2. QED
  BY <1>1, Invariance, PTL

(* No method raises anything but the KeyError of an absent key.            *)
THEOREM OnlyKeyErrors == Spec => []NoInternalError
<1>1. IndInv => NoInternalError
  BY DEF IndInv, ControlInv, CallFits, NoInternalError
<1>2. QED
  BY <1>1, Invariance, PTL

(* An unlocked reader of the queue sees no key twice and misses at most one. *)
THEOREM ReadersSeeAllButOne == Spec => []ReadersMissAtMostOne
<1>1. ASSUME IndInv PROVE ReadersMissAtMostOne
  <2> DEFINE gap == Present \ ToSet(queue)
  <2>1. wlock \in Threads \cup {None} /\ NoDuplicates
    BY <1>1 DEF IndInv, ControlInv, TypeOK
  <2>2. \E k : gap \subseteq {k}
    <3>1. CASE wlock = None
      BY <1>1, <3>1 DEF IndInv
    <3>2. CASE wlock \in Threads
      BY <1>1, <3>2 DEF IndInv, Apart
    <3>3. QED
      BY <2>1, <3>1, <3>2
  <2>3. PICK k : gap \in SUBSET {k}
    BY <2>2
  <2>4. Cardinality(gap) <= 1
    <3>1. IsFiniteSet({k}) /\ Cardinality({k}) = 1
      BY FS_Singleton
    <3>2. IsFiniteSet(gap) /\ Cardinality(gap) <= Cardinality({k})
      BY <2>3, <3>1, FS_Subset
    <3>3. QED
      BY <3>1, <3>2
  <2>5. QED
    BY <2>1, <2>4 DEF ReadersMissAtMostOne
<1>2. QED
  BY <1>1, Invariance, PTL

-----------------------------------------------------------------------------
(* LRUCache implements RecencyCache: under the invariant above the         *)
(* statement that decides the outcome of a method is a step of             *)
(* RecencyCache, and every other one leaves the entries, the requests and  *)
(* the replies as they are.                                                *)

(* What else a thread carries at each statement: the calls that have not   *)
(* been decided have no outcome yet.                                       *)
Carried(t) ==
    /\ pc[t] = "idle" => call[t] = NoCall
    /\ pc[t] \in {"items_list", "items_next"} => call[t].op = "items"
    /\ pc[t] \in {"copy_mapping", "copy_queue"} => call[t].op = "copy"
    /\ result[t].status = "pending" => result[t] = Pending
    /\ pc[t] \in {"get_read", "del_pop", "clr_mapping"} \cup Storing
           => result[t] = Pending
    /\ pc[t] \in {"get_remove", "get_append", "del_remove", "clr_queue", "release"}
           => result[t].status # "pending"

CarriedInv == \A t \in Threads : Carried(t)

LEMMA CarriedInit == Init => CarriedInv
  BY DEF Init, CarriedInv, Carried, Storing, Pending

LEMMA CarriedNext == ControlInv /\ CarriedInv /\ [Next]_vars => CarriedInv'
<1> SUFFICES ASSUME ControlInv, CarriedInv, [Next]_vars, NEW u \in Threads
             PROVE  Carried(u)'
  BY DEF CarriedInv
<1>1. TypeOK /\ Carried(u)
  BY DEF ControlInv, CarriedInv
<1> USE <1>1 DEF TypeOK, Carried, Storing, Goto, Finish, Ok, Raised, Pending, locals
<1>2. ASSUME NEW t \in Threads, Invoke(t) PROVE Carried(u)'
  <2>1. PICK c \in Calls : /\ call' = [call EXCEPT ![t] = c]
                          /\ pc[t] = "idle" /\ result' = result
                          /\ pc' = [pc EXCEPT ![t] =
                                       CASE c.op = "items" -> "items_list"
                                         [] c.op = "copy" -> "copy_mapping"
                                         [] OTHER -> "acquire"]
    BY <1>2 DEF Invoke
  <2>2. pc'[t] \in {"items_list", "copy_mapping", "acquire"}
    BY <2>1
  <2>3. QED
    BY <2>1, <2>2
<1>3. ASSUME NEW t \in Threads, Acquire(t) PROVE Carried(u)'
  <2>1. /\ call[t].op \in {"get", "set", "setdefault", "store_default",
                           "del", "clear"}
        /\ result[t].status = "pending"
    BY <1>3 DEF Acquire, ControlInv, CallFits, Locked, Reading, Deleting, Clearing
  <2>2. pc'[t] \in {"get_read", "set_check", "del_pop", "clr_mapping"}
    BY <1>3, <2>1 DEF Acquire, Entry
  <2>3. QED
    BY <1>3, <2>1, <2>2 DEF Acquire
<1>4. ASSUME NEW t \in Threads, Release(t) PROVE Carried(u)'
  BY <1>4 DEF Release, NoCall
<1>5. ASSUME NEW t \in Threads, GetRead(t) PROVE Carried(u)'
  BY <1>5 DEF GetRead
<1>6. ASSUME NEW t \in Threads, GetRemove(t) PROVE Carried(u)'
  BY <1>6 DEF GetRemove
<1>7. ASSUME NEW t \in Threads, GetAppend(t) PROVE Carried(u)'
  BY <1>7 DEF GetAppend
<1>8. ASSUME NEW t \in Threads, SetCheck(t) PROVE Carried(u)'
  BY <1>8 DEF SetCheck
<1>9. ASSUME NEW t \in Threads, SetRemove(t) PROVE Carried(u)'
  BY <1>9 DEF SetRemove
<1>10. ASSUME NEW t \in Threads, SetPopleft(t) PROVE Carried(u)'
  BY <1>10 DEF SetPopleft
<1>11. ASSUME NEW t \in Threads, SetDelete(t) PROVE Carried(u)'
  BY <1>11 DEF SetDelete
<1>12. ASSUME NEW t \in Threads, SetAppend(t) PROVE Carried(u)'
  BY <1>12 DEF SetAppend
<1>13. ASSUME NEW t \in Threads, SetStore(t) PROVE Carried(u)'
  BY <1>13 DEF SetStore
<1>14. ASSUME NEW t \in Threads, DelPop(t) PROVE Carried(u)'
  BY <1>14 DEF DelPop
<1>15. ASSUME NEW t \in Threads, DelRemove(t) PROVE Carried(u)'
  BY <1>15 DEF DelRemove
<1>16. ASSUME NEW t \in Threads, ClearMapping(t) PROVE Carried(u)'
  BY <1>16 DEF ClearMapping
<1>17. ASSUME NEW t \in Threads, ClearQueue(t) PROVE Carried(u)'
  BY <1>17 DEF ClearQueue
<1>18. ASSUME NEW t \in Threads, ItemsList(t) PROVE Carried(u)'
  BY <1>18 DEF ItemsList
<1>19. ASSUME NEW t \in Threads, ItemsNext(t) PROVE Carried(u)'
  BY <1>19 DEF ItemsNext, NoCall
<1>20. ASSUME NEW t \in Threads, CopyMapping(t) PROVE Carried(u)'
  BY <1>20 DEF CopyMapping
<1>21. ASSUME NEW t \in Threads, CopyQueue(t) PROVE Carried(u)'
  BY <1>21 DEF CopyQueue, NoCall
<1>22. CASE UNCHANGED vars
  BY <1>22 DEF vars
<1>23. QED
  BY <1>2, <1>3, <1>4, <1>5, <1>6, <1>7, <1>8, <1>9, <1>10, <1>11, <1>12, <1>13, <1>14, <1>15, <1>16, <1>17, <1>18, <1>19, <1>20, <1>21, <1>22 DEF Next, Step

LEMMA CarriedHolds == Spec => []CarriedInv
<1>1. Spec => []ControlInv
  BY ControlInit, ControlNext, PTL DEF Spec
<1>2. QED
  BY <1>1, CarriedInit, CarriedNext, PTL DEF Spec

-----------------------------------------------------------------------------
(* The entries of a mapping and a queue                                    *)

Zipped(m, q) == [i \in 1..Len(q) |-> [key |-> q[i], val |-> m[q[i]]]]

Mappings    == [Keys -> Values \cup {None}]
CacheEntry  == [key : Keys, val : Values \cup {None}]

LEMMA ZipEntries ==
    ASSUME NEW m \in Mappings, NEW q \in Seq(Keys)
    PROVE  /\ Zipped(m, q) \in Seq(CacheEntry)
           /\ Len(Zipped(m, q)) = Len(q)
           /\ \A i \in 1..Len(q) : Zipped(m, q)[i] = [key |-> q[i], val |-> m[q[i]]]
           /\ Held(Zipped(m, q)) = ToSet(q)
           /\ IsInjective(q) => KeysOnce(Zipped(m, q))
<1> DEFINE z == Zipped(m, q)
<1>1. \A i \in 1..Len(q) : [key |-> q[i], val |-> m[q[i]]] \in CacheEntry
  BY DEF Mappings, CacheEntry
<1>2. /\ z \in Seq(CacheEntry) /\ Len(z) = Len(q)
      /\ \A i \in 1..Len(q) : z[i] = [key |-> q[i], val |-> m[q[i]]]
  BY <1>1 DEF Zipped
<1> HIDE DEF z
<1>3. ASSUME NEW i \in 1..Len(q) PROVE z[i].key = q[i]
  <2>1. z[i] = [key |-> q[i], val |-> m[q[i]]]
    BY <1>2
  <2>2. QED
    BY <2>1
<1>4. Held(z) = ToSet(q)
  <2>1. ToSet(z) = {z[i] : i \in 1..Len(q)} /\ ToSet(q) = {q[i] : i \in 1..Len(q)}
    BY <1>2, Elements
  <2>2. ASSUME NEW k \in Held(z) PROVE k \in ToSet(q)
    BY <1>3, <2>1, <2>2 DEF Held
  <2>3. ASSUME NEW k \in ToSet(q) PROVE k \in Held(z)
    BY <1>3, <2>1, <2>3 DEF Held
  <2>4. QED
    BY <2>2, <2>3
<1>5. IsInjective(q) => KeysOnce(z)
  <2>1. DOMAIN z = 1..Len(q) /\ DOMAIN q = 1..Len(q)
    BY <1>2
  <2>2. QED
    BY <1>3, <2>1 DEF IsInjective, KeysOnce
<1>6. QED
  BY <1>2, <1>4, <1>5 DEF z

(* Two mappings that agree on the keys of the queue have the same entries. *)
LEMMA ZipSame ==
    ASSUME NEW m, NEW n, NEW q \in Seq(Keys), \A k \in ToSet(q) : m[k] = n[k]
    PROVE  Zipped(m, q) = Zipped(n, q)
<1>1. \A i \in 1..Len(q) : m[q[i]] = n[q[i]]
  BY Elements
<1>2. QED
  BY <1>1 DEF Zipped

LEMMA ZipValue ==
    ASSUME NEW m \in Mappings, NEW q \in Seq(Keys), IsInjective(q),
           NEW k \in ToSet(q)
    PROVE  ValueOf(Zipped(m, q), k) = m[k]
<1> DEFINE z == Zipped(m, q)
<1>1. PICK i \in 1..Len(q) : q[i] = k
  BY Elements
<1>2. /\ z \in Seq(CacheEntry) /\ Len(z) = Len(q) /\ KeysOnce(z)
      /\ z[i] = [key |-> k, val |-> m[k]]
  BY <1>1, ZipEntries
<1> HIDE DEF z
<1>3. z[i] \in ToSet(z)
  BY <1>1, <1>2, Elements
<1>4. QED
  BY <1>2, <1>3, ValueOfEntry DEF z

(* A new key at the end of the queue is a new entry at the end.            *)
LEMMA ZipAppend ==
    ASSUME NEW m \in Mappings, NEW q \in Seq(Keys), NEW k \in Keys,
           k \notin ToSet(q), NEW v \in Values \cup {None}
    PROVE  Zipped(Put(m, k, v), Append(q, k)) =
               Append(Zipped(m, q), [key |-> k, val |-> v])
<1> DEFINE n == Put(m, k, v)
           r == Append(q, k)
           e == [key |-> k, val |-> v]
           z == Zipped(m, q)
           y == Zipped(n, r)
<1>1. n \in Mappings /\ n[k] = v /\ \A j \in Keys \ {k} : n[j] = m[j]
  BY DEF Mappings, Put
<1>2. /\ r \in Seq(Keys) /\ Len(r) = Len(q) + 1 /\ r[Len(q) + 1] = k
      /\ \A i \in 1..Len(q) : r[i] = q[i] /\ q[i] \in Keys \ {k}
  BY Elements
<1>3. e \in CacheEntry
  BY DEF CacheEntry
<1>4. /\ z \in Seq(CacheEntry) /\ Len(z) = Len(q)
      /\ \A i \in 1..Len(q) : z[i] = [key |-> q[i], val |-> m[q[i]]]
  BY ZipEntries
<1> HIDE DEF n, r, e, z
<1>5. /\ y \in Seq(CacheEntry) /\ Len(y) = Len(q) + 1
      /\ \A i \in 1..Len(q) + 1 : y[i] = [key |-> r[i], val |-> n[r[i]]]
  BY <1>1, <1>2, ZipEntries
<1> HIDE DEF y
<1>6. /\ Append(z, e) \in Seq(CacheEntry)
      /\ Len(Append(z, e)) = Len(q) + 1
      /\ \A i \in 1..Len(q) : Append(z, e)[i] = z[i]
      /\ Append(z, e)[Len(q) + 1] = e
  BY <1>3, <1>4
<1>7. \A i \in 1..Len(q) : y[i] = Append(z, e)[i]
  BY <1>1, <1>2, <1>4, <1>5, <1>6, SMTT(30)
<1>8. y[Len(q) + 1] = Append(z, e)[Len(q) + 1]
  BY <1>1, <1>2, <1>5, <1>6 DEF e
<1>9. y = Append(z, e)
  <2>1. ASSUME NEW i \in 1..Len(y) PROVE y[i] = Append(z, e)[i]
    <3>1. i \in 1..Len(q) \/ i = Len(q) + 1
      BY <1>5
    <3>2. QED
      BY <1>7, <1>8, <3>1
  <2>2. QED
    BY <1>5, <1>6, <2>1, SeqEqual
<1>10. QED
  BY <1>9 DEF n, r, e, z, y

LEMMA ZipTail ==
    ASSUME NEW m \in Mappings, NEW q \in Seq(Keys), q # <<>>
    PROVE  Tail(Zipped(m, q)) = Zipped(m, Tail(q))
<1> DEFINE z == Zipped(m, q)
           r == Tail(q)
           y == Zipped(m, r)
<1>1. /\ r \in Seq(Keys) /\ Len(r) = Len(q) - 1 /\ Len(q) \in Nat \ {0}
      /\ \A i \in 1..Len(q) - 1 : r[i] = q[i + 1]
  OBVIOUS
<1> HIDE DEF r
<1>2. /\ z \in Seq(CacheEntry) /\ Len(z) = Len(q)
      /\ \A i \in 1..Len(q) : z[i] = [key |-> q[i], val |-> m[q[i]]]
  BY ZipEntries
<1>3. /\ y \in Seq(CacheEntry) /\ Len(y) = Len(q) - 1
      /\ \A i \in 1..Len(q) - 1 : y[i] = [key |-> r[i], val |-> m[r[i]]]
  BY <1>1, ZipEntries
<1> HIDE DEF y, z
<1>4. z # <<>>
  BY <1>1, <1>2
<1>5. /\ Tail(z) \in Seq(CacheEntry) /\ Len(Tail(z)) = Len(q) - 1
      /\ \A i \in 1..Len(q) - 1 : Tail(z)[i] = z[i + 1]
  BY <1>2, <1>4
<1>6. ASSUME NEW i \in 1..Len(q) - 1 PROVE Tail(z)[i] = y[i]
  <2>1. i + 1 \in 1..Len(q) /\ r[i] = q[i + 1]
    BY <1>1
  <2>2. QED
    BY <1>2, <1>3, <1>5, <2>1
<1>7. QED
  BY <1>3, <1>5, <1>6, SeqEqual DEF y, r, z

(* Taking a key off the queue takes its entry away.                        *)
LEMMA ZipWithout ==
    ASSUME NEW m \in Mappings, NEW q \in Seq(Keys), IsInjective(q), NEW k
    PROVE  Without(Zipped(m, q), k) = Zipped(m, RemoveFirst(q, k))
<1> DEFINE z == Zipped(m, q)
<1>1. /\ z \in Seq(CacheEntry) /\ Len(z) = Len(q)
      /\ \A i \in 1..Len(q) : z[i] = [key |-> q[i], val |-> m[q[i]]]
  BY ZipEntries
<1> HIDE DEF z
<1>0. ASSUME NEW i \in 1..Len(z) PROVE z[i].key = q[i]
  <2>1. z[i] = [key |-> q[i], val |-> m[q[i]]]
    BY <1>1
  <2>2. QED
    BY <2>1
<1>2. CASE k \notin ToSet(q)
  <2>1. \A i \in 1..Len(q) : q[i] # k
    BY <1>2, Elements
  <2>2. RemoveFirst(q, k) = q
    BY <2>1 DEF RemoveFirst
  <2>3. Without(z, k) = z
    BY <1>0, <1>1, <2>1, WithoutAbsent
  <2>4. QED
    BY <2>2, <2>3 DEF z
<1>3. CASE k \in ToSet(q)
  <2>1. PICK n \in 1..Len(q) : q[n] = k
    BY <1>3, Elements
  <2>2. \A i \in 1..Len(q) : q[i] = k <=> i = n
    BY <2>1 DEF IsInjective
  <2>3. RemoveFirst(q, k) = RemoveAt(q, n)
    BY <2>2, RemoveFirstAt
  <2>4. Without(z, k) = RemoveAt(z, n)
    <3>1. n \in 1..Len(z) /\ \A i \in 1..Len(z) : z[i].key = k <=> i = n
      BY <1>0, <1>1, <2>2
    <3>2. QED
      BY <1>1, <3>1, WithoutAt
  <2> DEFINE r == RemoveAt(q, n)
             w == RemoveAt(z, n)
             y == Zipped(m, r)
  <2>5. /\ r \in Seq(Keys) /\ Len(r) = Len(q) - 1
        /\ \A i \in 1..Len(q) - 1 : r[i] = IF i < n THEN q[i] ELSE q[i + 1]
    BY RemoveAtIndices
  <2>6. /\ w \in Seq(CacheEntry) /\ Len(w) = Len(q) - 1
        /\ \A i \in 1..Len(q) - 1 : w[i] = IF i < n THEN z[i] ELSE z[i + 1]
    BY <1>1, RemoveAtIndices
  <2> HIDE DEF r, w
  <2>7. /\ y \in Seq(CacheEntry) /\ Len(y) = Len(q) - 1
        /\ \A i \in 1..Len(q) - 1 : y[i] = [key |-> r[i], val |-> m[r[i]]]
    BY <2>5, ZipEntries
  <2> HIDE DEF y
  <2>8. ASSUME NEW i \in 1..Len(q) - 1 PROVE w[i] = y[i]
    <3>1. i \in 1..Len(q) /\ i + 1 \in 1..Len(q)
      OBVIOUS
    <3>2. CASE i < n
      BY <1>1, <2>5, <2>6, <2>7, <3>1, <3>2
    <3>3. CASE ~ (i < n)
      BY <1>1, <2>5, <2>6, <2>7, <3>1, <3>3, ZenonT(30)
    <3>4. QED
      BY <3>2, <3>3
  <2>9. w = y
    BY <2>6, <2>7, <2>8, SeqEqual
  <2>10. QED
    BY <2>3, <2>4, <2>9 DEF y, w, r, z
<1>4. QED
  BY <1>2, <1>3

LEMMA RemoveFirstAbsent ==
    ASSUME NEW q \in Seq(Keys), NEW k, k \notin ToSet(q)
    PROVE  RemoveFirst(q, k) = q
<1>1. \A i \in 1..Len(q) : q[i] # k
  BY Elements
<1>2. QED
  BY <1>1 DEF RemoveFirst

(* Making k, with the value v, the most recently used key.                 *)
LEMMA ZipPutLast ==
    ASSUME NEW m \in Mappings, NEW q \in Seq(Keys), IsInjective(q),
           NEW k \in Keys, NEW v \in Values \cup {None}
    PROVE  PutLast(Zipped(m, q), k, v) =
               Zipped(Put(m, k, v), Append(RemoveFirst(q, k), k))
<1> DEFINE r == RemoveFirst(q, k)
<1>1. r \in Seq(Keys) /\ k \notin ToSet(r)
  BY RemoveFirstDistinct, RemoveFirstAbsent
<1>2. Without(Zipped(m, q), k) = Zipped(m, r)
  BY ZipWithout
<1> HIDE DEF r
<1>3. Zipped(Put(m, k, v), Append(r, k)) = Append(Zipped(m, r), [key |-> k, val |-> v])
  BY <1>1, ZipAppend
<1>4. QED
  BY <1>2, <1>3 DEF PutLast, r

-----------------------------------------------------------------------------
(* The steps of the cache, seen as steps on its entries                    *)

(* RecencyCache speaks of entries in the same terms.                       *)
LEMMA SameEntries ==
    ASSUME NEW s, NEW k, NEW v
    PROVE  /\ Recency!Held(s) = Held(s)
           /\ Recency!ValueOf(s, k) = ValueOf(s, k)
           /\ Recency!Without(s, k) = Without(s, k)
           /\ Recency!Touched(s, k) = Touched(s, k)
           /\ \A c : Recency!Stored(s, k, v, c) = Stored(s, k, v, c)
<1>1. \A q : Recency!ToSet(q) = ToSet(q)
  BY DEF Recency!ToSet, ToSet
<1>2. Recency!Held(s) = Held(s)
  BY <1>1 DEF Recency!Held, Held
<1>3. \A q : Recency!ValueOf(q, k) = ValueOf(q, k)
  BY <1>1 DEF Recency!ValueOf, ValueOf
<1>4. \A q : Recency!Without(q, k) = Without(q, k)
  BY DEF Recency!Without, Without, Recency!RemoveFirstMatch, RemoveFirstMatch,
         Recency!RemoveAt, RemoveAt, Recency!SelectInSeq, SelectInSeq, Recency!Min, Min
<1>5. QED
  BY <1>2, <1>3, <1>4 DEF Recency!Touched, Touched, Recency!PutLast, PutLast,
         Recency!Stored, Stored

LEMMA SameReplies ==
    /\ Recency!NoRequest = NoCall /\ Recency!Pending = Pending
    /\ Recency!Missing = Raised("KeyError") /\ \A v : Recency!Ok(v) = Ok(v)
  BY DEF Recency!NoRequest, NoCall, Recency!Pending, Pending, Recency!Missing,
         Raised, Recency!Ok, Ok

LEMMA EntriesOf ==
    /\ wlock = None => Entries = Zipped(mapping, queue)
    /\ wlock # None => Entries = Zipped(SettledMapping(wlock), SettledQueue(wlock))
    /\ wlock' = None => Entries' = Zipped(mapping', queue')
    /\ wlock' # None =>
          Entries' = Zipped(SettledMapping(wlock)', SettledQueue(wlock)')
  BY DEF Entries, Zipped

(* A step of t shows in t's request and reply only.                        *)
Local(t) == \A u \in Threads \ {t} : /\ pc'[u] = pc[u] /\ call'[u] = call[u]
                                     /\ result'[u] = result[u]
                                     /\ popped'[u] = popped[u]

LEMMA LocalShows ==
    ASSUME NEW t \in Threads, Local(t)
    PROVE  /\ Asked[t] = Request(t) /\ Answered[t] = Outcome(t)
           /\ Asked' = [Asked EXCEPT ![t] = Request(t)']
           /\ Answered' = [Answered EXCEPT ![t] = Outcome(t)']
           /\ Request(t)' = Request(t) => Asked' = Asked
           /\ Outcome(t)' = Outcome(t) => Answered' = Answered
<1>1. \A u \in Threads \ {t} : Request(u)' = Request(u) /\ Outcome(u)' = Outcome(u)
  BY DEF Local, Request, Outcome, DueToStore
<1>2. QED
  BY <1>1 DEF Asked, Answered

LEMMA LocalStutter ==
    ASSUME NEW t \in Threads, Local(t), Entries' = Entries,
           Request(t)' = Request(t), Outcome(t)' = Outcome(t)
    PROVE  UNCHANGED Recency!vars
  BY LocalShows DEF Recency!vars

(* A step of a thread that does not hold the lock.                         *)
LEMMA OutsideEntries ==
    ASSUME IndInv, NEW t \in Threads, Local(t), wlock # t, wlock' = wlock,
           UNCHANGED <<mapping, queue>>
    PROVE  Entries' = Entries
<1>1. CASE wlock = None
  BY <1>1, EntriesOf
<1>2. CASE wlock \in Threads \ {t}
  <2>1. /\ SettledMapping(wlock)' = SettledMapping(wlock)
        /\ SettledQueue(wlock)' = SettledQueue(wlock)
    BY <1>2 DEF Local, SettledMapping, SettledQueue
  <2>2. QED
    BY <1>2, <2>1, EntriesOf
<1>3. QED
  BY <1>1, <1>2 DEF IndInv, ControlInv, TypeOK

(* The thread that holds the lock and what it finds.                       *)
LEMMA HolderHas ==
    ASSUME IndInv, NEW t \in Threads, pc[t] \in Locked
    PROVE  /\ wlock = t /\ t # None /\ Apart(t)
           /\ mapping \in Mappings /\ queue \in Seq(Keys) /\ IsInjective(queue)
           /\ Entries = Zipped(SettledMapping(t), SettledQueue(t))
           /\ CallFits(t) /\ call[t] \in CallRecords
           /\ result[t] \in Outcomes /\ popped[t] \in Keys \cup {None}
<1>1. wlock = t
  BY DEF IndInv, ControlInv
<1>2. t # None
  BY NoneAssumption
<1>3. QED
  BY <1>1, <1>2, EntriesOf
     DEF IndInv, ControlInv, TypeOK, Mappings, NoDuplicates

LEMMA RecencyInit == Init => Recency!Init
<1> SUFFICES ASSUME Init PROVE Recency!Init
  OBVIOUS
<1>1. Entries = <<>>
  BY DEF Init, Entries
<1>2. \A t \in Threads : Request(t) = NoCall /\ Outcome(t) = Pending
  BY DEF Init, Request, Outcome, DueToStore, NoCall, Pending
<1>3. QED
  BY <1>1, <1>2, SameReplies DEF Recency!Init, Asked, Answered

(* A thread that holds the lock keeps it, and only completes what its      *)
(* method has begun.                                                       *)
LEMMA HolderStutter ==
    ASSUME IndInv, NEW t \in Threads, pc[t] \in Locked, Local(t), wlock' = wlock,
           call' = call, Outcome(t)' = Outcome(t), DueToStore(t)' = DueToStore(t),
           SettledQueue(t)' = SettledQueue(t),
           SettledMapping(t)' = SettledMapping(t)
    PROVE  UNCHANGED Recency!vars
<1>1. wlock = t /\ t # None
  BY HolderHas
<1>2. Entries' = Entries
  BY <1>1, EntriesOf
<1>3. Request(t)' = Request(t)
  BY DEF Request
<1>4. QED
  BY <1>2, <1>3, LocalStutter

(* The statements that complete a lookup, a store, a deletion, a clear.    *)
LEMMA Completing ==
    ASSUME IndInv, CarriedInv, NEW t \in Threads,
           \/ GetRemove(t) \/ GetAppend(t) \/ SetRemove(t) \/ SetPopleft(t)
           \/ SetDelete(t) \/ SetAppend(t) \/ SetStore(t) \/ DelRemove(t)
           \/ ClearQueue(t)
    PROVE  UNCHANGED Recency!vars
<1> USE DEF Goto, Finish, locals, Locked, Reading, Storing, Deleting, Clearing
<1>1. TypeOK /\ Carried(t)
  BY DEF IndInv, ControlInv, CarriedInv
<1>2. pc[t] \in Locked
  BY DEF GetRemove, GetAppend, SetRemove, SetPopleft, SetDelete, SetAppend,
         SetStore, DelRemove, ClearQueue
<1>3. /\ wlock = t /\ Apart(t) /\ CallFits(t) /\ IsInjective(queue)
      /\ queue \in Seq(Keys) /\ ToSet(queue) = {queue[i] : i \in 1..Len(queue)}
  BY <1>2, HolderHas, Elements
<1>4. Local(t)
  BY <1>1 DEF Local, TypeOK, GetRemove, GetAppend, SetRemove, SetPopleft, SetDelete,
              SetAppend, SetStore, DelRemove, ClearQueue
<1> DEFINE Same == /\ Outcome(t)' = Outcome(t) /\ DueToStore(t)' = DueToStore(t)
                   /\ SettledQueue(t)' = SettledQueue(t)
                   /\ SettledMapping(t)' = SettledMapping(t)
<1>5. wlock' = wlock /\ call' = call
  BY DEF GetRemove, GetAppend, SetRemove, SetPopleft, SetDelete,
         SetAppend, SetStore, DelRemove, ClearQueue
<1> USE DEF Outcome, DueToStore, SettledQueue, SettledMapping, TypeOK
<1>6. CASE GetRemove(t)
  <2>1. Same
    BY <1>1, <1>6 DEF GetRemove
  <2>2. QED
    BY <1>2, <1>4, <1>5, <2>1, HolderStutter
<1>7. CASE GetAppend(t)
  <2>1. Same
    BY <1>1, <1>7 DEF GetAppend
  <2>2. QED
    BY <1>2, <1>4, <1>5, <2>1, HolderStutter
<1>8. CASE SetRemove(t)
  <2>1. Contains(queue, call[t].key)
    BY <1>3, <1>8 DEF SetRemove, Contains, Apart
  <2>2. Same
    BY <1>1, <1>8, <2>1 DEF SetRemove
  <2>3. QED
    BY <1>2, <1>4, <1>5, <2>2, HolderStutter
<1>9. CASE SetPopleft(t)
  <2>1. queue # <<>>
    BY <1>3, <1>9, CapacityAssumption, Elements, FS_EmptySet
       DEF SetPopleft, Apart, Size, IndInv
  <2>2. Same
    BY <1>1, <1>9, <2>1 DEF SetPopleft, Put
  <2>3. QED
    BY <1>2, <1>4, <1>5, <2>2, HolderStutter
<1>10. CASE SetDelete(t)
  <2>1. popped[t] \in Present
    BY <1>3, <1>10 DEF SetDelete, Apart
  <2>2. Same
    BY <1>1, <1>10, <2>1 DEF SetDelete, Put
  <2>3. QED
    BY <1>2, <1>4, <1>5, <2>2, HolderStutter
<1>11. CASE SetAppend(t)
  <2>1. Same
    BY <1>1, <1>11 DEF SetAppend
  <2>2. QED
    BY <1>2, <1>4, <1>5, <2>1, HolderStutter
<1>12. CASE SetStore(t)
  <2>1. call[t].op \in {"set", "store_default"}
    BY <1>3, <1>12 DEF SetStore, CallFits
  <2>2. Same
    BY <1>1, <1>12, <2>1 DEF SetStore, Put, Ok
  <2>3. QED
    BY <1>2, <1>4, <1>5, <2>2, HolderStutter
<1>13. CASE DelRemove(t)
  <2>1. Same
    BY <1>1, <1>13 DEF DelRemove
  <2>2. QED
    BY <1>2, <1>4, <1>5, <2>1, HolderStutter
<1>14. CASE ClearQueue(t)
  <2>1. Same
    BY <1>1, <1>14 DEF ClearQueue
  <2>2. QED
    BY <1>2, <1>4, <1>5, <2>1, HolderStutter
<1>15. QED
  BY <1>6, <1>7, <1>8, <1>9, <1>10, <1>11, <1>12, <1>13, <1>14

(* The readers that take no lock, and the wait for it.                     *)
LEMMA Unlocked ==
    ASSUME IndInv, CarriedInv, NEW t \in Threads,
           \/ ItemsList(t) \/ ItemsNext(t) \/ CopyMapping(t) \/ CopyQueue(t)
    PROVE  UNCHANGED Recency!vars
<1> USE DEF Goto, Finish, locals
<1>1. TypeOK /\ Carried(t) /\ CallFits(t)
  BY DEF IndInv, ControlInv, CarriedInv
<1>2. /\ pc[t] \in {"items_list", "items_next", "copy_mapping", "copy_queue"}
      /\ pc'[t] \in {"items_next", "copy_queue", "idle"}
      /\ UNCHANGED <<mapping, queue, wlock, result, popped>>
      /\ call'[t] \in {call[t], NoCall}
      /\ pc'[t] # "idle" => call'[t] = call[t]
      /\ pc'[t] = "idle" => call'[t] = NoCall
  BY <1>1 DEF ItemsList, ItemsNext, CopyMapping, CopyQueue, TypeOK
<1>3. Local(t)
  BY <1>1 DEF Local, TypeOK, ItemsList, ItemsNext, CopyMapping, CopyQueue
<1>4. wlock # t
  BY <1>2 DEF IndInv, ControlInv, Locked, Reading, Storing, Deleting, Clearing
<1>5. Entries' = Entries
  BY <1>2, <1>3, <1>4, OutsideEntries
<1>6. call[t].op \in {"items", "copy"}
  BY <1>1, <1>2 DEF Carried
<1>7. Request(t)' = NoCall /\ Request(t) = NoCall
  BY <1>2, <1>6 DEF Request, DueToStore, NoCall
<1>8. Outcome(t)' = Outcome(t)
  BY <1>2, <1>6 DEF Outcome, NoCall
<1>9. QED
  BY <1>3, <1>5, <1>7, <1>8, LocalStutter

LEMMA Acquiring ==
    ASSUME IndInv, CarriedInv, NEW t \in Threads, Acquire(t)
    PROVE  UNCHANGED Recency!vars
<1> USE DEF Goto, locals
<1>1. TypeOK /\ CallFits(t)
  BY DEF IndInv, ControlInv
<1>2. /\ pc[t] = "acquire" /\ wlock = None /\ wlock' = t /\ t # None
      /\ pc'[t] = Entry(call[t].op)
      /\ UNCHANGED <<mapping, queue, call, result, popped>>
  BY <1>1, NoneAssumption DEF Acquire, TypeOK
<1>3. Local(t)
  BY <1>1 DEF Local, TypeOK, Acquire
<1>4. pc'[t] \in {"get_read", "set_check", "del_pop", "clr_mapping"}
  BY <1>1, <1>2 DEF CallFits, Entry
<1>5. SettledMapping(t)' = mapping /\ SettledQueue(t)' = queue
  BY <1>2, <1>4 DEF SettledMapping, SettledQueue
<1>6. Entries' = Entries
  BY <1>2, <1>5, EntriesOf
<1>7. Request(t)' = Request(t) /\ Outcome(t)' = Outcome(t)
  BY <1>2, <1>4 DEF Request, Outcome, DueToStore
<1>8. QED
  BY <1>3, <1>6, <1>7, LocalStutter

(* The statements that decide an outcome are the steps of RecencyCache.    *)
LEMMA Invoking ==
    ASSUME IndInv, CarriedInv, NEW t \in Threads, Invoke(t)
    PROVE  Recency!Next \/ UNCHANGED Recency!vars
<1> USE DEF Goto, locals
<1>1. TypeOK /\ Carried(t) /\ CallFits(t)
  BY DEF IndInv, ControlInv, CarriedInv
<1>2. PICK c \in Calls :
          /\ pc[t] = "idle" /\ call' = [call EXCEPT ![t] = c]
          /\ pc' = [pc EXCEPT ![t] = CASE c.op = "items" -> "items_list"
                                       [] c.op = "copy" -> "copy_mapping"
                                       [] OTHER -> "acquire"]
          /\ UNCHANGED <<mapping, queue, wlock, result, popped>>
  BY DEF Invoke
<1>3. Local(t)
  BY <1>1, <1>2 DEF Local, TypeOK
<1>4. wlock # t
  BY <1>2 DEF IndInv, ControlInv, Locked, Reading, Storing, Deleting, Clearing
<1>5. Entries' = Entries
  BY <1>2, <1>3, <1>4, OutsideEntries
<1>6. call[t] = NoCall /\ result[t] = Pending /\ call'[t] = c /\ result'[t] = Pending
  BY <1>1, <1>2 DEF Carried, CallFits, Locked, Reading, Storing, Deleting,
                    Clearing, TypeOK
<1>7. pc'[t] \in {"items_list", "copy_mapping", "acquire"}
  BY <1>1, <1>2 DEF TypeOK
<1>8. Request(t) = NoCall /\ Outcome(t) = Pending /\ Outcome(t)' = Pending
  BY <1>2, <1>6, <1>7 DEF Request, Outcome, DueToStore, NoCall, Pending
<1>9. CASE c.op \in {"items", "copy"}
  <2>1. Request(t)' = NoCall
    BY <1>6, <1>9 DEF Request, DueToStore, Pending
  <2>2. QED
    BY <1>3, <1>5, <1>8, <2>1, LocalStutter
<1>10. CASE c.op \notin {"items", "copy"}
  <2>1. c \in Recency!Requests
    BY <1>10 DEF Calls, Recency!Requests
  <2>2. c.op = "set" => [c EXCEPT !.op = "set"] = c
    BY DEF Calls
  <2>3. Request(t)' = c
    BY <1>6, <1>10, <2>2 DEF Request, DueToStore, Pending, Calls
  <2>4. Recency!Invoke(t)
    BY <1>3, <1>5, <1>8, <2>1, <2>3, LocalShows, SameReplies DEF Recency!Invoke
  <2>5. QED
    BY <2>4 DEF Recency!Next
<1>11. QED
  BY <1>9, <1>10

LEMMA Reads ==
    ASSUME IndInv, CarriedInv, NEW t \in Threads, GetRead(t)
    PROVE  Recency!Next
<1> USE DEF Goto, Finish, locals
<1> DEFINE k == call[t].key
           rv == mapping[k]
           E == Entries
<1>1. TypeOK /\ Carried(t)
  BY DEF IndInv, ControlInv, CarriedInv
<1>2. /\ pc[t] = "get_read" /\ wlock' = wlock
      /\ UNCHANGED <<mapping, queue, call, popped>>
  BY DEF GetRead
<1>3. pc[t] \in Locked /\ pc[t] \in Reading
  BY <1>2 DEF Locked, Reading
<1>4. /\ wlock = t /\ t # None /\ Apart(t) /\ CallFits(t)
      /\ mapping \in Mappings /\ queue \in Seq(Keys) /\ IsInjective(queue)
  BY <1>3, HolderHas
<1>5. Local(t)
  BY <1>1 DEF Local, TypeOK, GetRead
<1>6. call[t].op \in {"get", "setdefault"} /\ k \in Keys /\ result[t] = Pending
  BY <1>1, <1>2, <1>3, <1>4 DEF CallFits, Carried
<1>7. ToSet(queue) = Present
  BY <1>2, <1>4 DEF Apart
<1>8. E = Zipped(mapping, queue) /\ Held(E) = Present
  <2>1. SettledMapping(t) = mapping /\ SettledQueue(t) = queue
    BY <1>2 DEF SettledMapping, SettledQueue
  <2>2. QED
    BY <1>4, <1>7, <2>1, EntriesOf, ZipEntries
<1>9. Request(t) = call[t] /\ Outcome(t) = Pending
  BY <1>2, <1>6 DEF Request, Outcome, DueToStore, Pending
<1>10. /\ Asked[t] = call[t] /\ Answered[t] = Pending
       /\ Asked' = [Asked EXCEPT ![t] = Request(t)']
       /\ Answered' = [Answered EXCEPT ![t] = Outcome(t)']
       /\ Request(t)' = Request(t) => Asked' = Asked
       /\ Outcome(t)' = Outcome(t) => Answered' = Answered
  BY <1>5, <1>9, LocalShows
<1>11. CASE rv = None
  <2>1. pc'[t] = "release" /\ result'[t] = Raised("KeyError")
    BY <1>1, <1>11 DEF GetRead, TypeOK
  <2>2. k \notin Held(E)
    BY <1>8, <1>11 DEF Present
  <2>3. E' = E
    <3>1. SettledMapping(t)' = mapping /\ SettledQueue(t)' = queue
      BY <1>2, <2>1 DEF SettledMapping, SettledQueue
    <3>2. QED
      BY <1>2, <1>4, <1>8, <3>1, EntriesOf
  <2>4. CASE call[t].op = "get"
    <3>1. Request(t)' = call[t] /\ Outcome(t)' = Raised("KeyError")
      BY <1>2, <2>1, <2>4 DEF Request, Outcome, DueToStore
    <3>2. Recency!Miss(t)
      BY <1>9, <1>10, <2>2, <2>3, <2>4, <3>1, SameEntries, SameReplies
         DEF Recency!Miss, Recency!Due
    <3>3. QED
      BY <3>2 DEF Recency!Next
  <2>5. CASE call[t].op = "setdefault"
    <3>1. /\ Request(t)' = [call[t] EXCEPT !.op = "set"]
          /\ Outcome(t)' = Pending
      BY <1>2, <2>1, <2>5 DEF Request, Outcome, DueToStore, Raised
    <3>2. Recency!MissDefault(t)
      BY <1>9, <1>10, <2>2, <2>3, <2>5, <3>1, SameEntries, SameReplies
         DEF Recency!MissDefault, Recency!Due
    <3>3. QED
      BY <3>2 DEF Recency!Next
  <2>6. QED
    BY <1>6, <2>4, <2>5
<1>12. CASE rv # None
  <2>1. k \in ToSet(queue) /\ queue # <<>>
    BY <1>4, <1>6, <1>7, <1>12, Elements DEF Present
  <2>2. rv \in Values \cup {None} /\ ValueOf(E, k) = rv
    BY <1>4, <1>6, <1>8, <2>1, ZipValue DEF Mappings
  <2> DEFINE q == RemoveFirst(queue, k)
  <2>3. q \in Seq(Keys) /\ k \notin ToSet(q)
    BY <1>4, <2>1, RemoveFirstDistinct
  <2>4. Touched(E, k) = Zipped(mapping, Append(q, k))
    <3>1. Touched(E, k) = Append(Without(E, k), [key |-> k, val |-> rv])
      BY <2>2 DEF Touched, PutLast
    <3>2. Without(E, k) = Zipped(mapping, q)
      BY <1>4, <1>8, ZipWithout
    <3> HIDE DEF q
    <3>3. Zipped(Put(mapping, k, rv), Append(q, k))
            = Append(Zipped(mapping, q), [key |-> k, val |-> rv])
      BY <1>4, <1>6, <2>2, <2>3, ZipAppend
    <3>4. Put(mapping, k, rv) = mapping
      BY <1>4, <1>6 DEF Mappings, Put
    <3> HIDE DEF E, k, rv
    <3>5. QED
      BY <3>1, <3>2, <3>3, <3>4
  <2>5. /\ pc'[t] \in {"release", "get_remove"} /\ result'[t] = Ok(rv)
        /\ pc'[t] = "release" => queue[Len(queue)] = k
    BY <1>1, <1>12, <2>1 DEF GetRead, TypeOK, Last
  <2>6. E' = Touched(E, k)
    <3>1. CASE pc'[t] = "get_remove"
      <4>1. SettledMapping(t)' = mapping /\ SettledQueue(t)' = Append(q, k)
        BY <1>2, <3>1 DEF SettledMapping, SettledQueue
      <4>2. QED
        BY <1>2, <1>4, <2>4, <4>1, EntriesOf
    <3>2. CASE pc'[t] = "release"
      <4>1. SettledMapping(t)' = mapping /\ SettledQueue(t)' = queue
        BY <1>2, <3>2 DEF SettledMapping, SettledQueue
      <4>2. Append(q, k) = queue
        <5>1. Len(queue) \in Nat \ {0} /\ queue[Len(queue)] = k
          BY <1>4, <2>1, <2>5, <3>2
        <5>2. \A i \in 1..Len(queue) : queue[i] = k <=> i = Len(queue)
          BY <1>4, <5>1 DEF IsInjective
        <5>3. q = RemoveAt(queue, Len(queue))
          BY <1>4, <5>1, <5>2, RemoveFirstAt
        <5>4. /\ Len(q) = Len(queue) - 1
              /\ \A i \in 1..Len(queue) - 1 : q[i] = queue[i]
          BY <1>4, <5>1, <5>3, RemoveAtIndices
        <5> HIDE DEF q, k
        <5>5. /\ Append(q, k) \in Seq(Keys) /\ Len(Append(q, k)) = Len(queue)
              /\ \A i \in 1..Len(queue) : Append(q, k)[i] = queue[i]
          BY <1>4, <1>6, <2>3, <5>1, <5>4
        <5>6. QED
          BY <1>4, <5>5, SeqEqual
      <4>3. QED
        BY <1>2, <1>4, <2>4, <4>1, <4>2, EntriesOf
    <3>3. QED
      BY <2>5, <3>1, <3>2
  <2>7. Request(t)' = Request(t) /\ Outcome(t)' = Ok(rv)
    BY <1>2, <1>6, <1>9, <2>5 DEF Request, Outcome, DueToStore, Ok
  <2>8. Recency!Hit(t)
    <3>1. k \in Held(E)
      BY <1>7, <1>8, <2>1
    <3>2. Recency!Due(t, {"get", "setdefault"}) /\ Asked' = Asked
      BY <1>6, <1>10, <2>7, SameReplies DEF Recency!Due
    <3>3. Recency!Held(E) = Held(E) /\ Recency!Touched(E, k) = Touched(E, k)
      BY SameEntries
    <3>4. Recency!Ok(Recency!ValueOf(E, k)) = Ok(rv)
      <4>1. Recency!ValueOf(E, k) = rv
        BY <2>2, SameEntries
      <4>2. QED
        BY <4>1, SameReplies
    <3>5. Answered' = [Answered EXCEPT ![t] = Recency!Ok(Recency!ValueOf(E, k))]
      BY <1>10, <2>7, <3>4
    <3>6. k = Asked[t].key
      BY <1>10
    <3> HIDE DEF k, rv
    <3>7. QED
      BY <2>6, <3>1, <3>2, <3>3, <3>5, <3>6 DEF Recency!Hit
  <2>9. QED
    BY <2>8 DEF Recency!Next
<1>13. QED
  BY <1>11, <1>12

(* The if of __setitem__ decides what the store makes of the entries.      *)
LEMMA Stores ==
    ASSUME IndInv, CarriedInv, NEW t \in Threads, SetCheck(t)
    PROVE  Recency!Next
<1> USE DEF Goto, locals
<1> DEFINE k == call[t].key
           v == call[t].val
           E == Entries
<1>1. TypeOK /\ Carried(t)
  BY DEF IndInv, ControlInv, CarriedInv
<1>2. /\ pc[t] = "set_check" /\ wlock' = wlock
      /\ UNCHANGED <<mapping, queue, call, result, popped>>
  BY DEF SetCheck
<1>3. pc[t] \in Locked /\ pc[t] \in Storing
  BY <1>2 DEF Locked, Storing
<1>4. /\ wlock = t /\ t # None /\ Apart(t) /\ CallFits(t)
      /\ mapping \in Mappings /\ queue \in Seq(Keys) /\ IsInjective(queue)
  BY <1>3, HolderHas
<1>5. Local(t)
  BY <1>1 DEF Local, TypeOK, SetCheck
<1>6. /\ call[t].op \in {"set", "store_default"} /\ k \in Keys
      /\ v \in Values \cup {None} /\ result[t] = Pending
  BY <1>1, <1>2, <1>3, <1>4 DEF CallFits, Carried
<1>7. ToSet(queue) = Present
  BY <1>2, <1>4 DEF Apart
<1>8. E = Zipped(mapping, queue) /\ Held(E) = Present /\ Len(E) = Size
  <2>1. SettledMapping(t) = mapping /\ SettledQueue(t) = queue
    BY <1>2 DEF SettledMapping, SettledQueue
  <2>2. E = Zipped(mapping, queue)
    BY <1>4, <2>1, EntriesOf
  <2>3. Len(queue) = Size
    BY <1>4, <1>7, DistinctLength DEF Size
  <2>4. QED
    BY <1>4, <1>7, <2>2, <2>3, ZipEntries
<1>9. pc'[t] = IF k \in Present THEN "set_remove"
               ELSE IF Size = Capacity THEN "set_popleft" ELSE "set_append"
  BY <1>1 DEF SetCheck, TypeOK
<1>10. E' = Stored(E, k, v, Capacity)
  <2>0. E' = Zipped(SettledMapping(t)', SettledQueue(t)')
    BY <1>2, <1>4, EntriesOf
  <2>1. CASE k \in Present
    <3>1. Stored(E, k, v, Capacity) = PutLast(E, k, v)
      BY <1>8, <2>1 DEF Stored
    <3>2. /\ SettledMapping(t)' = Put(mapping, k, v)
          /\ SettledQueue(t)' = Append(RemoveFirst(queue, k), k)
      BY <1>2, <1>9, <2>1 DEF SettledMapping, SettledQueue
    <3>3. QED
      BY <1>4, <1>6, <1>8, <2>0, <3>1, <3>2, ZipPutLast
  <2>2. CASE k \notin Present /\ Size # Capacity
    <3>1. Stored(E, k, v, Capacity) = PutLast(E, k, v)
      BY <1>8, <2>2 DEF Stored
    <3>2. /\ SettledMapping(t)' = Put(mapping, k, v)
          /\ SettledQueue(t)' = Append(queue, k)
      BY <1>2, <1>9, <2>2 DEF SettledMapping, SettledQueue
    <3>3. RemoveFirst(queue, k) = queue
      BY <1>4, <1>7, <2>2, RemoveFirstAbsent
    <3>4. QED
      BY <1>4, <1>6, <1>8, <2>0, <3>1, <3>2, <3>3, ZipPutLast
  <2>3. CASE k \notin Present /\ Size = Capacity
    <3> DEFINE r == Tail(queue)
               m == Put(mapping, Head(queue), None)
    <3>1. Stored(E, k, v, Capacity) = PutLast(Tail(E), k, v)
      BY <1>8, <2>3 DEF Stored
    <3>2. /\ SettledMapping(t)' = Put(m, k, v)
          /\ SettledQueue(t)' = Append(r, k)
      BY <1>2, <1>9, <2>3 DEF SettledMapping, SettledQueue
    <3>3. queue # <<>>
      BY <1>4, <1>7, <2>3, CapacityAssumption, Elements, FS_EmptySet DEF Size
    <3>4. /\ r \in Seq(Keys) /\ IsInjective(r) /\ ToSet(r) = Present \ {Head(queue)}
      BY <1>4, <1>7, <3>3, TailDistinct
    <3>5. Tail(E) = Zipped(mapping, r)
      BY <1>4, <1>8, <3>3, ZipTail
    <3>6. m \in Mappings /\ \A j \in ToSet(r) : m[j] = mapping[j]
      BY <1>4, <3>4 DEF Mappings, Put, Present
    <3> HIDE DEF r, m
    <3>7. Zipped(mapping, r) = Zipped(m, r)
      BY <3>4, <3>6, ZipSame
    <3>8. RemoveFirst(r, k) = r
      BY <2>3, <3>4, RemoveFirstAbsent
    <3>9. PutLast(Zipped(m, r), k, v) = Zipped(Put(m, k, v), Append(r, k))
      BY <1>6, <3>4, <3>6, <3>8, ZipPutLast
    <3>10. QED
      BY <2>0, <3>1, <3>2, <3>5, <3>7, <3>9
  <2>4. QED
    BY <2>1, <2>2, <2>3
<1>11. /\ Asked[t] = Request(t) /\ Answered[t] = Outcome(t)
       /\ Answered' = [Answered EXCEPT ![t] = Outcome(t)']
       /\ Request(t)' = Request(t) => Asked' = Asked
  BY <1>5, LocalShows
<1>12. Request(t)' = Request(t) /\ Request(t) = [call[t] EXCEPT !.op = "set"]
  BY <1>2, <1>6 DEF Request, DueToStore
<1>13. Outcome(t) = Pending /\ Outcome(t)' = Ok(v)
  BY <1>2, <1>6, <1>9 DEF Outcome
<1>14. call[t] \in CallRecords
  BY <1>1 DEF TypeOK
<1>15. Asked[t].op = "set" /\ Asked[t].key = k /\ Asked[t].val = v
  BY <1>11, <1>12, <1>14 DEF CallRecords
<1>16. Recency!Store(t)
  <2>1. Recency!Due(t, {"set"}) /\ Asked' = Asked
    BY <1>11, <1>12, <1>13, <1>15, SameReplies DEF Recency!Due
  <2>2. Answered' = [Answered EXCEPT ![t] = Recency!Ok(v)]
    BY <1>11, <1>13, SameReplies
  <2>3. Recency!Stored(E, k, v, Capacity) = Stored(E, k, v, Capacity)
    BY SameEntries
  <2> HIDE DEF k, v
  <2>4. QED
    BY <1>10, <1>15, <2>1, <2>2, <2>3 DEF Recency!Store
<1>17. QED
  BY <1>16 DEF Recency!Next

(* The pop of __delitem__ takes the entry away, or raises.                 *)
LEMMA Deletes ==
    ASSUME IndInv, CarriedInv, NEW t \in Threads, DelPop(t)
    PROVE  Recency!Next
<1> USE DEF Goto, Finish, locals
<1> DEFINE k == call[t].key
           E == Entries
           r == RemoveFirst(queue, k)
<1>1. TypeOK /\ Carried(t)
  BY DEF IndInv, ControlInv, CarriedInv
<1>2. /\ pc[t] = "del_pop" /\ wlock' = wlock
      /\ UNCHANGED <<queue, call, popped>>
  BY DEF DelPop
<1>3. pc[t] \in Locked /\ pc[t] \in Deleting
  BY <1>2 DEF Locked, Deleting
<1>4. /\ wlock = t /\ t # None /\ Apart(t) /\ CallFits(t)
      /\ mapping \in Mappings /\ queue \in Seq(Keys) /\ IsInjective(queue)
  BY <1>3, HolderHas
<1>5. Local(t)
  BY <1>1 DEF Local, TypeOK, DelPop
<1>6. call[t].op = "del" /\ k \in Keys /\ result[t] = Pending
  BY <1>1, <1>2, <1>3, <1>4 DEF CallFits, Carried
<1>7. ToSet(queue) = Present
  BY <1>2, <1>4 DEF Apart
<1>8. E = Zipped(mapping, queue) /\ Held(E) = Present
  <2>1. SettledMapping(t) = mapping /\ SettledQueue(t) = queue
    BY <1>2 DEF SettledMapping, SettledQueue
  <2>2. QED
    BY <1>4, <1>7, <2>1, EntriesOf, ZipEntries
<1>9. Without(E, k) = Zipped(mapping, r)
  BY <1>4, <1>8, ZipWithout
<1>10. E' = Zipped(SettledMapping(t)', SettledQueue(t)')
  BY <1>2, <1>4, EntriesOf
<1>11. /\ Asked[t] = Request(t) /\ Answered[t] = Outcome(t)
       /\ Answered' = [Answered EXCEPT ![t] = Outcome(t)']
       /\ Request(t)' = Request(t) => Asked' = Asked
  BY <1>5, LocalShows
<1>12. Request(t)' = Request(t) /\ Request(t) = call[t] /\ Outcome(t) = Pending
  BY <1>2, <1>6 DEF Request, DueToStore, Outcome
<1>13. E' = Without(E, k)
       /\ Outcome(t)' = IF k \in Present THEN Ok(None) ELSE Raised("KeyError")
  <2>1. CASE k \in Present
    <3>1. /\ pc'[t] = "del_remove" /\ mapping' = Put(mapping, k, None)
          /\ result'[t] = Ok(None)
      BY <1>1, <2>1 DEF DelPop, TypeOK, Put
    <3>2. SettledMapping(t)' = Put(mapping, k, None) /\ SettledQueue(t)' = r
      BY <1>2, <3>1 DEF SettledMapping, SettledQueue
    <3>3. r \in Seq(Keys) /\ k \notin ToSet(r)
      BY <1>4, <1>7, <2>1, RemoveFirstDistinct
    <3>4. \A j \in ToSet(r) : Put(mapping, k, None)[j] = mapping[j]
      BY <1>4, <1>6, <3>3 DEF Mappings, Put
    <3> HIDE DEF r
    <3>5. Zipped(mapping, r) = Zipped(Put(mapping, k, None), r)
      BY <3>3, <3>4, ZipSame
    <3>6. Outcome(t)' = Ok(None)
      BY <1>2, <1>6, <3>1 DEF Outcome, DueToStore
    <3>7. QED
      BY <1>9, <1>10, <2>1, <3>2, <3>5, <3>6
  <2>2. CASE k \notin Present
    <3>1. /\ pc'[t] = "release" /\ mapping' = mapping
          /\ result'[t] = Raised("KeyError")
      BY <1>1, <2>2 DEF DelPop, TypeOK
    <3>2. SettledMapping(t)' = mapping /\ SettledQueue(t)' = queue
      BY <1>2, <3>1 DEF SettledMapping, SettledQueue
    <3>3. r = queue
      BY <1>4, <1>7, <2>2, RemoveFirstAbsent
    <3>4. Outcome(t)' = Raised("KeyError")
      BY <1>2, <1>6, <3>1 DEF Outcome, DueToStore
    <3>5. QED
      BY <1>9, <1>10, <2>2, <3>2, <3>3, <3>4
  <2>3. QED
    BY <2>1, <2>2
<1>14. Recency!Delete(t)
  <2>1. Recency!Due(t, {"del"}) /\ Asked' = Asked /\ Asked[t].key = k
    BY <1>6, <1>11, <1>12, SameReplies DEF Recency!Due
  <2>2. /\ Recency!Without(E, k) = Without(E, k)
        /\ Recency!Held(E) = Present
    BY <1>8, SameEntries
  <2>3. Answered' = [Answered EXCEPT ![t] =
                        IF k \in Present THEN Recency!Ok(None) ELSE Recency!Missing]
    BY <1>11, <1>13, SameReplies
  <2> HIDE DEF k
  <2>4. QED
    BY <1>13, <2>1, <2>2, <2>3 DEF Recency!Delete
<1>15. QED
  BY <1>14 DEF Recency!Next

LEMMA Clears ==
    ASSUME IndInv, CarriedInv, NEW t \in Threads, ClearMapping(t)
    PROVE  Recency!Next
<1> USE DEF Goto, Finish, locals
<1>1. TypeOK /\ Carried(t)
  BY DEF IndInv, ControlInv, CarriedInv
<1>2. /\ pc[t] = "clr_mapping" /\ wlock' = wlock /\ pc'[t] = "clr_queue"
      /\ result'[t] = Ok(None) /\ UNCHANGED <<queue, call, popped>>
  BY <1>1 DEF ClearMapping, TypeOK
<1>3. pc[t] \in Locked /\ pc[t] \in Clearing
  BY <1>2 DEF Locked, Clearing
<1>4. wlock = t /\ t # None /\ CallFits(t)
  BY <1>3, HolderHas
<1>5. Local(t)
  BY <1>1 DEF Local, TypeOK, ClearMapping
<1>6. call[t].op = "clear" /\ result[t] = Pending
  BY <1>1, <1>2, <1>3, <1>4 DEF CallFits, Carried
<1>7. Entries' = <<>>
  <2>1. SettledQueue(t)' = <<>>
    BY <1>2 DEF SettledQueue
  <2>2. Entries' = Zipped(SettledMapping(t)', <<>>)
    BY <1>2, <1>4, <2>1, EntriesOf
  <2>3. QED
    BY <2>2 DEF Zipped
<1>8. /\ Asked[t] = Request(t) /\ Answered[t] = Outcome(t)
      /\ Answered' = [Answered EXCEPT ![t] = Outcome(t)']
      /\ Request(t)' = Request(t) => Asked' = Asked
  BY <1>5, LocalShows
<1>9. /\ Request(t)' = Request(t) /\ Request(t) = call[t]
      /\ Outcome(t) = Pending /\ Outcome(t)' = Ok(None)
  BY <1>2, <1>6 DEF Request, DueToStore, Outcome
<1>10. Recency!Clear(t)
  <2>1. Recency!Due(t, {"clear"}) /\ Asked' = Asked
    BY <1>6, <1>8, <1>9, SameReplies DEF Recency!Due
  <2>2. Answered' = [Answered EXCEPT ![t] = Recency!Ok(None)]
    BY <1>8, <1>9, SameReplies
  <2>3. QED
    BY <1>7, <2>1, <2>2 DEF Recency!Clear
<1>11. QED
  BY <1>10 DEF Recency!Next

(* Leaving the lock returns the outcome, unless setdefault has missed.     *)
LEMMA Releasing ==
    ASSUME IndInv, CarriedInv, NEW t \in Threads, Release(t)
    PROVE  Recency!Next \/ UNCHANGED Recency!vars
<1> USE DEF Goto, Finish, locals
<1> DEFINE caught == call[t].op = "setdefault" /\ result[t].status = "KeyError"
<1>1. TypeOK /\ Carried(t)
  BY DEF IndInv, ControlInv, CarriedInv
<1>2. /\ pc[t] = "release" /\ wlock' = None /\ result'[t] = Pending
      /\ pc'[t] = IF caught THEN "acquire" ELSE "idle"
      /\ call'[t] = IF caught THEN [call[t] EXCEPT !.op = "store_default"]
                    ELSE NoCall
      /\ UNCHANGED <<mapping, queue, popped>>
  BY <1>1 DEF Release, TypeOK
<1>3. pc[t] \in Locked
  BY <1>2 DEF Locked
<1>4. wlock = t /\ t # None /\ CallFits(t) /\ call[t] \in CallRecords
  BY <1>3, HolderHas
<1>5. Local(t)
  BY <1>1 DEF Local, TypeOK, Release
<1>6. Entries' = Entries
  <2>1. SettledMapping(t) = mapping /\ SettledQueue(t) = queue
    BY <1>2 DEF SettledMapping, SettledQueue
  <2>2. QED
    BY <1>2, <1>4, <2>1, EntriesOf
<1>7. CASE caught
  <2>1. Request(t)' = Request(t)
    <3>1. Request(t) = [call[t] EXCEPT !.op = "set"]
      BY <1>7 DEF Request, DueToStore
    <3>2. Request(t)' = [call'[t] EXCEPT !.op = "set"]
      BY <1>2, <1>4, <1>7 DEF Request, DueToStore, CallRecords
    <3>3. QED
      BY <1>2, <1>4, <1>7, <3>1, <3>2, ZenonT(30) DEF CallRecords
  <2>2. Outcome(t) = Pending
    BY <1>2, <1>7 DEF Outcome, DueToStore
  <2>3. Outcome(t)' = Pending
    BY <1>2, <1>4, <1>7 DEF Outcome, CallRecords
  <2>4. QED
    BY <1>5, <1>6, <2>1, <2>2, <2>3, LocalStutter
<1>8. CASE ~ caught
  <2>1. Request(t)' = NoCall /\ Outcome(t)' = Pending
    BY <1>2, <1>8 DEF Request, Outcome, DueToStore, NoCall
  <2>2. Outcome(t) = result[t] /\ result[t] # Pending
    BY <1>1, <1>2, <1>8 DEF Outcome, DueToStore, Carried, Pending
  <2>3. Recency!Return(t)
    BY <1>5, <1>6, <2>1, <2>2, LocalShows, SameReplies DEF Recency!Return
  <2>4. QED
    BY <2>3 DEF Recency!Next
<1>9. QED
  BY <1>7, <1>8

LEMMA RecencyNext ==
    IndInv /\ CarriedInv /\ [Next]_vars => [Recency!Next]_(Recency!vars)
<1> SUFFICES ASSUME IndInv, CarriedInv, [Next]_vars
             PROVE  Recency!Next \/ UNCHANGED Recency!vars
  OBVIOUS
<1>1. ASSUME NEW t \in Threads, Invoke(t) \/ Step(t)
      PROVE  Recency!Next \/ UNCHANGED Recency!vars
  <2>1. CASE Invoke(t)
    BY <2>1, Invoking
  <2>2. CASE Acquire(t)
    BY <2>2, Acquiring
  <2>3. CASE Release(t)
    BY <2>3, Releasing
  <2>4. CASE GetRead(t)
    BY <2>4, Reads
  <2>5. CASE SetCheck(t)
    BY <2>5, Stores
  <2>6. CASE DelPop(t)
    BY <2>6, Deletes
  <2>7. CASE ClearMapping(t)
    BY <2>7, Clears
  <2>8. CASE \/ GetRemove(t) \/ GetAppend(t) \/ SetRemove(t) \/ SetPopleft(t)
             \/ SetDelete(t) \/ SetAppend(t) \/ SetStore(t) \/ DelRemove(t)
             \/ ClearQueue(t)
    BY <2>8, Completing
  <2>9. CASE ItemsList(t) \/ ItemsNext(t) \/ CopyMapping(t) \/ CopyQueue(t)
    BY <2>9, Unlocked
  <2>10. QED
    BY <1>1, <2>1, <2>2, <2>3, <2>4, <2>5, <2>6, <2>7, <2>8, <2>9 DEF Step
<1>2. CASE UNCHANGED vars
  BY <1>2 DEF vars, Recency!vars, Entries, Asked, Answered, SettledMapping,
              SettledQueue, Request, Outcome, DueToStore
<1>3. QED
  BY <1>1, <1>2 DEF Next

(* Every get, set, delete and clear, and each half of a setdefault, acts   *)
(* at one instant of its call on one sequence of entries ordered by use:   *)
(* it returns the right value and evicts the right key, in every           *)
(* interleaving of any number of threads.                                  *)
THEOREM Refines == Spec => ImplementsRecencyCache
<1>1. Init => Recency!Init
  BY RecencyInit
<1>2. IndInv /\ CarriedInv /\ [Next]_vars => [Recency!Next]_(Recency!vars)
  BY RecencyNext
<1>3. QED
  BY <1>1, <1>2, Invariance, CarriedHolds, PTL
     DEF Spec, ImplementsRecencyCache, Recency!Spec
=============================================================================
