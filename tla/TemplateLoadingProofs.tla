------------------------ MODULE TemplateLoadingProofs ------------------------
(***************************************************************************)
(* TemplateLoading for any number of names, places, threads and changes.   *)
(* ControlInv says what a thread holds at each step, and is inductive on   *)
(* its own.  On top of it SearchInv says what the threads have seen of the *)
(* sources, from which freshness and the causes of failures follow, and    *)
(* OffersInv whose globals the dictionaries hold.                          *)
(***************************************************************************)
EXTENDS TemplateLoading, FiniteSetTheorems, SequenceTheorems,
        WellFoundedInduction, TLAPS

-----------------------------------------------------------------------------
(* The entries of the cache: a sequence in which no key is twice.          *)

LEMMA Elements ==
    ASSUME NEW S, NEW q \in Seq(S)
    PROVE  /\ DOMAIN q = 1..Len(q)
           /\ ToSet(q) = {q[i] : i \in 1..Len(q)}
           /\ ToSet(q) \subseteq S
           /\ q = <<>> <=> ToSet(q) = {}
  BY DEF ToSet

LEMMA AppendItems ==
    ASSUME NEW S, NEW q \in Seq(S), NEW x \in S
    PROVE  /\ Append(q, x) \in Seq(S) /\ Len(Append(q, x)) = Len(q) + 1
           /\ \A i \in 1..Len(q) : Append(q, x)[i] = q[i]
           /\ Append(q, x)[Len(q) + 1] = x
  OBVIOUS

LEMMA AppendElements ==
    ASSUME NEW S, NEW q \in Seq(S), NEW x \in S
    PROVE  ToSet(Append(q, x)) = ToSet(q) \cup {x}
<1> DEFINE a == Append(q, x)
<1>1. /\ a \in Seq(S) /\ Len(a) = Len(q) + 1
      /\ \A i \in 1..Len(q) : a[i] = q[i]
      /\ a[Len(q) + 1] = x
  BY AppendItems
<1> HIDE DEF a
<1>2. ASSUME NEW y \in ToSet(a) PROVE y \in ToSet(q) \cup {x}
  BY <1>1, <1>2, Elements
<1>3. ASSUME NEW y \in ToSet(q) PROVE y \in ToSet(a)
  BY <1>1, <1>3, Elements
<1>4. x \in ToSet(a)
  BY <1>1, Elements
<1>5. QED
  BY <1>2, <1>3, <1>4 DEF a

(* What is left when the item at n is taken out.                           *)
LEMMA RemoveAtIndices ==
    ASSUME NEW S, NEW q \in Seq(S), NEW n \in 1..Len(q)
    PROVE  /\ RemoveAt(q, n) \in Seq(S)
           /\ Len(RemoveAt(q, n)) = Len(q) - 1
           /\ \A i \in 1..Len(q) - 1 :
                  RemoveAt(q, n)[i] = IF i < n THEN q[i] ELSE q[i + 1]
<1> DEFINE r == RemoveAt(q, n)
           front == SubSeq(q, 1, n - 1)
           back  == SubSeq(q, n + 1, Len(q))
<1>1. Len(q) \in Nat /\ n \in Nat /\ n >= 1 /\ n <= Len(q)
  OBVIOUS
<1>2. /\ front \in Seq(S)
      /\ Len(front) = n - 1
      /\ \A i \in 1..n - 1 : front[i] = q[i]
  BY <1>1
<1>3. /\ back \in Seq(S)
      /\ Len(back) = Len(q) - n
      /\ \A i \in 1..Len(q) - n : back[i] = q[i + n]
  BY <1>1
<1> HIDE DEF r, front, back
<1>4. r = front \o back
  BY DEF r, RemoveAt, front, back
<1>5. /\ r \in Seq(S)
      /\ Len(r) = Len(q) - 1
      /\ \A i \in 1..Len(q) - 1 :
             r[i] = IF i <= n - 1 THEN front[i] ELSE back[i - (n - 1)]
  <2>1. Len(front) + Len(back) = Len(q) - 1
    BY <1>1, <1>2, <1>3
  <2>2. /\ front \o back \in Seq(S)
        /\ Len(front \o back) = Len(front) + Len(back)
        /\ \A i \in 1..Len(front) + Len(back) :
               (front \o back)[i] = IF i <= Len(front) THEN front[i]
                                    ELSE back[i - Len(front)]
    BY <1>2, <1>3, ConcatProperties
  <2>3. Len(front) = n - 1
    BY <1>2
  <2>4. QED
    BY <1>4, <2>1, <2>2, <2>3
<1>6. ASSUME NEW i \in 1..Len(q) - 1
      PROVE  r[i] = IF i < n THEN q[i] ELSE q[i + 1]
  <2>1. CASE i < n
    <3>1. i \in 1..n - 1 /\ i <= n - 1
      BY <1>1, <2>1
    <3>2. r[i] = front[i]
      BY <1>5, <3>1
    <3>3. QED
      BY <1>2, <2>1, <3>1, <3>2
  <2>2. CASE i >= n
    <3>1. i - (n - 1) \in 1..Len(q) - n
      BY <1>1, <2>2
    <3>2. QED
      BY <1>1, <1>3, <1>5, <2>2, <3>1
  <2>3. QED
    BY <1>1, <2>1, <2>2
<1>7. QED
  BY <1>5, <1>6 DEF r

(* A set of naturals that is not empty has a smallest element.             *)
LEMMA MinIn ==
    ASSUME NEW I \in SUBSET Nat, I # {}
    PROVE  Min(I) \in I /\ \A k \in I : Min(I) <= k
<1> DEFINE less == OpToRel(<, Nat)
<1>1. IsWellFoundedOn(less, Nat)
  BY NatLessThanWellFounded
<1>2. \A k, m \in Nat : k < m => <<k, m>> \in less
  BY DEF OpToRel
<1> HIDE DEF less
<1>3. PICK m \in I : \A k \in I : ~ (<<k, m>> \in less)
  BY <1>1, WFMin
<1>4. ASSUME NEW k \in I PROVE m <= k
  <2>1. k \in Nat /\ m \in Nat /\ ~ (k < m)
    BY <1>2, <1>3
  <2>2. QED
    BY <2>1
<1>5. QED
  BY <1>4 DEF Min

(* The entries of a cache                                                  *)

(* Taking a key out of the entries: nothing to do, or one item to remove.  *)
LEMMA WithoutAbsent ==
    ASSUME NEW s, NEW k, \A i \in 1..Len(s) : s[i].key # k
    PROVE  Without(s, k) = s
  BY DEF Without, RemoveFirstMatch

LEMMA WithoutAt ==
    ASSUME NEW S, NEW s \in Seq(S), NEW k, NEW n \in 1..Len(s),
           \A i \in 1..Len(s) : s[i].key = k <=> i = n
    PROVE  Without(s, k) = RemoveAt(s, n)
<1>1. {i \in 1..Len(s) : s[i].key = k} = {n}
  OBVIOUS
<1>2. SelectInSeq(s, LAMBDA e : e.key = k) = n
  BY <1>1 DEF SelectInSeq, Min
<1>3. QED
  BY <1>2 DEF Without, RemoveFirstMatch

(* What is left is entries again, all of them but the one of the key.      *)
LEMMA WithoutEntries ==
    ASSUME NEW S, NEW s \in Seq(S), KeysOnce(s), NEW k
    PROVE  /\ Without(s, k) \in Seq(S)
           /\ KeysOnce(Without(s, k))
           /\ ToSet(Without(s, k)) = {e \in ToSet(s) : e.key # k}
<1>1. CASE \A i \in 1..Len(s) : s[i].key # k
  <2>1. \A e \in ToSet(s) : e.key # k
    BY <1>1, Elements
  <2>2. QED
    BY <1>1, <2>1, WithoutAbsent
<1>2. CASE \E i \in 1..Len(s) : s[i].key = k
  <2>1. PICK n \in 1..Len(s) : s[n].key = k
    BY <1>2
  <2> DEFINE r == RemoveAt(s, n)
  <2>2. \A i \in 1..Len(s) : s[i].key = k <=> i = n
    BY <2>1 DEF KeysOnce
  <2>3. Without(s, k) = r
    BY <2>2, WithoutAt
  <2>4. /\ r \in Seq(S)
        /\ Len(r) = Len(s) - 1
        /\ \A i \in 1..Len(s) - 1 : r[i] = IF i < n THEN s[i] ELSE s[i + 1]
    BY RemoveAtIndices
  <2> HIDE DEF r
  <2> DEFINE up(i) == IF i < n THEN i ELSE i + 1
  <2>5. \A i \in 1..Len(r) : up(i) \in (1..Len(s)) \ {n} /\ r[i] = s[up(i)]
    BY <2>4, SMTT(30)
  <2>6. KeysOnce(r)
    <3>1. SUFFICES ASSUME NEW i \in 1..Len(r), NEW j \in 1..Len(r),
                          r[i].key = r[j].key
                   PROVE  i = j
      BY <2>4 DEF KeysOnce
    <3>2. up(i) = up(j)
      BY <2>5, <3>1, SMTT(30) DEF KeysOnce
    <3>3. QED
      BY <3>2
  <2>7. ASSUME NEW e \in ToSet(r) PROVE e \in ToSet(s) /\ e.key # k
    <3>1. PICK i \in 1..Len(r) : e = r[i]
      BY <2>4, Elements
    <3>2. QED
      BY <2>2, <2>5, <3>1, Elements
  <2>8. ASSUME NEW e \in ToSet(s), e.key # k PROVE e \in ToSet(r)
    <3>1. PICK j \in 1..Len(s) : e = s[j] /\ j # n
      BY <2>1, <2>8, Elements
    <3>2. PICK i \in 1..Len(r) : r[i] = e
      <4>1. CASE j < n
        BY <2>4, <3>1, <4>1
      <4>2. CASE j > n
        <5>1. j - 1 \in 1..Len(s) - 1 /\ ~ (j - 1 < n) /\ (j - 1) + 1 = j
          BY <3>1, <4>2
        <5>2. QED
          BY <2>4, <3>1, <5>1
      <4>3. QED
        BY <3>1, <4>1, <4>2
    <3>3. QED
      BY <2>4, <3>2, Elements
  <2>9. QED
    BY <2>3, <2>4, <2>6, <2>7, <2>8
<1>3. QED
  BY <1>1, <1>2

(* An entry that goes to the end replaces the one its key had.             *)
LEMMA PutLastEntries ==
    ASSUME NEW S, NEW s \in Seq(S), KeysOnce(s),
           NEW k, NEW v, [key |-> k, val |-> v] \in S
    PROVE  /\ PutLast(s, k, v) \in Seq(S)
           /\ KeysOnce(PutLast(s, k, v))
           /\ ToSet(PutLast(s, k, v)) =
                 {e \in ToSet(s) : e.key # k} \cup {[key |-> k, val |-> v]}
<1> DEFINE w == Without(s, k)
           e == [key |-> k, val |-> v]
<1>1. w \in Seq(S) /\ KeysOnce(w) /\ ToSet(w) = {x \in ToSet(s) : x.key # k}
  BY WithoutEntries
<1>2. e \in S /\ e.key = k
  OBVIOUS
<1>3. \A i \in 1..Len(w) : w[i].key # k
  BY <1>1, Elements
<1> HIDE DEF w, e
<1>4. KeysOnce(Append(w, e))
  BY <1>1, <1>2, <1>3 DEF KeysOnce
<1>5. ToSet(Append(w, e)) = ToSet(w) \cup {e}
  BY <1>1, <1>2, AppendElements
<1>6. QED
  BY <1>1, <1>2, <1>4, <1>5 DEF PutLast, w, e

(* Each key has one entry. *)
LEMMA ValueOfEntry ==
    ASSUME NEW S, NEW s \in Seq(S), KeysOnce(s), NEW e \in ToSet(s)
    PROVE  ValueOf(s, e.key) = e.val
<1>1. \A x \in ToSet(s) : x.key = e.key => x = e
  BY Elements DEF KeysOnce
<1>2. QED
  BY <1>1 DEF ValueOf

(* A lookup that hits changes the order of the entries and nothing else.   *)
LEMMA TouchedEntries ==
    ASSUME NEW S, \A e \in S : e = [key |-> e.key, val |-> e.val],
           NEW s \in Seq(S), KeysOnce(s), NEW k \in Held(s)
    PROVE  /\ Touched(s, k) \in Seq(S)
           /\ KeysOnce(Touched(s, k))
           /\ ToSet(Touched(s, k)) = ToSet(s)
           /\ [key |-> k, val |-> ValueOf(s, k)] \in ToSet(s)
<1>1. ToSet(s) \subseteq S
  BY Elements
<1>2. PICK e \in ToSet(s) : e.key = k
  BY DEF Held
<1>3. \A x \in ToSet(s) : x.key = k => x = e
  BY <1>2, Elements DEF KeysOnce
<1>4. ValueOf(s, k) = e.val
  BY <1>2, ValueOfEntry
<1>5. e = [key |-> k, val |-> ValueOf(s, k)]
  BY <1>1, <1>2, <1>4
<1>6. ToSet(s) = {x \in ToSet(s) : x.key # k} \cup {e}
  BY <1>2, <1>3
<1> DEFINE v == ValueOf(s, k)
<1>7. [key |-> k, val |-> v] \in S
  BY <1>1, <1>5
<1> HIDE DEF v
<1>8. /\ PutLast(s, k, v) \in Seq(S)
      /\ KeysOnce(PutLast(s, k, v))
      /\ ToSet(PutLast(s, k, v)) =
            {x \in ToSet(s) : x.key # k} \cup {[key |-> k, val |-> v]}
  BY <1>7, PutLastEntries
<1>9. QED
  BY <1>5, <1>6, <1>8 DEF Touched, v

(* A store adds its entry, and may cost another key its place.             *)
LEMMA StoredEntries ==
    ASSUME NEW S, NEW s \in Seq(S), KeysOnce(s),
           NEW k, NEW v, [key |-> k, val |-> v] \in S,
           NEW capacity, capacity # 0
    PROVE  /\ Stored(s, k, v, capacity) \in Seq(S)
           /\ KeysOnce(Stored(s, k, v, capacity))
           /\ ToSet(Stored(s, k, v, capacity)) \subseteq
                 {e \in ToSet(s) : e.key # k} \cup {[key |-> k, val |-> v]}
<1> DEFINE full == k \notin Held(s) /\ Len(s) = capacity
           r == IF full THEN Tail(s) ELSE s
<1>1. r \in Seq(S) /\ KeysOnce(r) /\ ToSet(r) \subseteq ToSet(s)
  <2>1. CASE full
    <3>1. s # <<>>
      BY <2>1
    <3>2. /\ Tail(s) \in Seq(S)
          /\ Len(Tail(s)) = Len(s) - 1
          /\ \A i \in 1..Len(s) - 1 : Tail(s)[i] = s[i + 1]
      BY <3>1
    <3>3. KeysOnce(Tail(s))
      BY <3>2 DEF KeysOnce
    <3>4. ToSet(Tail(s)) \subseteq ToSet(s)
      BY <3>2 DEF ToSet
    <3>5. QED
      BY <2>1, <3>2, <3>3, <3>4
  <2>2. CASE ~full
    BY <2>2
  <2>3. QED
    BY <2>1, <2>2
<1>2. Stored(s, k, v, capacity) = PutLast(r, k, v)
  BY DEF Stored
<1> HIDE DEF r
<1>3. /\ PutLast(r, k, v) \in Seq(S)
      /\ KeysOnce(PutLast(r, k, v))
      /\ ToSet(PutLast(r, k, v)) =
            {e \in ToSet(r) : e.key # k} \cup {[key |-> k, val |-> v]}
  BY <1>1, PutLastEntries
<1>4. QED
  BY <1>1, <1>2, <1>3

-----------------------------------------------------------------------------
Entry == [key : Names, val : Template]

(* What thread t has in its hands at each step of get_template.            *)
Control(t) ==
    /\ pc[t] = "idle" => call[t] = NoCall /\ tmpl[t] = None
    /\ Running(t) => /\ call[t].name \in Names
                     /\ tmpl[t] \in PartlyRead
                     /\ tmpl[t].name = call[t].name
    /\ pc[t] # "return" => outcome[t] = "none"
    /\ pc[t] \in {"check", "update"} => tmpl[t] \in Template
    /\ outcome[t] = "ok" => tmpl[t] \in Template
    /\ pc[t] \in {"find", "read", "getmtime", "build"} => tmpl[t].dict = None
    /\ pc[t] \in {"getmtime", "build"} => tmpl[t].src \in Contents

(* The entries of the cache are under their templates' names.              *)
CacheInv == KeysOnce(cache) /\ \A e \in ToSet(cache) : e.val.name = e.key

CallersHold == \A d \in CallerDicts : dicts[d] \in Values

ControlInv ==
    TypeOK /\ CacheInv /\ CallersHold /\ \A t \in Threads : Control(t)

(* A file never has an mtime that another version of it had.               *)
WorldInv ==
    /\ \A n \in Names, p \in 1..Places :
          /\ source[n][p].mtime <= changes
          /\ KindOf[n] = "file" => <<n, p, source[n][p]>> \in written
    /\ \A v, w \in written :
          /\ v[3].mtime <= changes
          /\ v[1] = w[1] /\ v[2] = w[2] /\ v[3].mtime = w[3].mtime => v = w

(* What thread t has seen, and why it may rely on what it has in hand.     *)
Search(t) ==
    LET tm == tmpl[t] IN
    /\ tm.mtime <= changes
    /\ \A p \in 1..Places : <<p, source[call[t].name][p].src>> \in seen[t]
    /\ pc[t] = "find" =>
          \A p \in 1..Places : p < tm.place => <<p, None>> \in seen[t]
    /\ pc[t] = "read" => \E c \in Contents : <<tm.place, c>> \in seen[t]
    /\ pc[t] \in {"getmtime", "build"} => <<tm.place, tm.src>> \in seen[t]
    /\ pc[t] = "update" /\ AutoReload /\ KindOf[call[t].name] # "function"
          => Torn(tm) \/ <<tm.place, tm.src>> \in seen[t]

(* Fresh and FailuresJustified for one thread.                             *)
Ended(t) ==
    /\ Reloading(t) => Torn(tmpl[t]) \/ <<tmpl[t].place, tmpl[t].src>> \in seen[t]
    /\ outcome[t] = "TemplateNotFound" =>
          \A p \in 1..Places : <<p, None>> \in seen[t]
    /\ outcome[t] = "TemplateSyntaxError" =>
          \E p \in 1..Places, c \in Broken : <<p, c>> \in seen[t]
    /\ outcome[t] = "vanished" =>
          \E p \in 1..Places, c \in Contents :
              {<<p, c>>, <<p, None>>} \subseteq seen[t]

SearchInv ==
    /\ WorldInv
    /\ \A e \in ToSet(cache) : e.val.mtime <= changes
    /\ \A t \in Threads : (Running(t) => Search(t)) /\ Ended(t)

(* The globals of every call that runs are among the offers of every other.*)
OffersInv ==
    /\ \A t, u \in Threads :
          Running(t) /\ Running(u) /\ call[u].dict # None
              => dicts[call[u].dict] \in offers[t]
    /\ GlobalsDelivered

-----------------------------------------------------------------------------
(* What every step of a thread leaves alone: the other threads.            *)
Alone(t) == \A u \in Threads \ {t} :
                /\ pc'[u] = pc[u] /\ call'[u] = call[u]
                /\ tmpl'[u] = tmpl[u] /\ outcome'[u] = outcome[u]

LEMMA ControlOfOne ==
    ASSUME ControlInv, NEW t \in Threads, Alone(t),
           TypeOK', CacheInv', CallersHold', Control(t)'
    PROVE  ControlInv'
<1>1. ASSUME NEW u \in Threads PROVE Control(u)'
  <2>1. CASE u = t
    BY <2>1
  <2>2. CASE u # t
    BY <2>2 DEF Alone, ControlInv, Control, Running
  <2>3. QED
    BY <2>1, <2>2
<1>2. QED
  BY <1>1 DEF ControlInv

LEMMA Sources ==
    ASSUME TypeOK
    PROVE  /\ \A n \in Names, p \in 1..Places : source[n][p] \in Version
           /\ \A w \in written : w[3] \in Version
<1>1. /\ source \in [Names -> [1..Places -> Version]]
      /\ written \subseteq Names \X (1..Places) \X Version
  BY DEF TypeOK
<1>2. QED
  BY <1>1

LEMMA Entries ==
    /\ \A e \in Entry : e = [key |-> e.key, val |-> e.val]
    /\ \A n \in Names, tm \in Template : [key |-> n, val |-> tm] \in Entry
    /\ TypeOK => cache \in Seq(Entry) /\ ToSet(cache) \subseteq Entry
<1>1. TypeOK => cache \in Seq(Entry)
  BY DEF TypeOK, Entry
<1>2. TypeOK => ToSet(cache) \subseteq Entry
  BY <1>1, Elements
<1>3. /\ \A e \in Entry : e = [key |-> e.key, val |-> e.val]
      /\ \A n \in Names, tm \in Template : [key |-> n, val |-> tm] \in Entry
  BY DEF Entry
<1>4. QED
  BY <1>1, <1>2, <1>3

LEMMA Templates ==
    /\ Template \subseteq PartlyRead
    /\ \A n \in Names : Unread(n) \in PartlyRead
    /\ None \notin PartlyRead /\ None \notin Contents
    /\ None \notin Dicts /\ None \notin Names
    /\ None \notin Values
<1>1. 0 \in 0..MaxChanges /\ 1 \in 1..Places
  BY BoundsAssumption
<1>2. \A n \in Names : Unread(n) \in PartlyRead
  BY <1>1 DEF Unread, PartlyRead
<1>3. QED
  BY <1>2, NoneAssumption, GlobalsAssumption DEF Template, PartlyRead, Values

LEMMA ControlInit == Init => ControlInv
<1> SUFFICES ASSUME Init PROVE ControlInv
  OBVIOUS
<1>1. source \in [Names -> [1..Places -> Version]]
  <2> DEFINE First == {[src |-> c, mtime |-> 0] : c \in Contents \cup {None}}
  <2>1. First \subseteq Version
    BY BoundsAssumption DEF Version
  <2>2. source \in [Names -> [1..Places -> First]]
    BY DEF Init
  <2> HIDE DEF First
  <2>3. QED
    BY <2>1, <2>2
<1>2. written \subseteq Names \X (1..Places) \X Version
  <2>1. SUFFICES ASSUME NEW w \in written
                 PROVE  w \in Names \X (1..Places) \X Version
    OBVIOUS
  <2>2. PICK n \in Names, p \in 1..Places : w = <<n, p, source[n][p]>>
    BY DEF Init
  <2>3. source[n][p] \in Version
    BY <1>1
  <2>4. QED
    BY <2>2, <2>3
<1>3. dicts \in [Dicts -> Values \cup {None}] /\ CallersHold
  BY DEF Init, Values, CallersHold, Dicts
<1>4. NoCall \in [name : Names \cup {None}, dict : CallerDicts \cup {None}]
  BY DEF NoCall
<1>5. TypeOK
  BY <1>1, <1>2, <1>3, <1>4, BoundsAssumption DEF Init, TypeOK, PCs, Endings
<1>6. CacheInv
  BY DEF Init, CacheInv, KeysOnce, ToSet
<1>7. ASSUME NEW t \in Threads PROVE Control(t)
  BY DEF Init, Control, Running
<1>8. QED
  BY <1>3, <1>5, <1>6, <1>7 DEF ControlInv

(* A source changes: no thread notices. *)
LEMMA ControlChange ==
    ASSUME ControlInv, NEW n \in Names, NEW p \in 1..Places,
           NEW c \in Contents \cup {None}, Change(n, p, c)
    PROVE  ControlInv'
<1> USE DEF Change, shared
<1> DEFINE v == [src |-> c, mtime |-> IF KindOf[n] = "file" THEN changes + 1 ELSE 0]
<1>1. TypeOK
  BY DEF ControlInv
<1>2. v \in Version /\ changes' \in 0..MaxChanges
  BY <1>1, BoundsAssumption DEF TypeOK, Version
<1>3. source' \in [Names -> [1..Places -> Version]]
  <2> DEFINE row == [source[n] EXCEPT ![p] = v]
  <2>1. source' = [source EXCEPT ![n] = row]
    OBVIOUS
  <2>2. source[n] \in [1..Places -> Version]
    BY <1>1 DEF TypeOK
  <2> HIDE DEF v
  <2>3. row \in [1..Places -> Version]
    BY <1>2, <2>2
  <2> HIDE DEF row
  <2>4. QED
    BY <1>1, <2>1, <2>3 DEF TypeOK
<1>4. written' \subseteq Names \X (1..Places) \X Version
  <2>1. written' = IF KindOf[n] = "file" THEN written \cup {<<n, p, v>>} ELSE written
    OBVIOUS
  <2> HIDE DEF v
  <2>2. QED
    BY <1>1, <1>2, <2>1 DEF TypeOK
<1>5. seen' \in [Threads -> SUBSET ((1..Places) \X (Contents \cup {None}))]
  BY <1>1 DEF TypeOK
<1>6. TypeOK'
  BY <1>1, <1>2, <1>3, <1>4, <1>5 DEF TypeOK
<1>7. CacheInv' /\ CallersHold'
  BY DEF ControlInv, CacheInv, CallersHold
<1>8. ASSUME NEW t \in Threads PROVE Control(t)'
  BY DEF ControlInv, Control, Running
<1>9. QED
  BY <1>6, <1>7, <1>8 DEF ControlInv

LEMMA ControlCall ==
    ASSUME ControlInv, NEW t \in Threads, NEW n \in Names,
           NEW d \in CallerDicts \cup {None}, Call(t, n, d)
    PROVE  ControlInv'
<1> USE DEF Call, Goto, Holding, world
<1> DEFINE hit == CacheSize # 0 /\ n \in Held(cache)
           tm  == IF hit THEN ValueOf(cache, n) ELSE Unread(n)
           ca  == IF hit /\ CacheSize > 0 THEN Touched(cache, n) ELSE cache
           new == [name |-> n, dict |-> d]
<1>1. TypeOK /\ CacheInv /\ CallersHold /\ Control(t)
  BY DEF ControlInv
<1>2. cache \in Seq(Entry) /\ KeysOnce(cache) /\ ToSet(cache) \subseteq Entry
  BY <1>1, Entries DEF CacheInv
<1>3. ASSUME hit
      PROVE  /\ tm \in Template /\ tm.name = n
             /\ Touched(cache, n) \in Seq(Entry)
             /\ KeysOnce(Touched(cache, n))
             /\ ToSet(Touched(cache, n)) = ToSet(cache)
  <2>1. /\ Touched(cache, n) \in Seq(Entry)
        /\ KeysOnce(Touched(cache, n))
        /\ ToSet(Touched(cache, n)) = ToSet(cache)
        /\ [key |-> n, val |-> ValueOf(cache, n)] \in ToSet(cache)
    BY <1>2, <1>3, Entries, TouchedEntries
  <2>2. ValueOf(cache, n) \in Template /\ ValueOf(cache, n).name = n
    BY <1>1, <1>2, <2>1 DEF CacheInv, Entry
  <2>3. QED
    BY <1>3, <2>1, <2>2
<1>4. tm \in PartlyRead /\ tm.name = n
  BY <1>3, Templates DEF Unread
<1>5. ca \in Seq(Entry) /\ KeysOnce(ca) /\ ToSet(ca) = ToSet(cache)
  BY <1>2, <1>3
<1>6. cache' = ca /\ tmpl' = [tmpl EXCEPT ![t] = tm] /\ call' = [call EXCEPT ![t] = new]
  OBVIOUS
<1>7. new \in [name : Names \cup {None}, dict : CallerDicts \cup {None}]
  OBVIOUS
<1>8. pc' \in [Threads -> PCs]
  BY <1>1 DEF TypeOK, PCs
<1>9. seen' \in [Threads -> SUBSET ((1..Places) \X (Contents \cup {None}))]
  <2>1. \A p \in 1..Places : source[n][p] \in Version
    BY <1>1, Sources
  <2>2. {<<p, source[n][p].src>> : p \in 1..Places}
          \in SUBSET ((1..Places) \X (Contents \cup {None}))
    BY <2>1 DEF Version
  <2>3. QED
    BY <1>1, <2>2 DEF TypeOK
<1>10. offers' \in [Threads -> SUBSET Values]
  <2>1. \A u \in Threads : call[u].dict \in CallerDicts \cup {None}
    BY <1>1 DEF TypeOK
  <2>2. QED
    BY <1>1, <2>1 DEF Offered, TypeOK, CallersHold
<1>11. CacheInv'
  BY <1>1, <1>5, <1>6 DEF CacheInv
<1>12. TypeOK'
  <2>1. source' = source /\ changes' = changes /\ written' = written
        /\ dicts' = dicts /\ outcome' = outcome
    OBVIOUS
  <2> HIDE DEF Call, tm, ca, new
  <2>2. QED
    BY <1>1, <1>4, <1>5, <1>6, <1>7, <1>8, <1>9, <1>10, <2>1 DEF TypeOK, Entry
<1>13. Control(t)'
  <2>1. pc'[t] = IF ~hit THEN "find" ELSE IF AutoReload THEN "check" ELSE "update"
    BY <1>1 DEF TypeOK
  <2>2. tmpl'[t] = tm /\ call'[t].name = n /\ outcome'[t] = "none"
    BY <1>1, <1>6 DEF TypeOK, Control
  <2>3. ~hit => tm.dict = None
    BY DEF Unread
  <2> HIDE DEF Call, hit, tm
  <2>4. QED
    BY <1>3, <1>4, <2>1, <2>2, <2>3 DEF Control, Running
<1>14. Alone(t) /\ CallersHold'
  BY <1>1 DEF Alone, TypeOK, CallersHold
<1>15. QED
  BY <1>11, <1>12, <1>13, <1>14, ControlOfOne

(* The steps that look at the template or at its source. *)
LEMMA ControlLook ==
    ASSUME ControlInv, NEW t \in Threads,
           Check(t) \/ Find(t) \/ Read(t) \/ GetMtime(t)
    PROVE  ControlInv'
<1> USE DEF Goto, Holding, Ending, world, shared, ghosts
<1> DEFINE tm == tmpl[t]
<1>1. TypeOK /\ Control(t)
  BY DEF ControlInv
<1>2. /\ UNCHANGED <<source, changes, written, cache, dicts, call, seen, offers>>
      /\ CacheInv' /\ CallersHold' /\ Alone(t)
  BY <1>1 DEF Check, Find, Read, GetMtime, ControlInv, CacheInv, CallersHold,
              Alone, TypeOK
<1>3. tm \in PartlyRead /\ tm.name = call[t].name /\ call[t].name \in Names
  BY <1>1 DEF Check, Find, Read, GetMtime, Control, Running
<1>4. tm.name \in Names /\ tm.place \in 1..Places
  BY <1>3 DEF PartlyRead
<1>5. \A p \in 1..Places : /\ source[tm.name][p].src \in Contents \cup {None}
                           /\ source[tm.name][p].mtime \in 0..MaxChanges
  <2> HIDE DEF tm
  <2>1. \A p \in 1..Places : source[tm.name][p] \in Version
    BY <1>1, <1>4, Sources
  <2>2. QED
    BY <2>1 DEF Version
<1>6. ASSUME pc' \in [Threads -> PCs], outcome' \in [Threads -> Endings],
             NEW new \in PartlyRead, tmpl' = [tmpl EXCEPT ![t] = new],
             Control(t)'
      PROVE  ControlInv'
  <2>1. TypeOK'
    BY <1>1, <1>2, <1>6 DEF TypeOK
  <2>2. QED
    BY <1>2, <1>6, <2>1, ControlOfOne
<1>7. CASE Check(t)
  <2> DEFINE ok == UpToDate(tmpl[t])
             new == IF ok THEN tm ELSE Unread(call[t].name)
  <2>1. tmpl' = [tmpl EXCEPT ![t] = new] /\ outcome' = outcome
    BY <1>7 DEF Check
  <2>2. pc' = [pc EXCEPT ![t] = IF ok THEN "update" ELSE "find"] /\ pc[t] = "check"
    BY <1>7 DEF Check
  <2>3. new \in PartlyRead /\ new.name = call[t].name
    BY <1>3, Templates DEF Unread
  <2>4. /\ ok => new \in Template
        /\ ~ok => new.dict = None
    BY <1>1, <2>2 DEF Control, Unread
  <2> HIDE DEF ok, new, tm
  <2>5. Control(t)'
    BY <1>1, <1>2, <1>3, <2>1, <2>2, <2>3, <2>4 DEF TypeOK, Control, Running
  <2>6. QED
    BY <1>1, <1>6, <2>1, <2>2, <2>3, <2>5 DEF TypeOK, PCs
<1>8. CASE Find(t)
  <2> DEFINE n == tm.name
             p == tm.place
             here == Exists(n, p)
             given == KindOf[n] = "function"
             place == IF here \/ p = Places THEN p ELSE p + 1
             src == IF given THEN source[n][p].src ELSE None
             new == [tm EXCEPT !.place = place, !.src = src]
             to == IF here THEN IF given THEN "build" ELSE "read"
                   ELSE IF p < Places THEN "find" ELSE "return"
             how == IF here \/ p < Places THEN "none" ELSE "TemplateNotFound"
  <2>1. /\ tmpl' = [tmpl EXCEPT ![t] = new]
        /\ outcome' = [outcome EXCEPT ![t] = how]
        /\ pc' = [pc EXCEPT ![t] = to]
        /\ pc[t] = "find"
    BY <1>8 DEF Find
  <2>2. place \in 1..Places /\ src \in Contents \cup {None}
    BY <1>4, <1>5, BoundsAssumption
  <2>3. to = "build" => src \in Contents
    BY <2>2 DEF Exists
  <2>4. /\ to \in {"build", "read", "find", "return"}
        /\ how \in {"none", "TemplateNotFound"}
        /\ to # "return" => how = "none"
    OBVIOUS
  <2>5. tm.dict = None
    BY <1>1, <2>1 DEF Control
  <2> HIDE DEF place, src, to, how, tm
  <2>6. new \in PartlyRead /\ new.name = call[t].name
        /\ new.dict = None /\ new.src = src
    BY <1>3, <2>2, <2>5 DEF PartlyRead
  <2> HIDE DEF new
  <2>7. Control(t)'
    BY <1>1, <1>2, <1>3, <2>1, <2>3, <2>4, <2>6 DEF TypeOK, Control, Running
  <2>8. pc' \in [Threads -> PCs] /\ outcome' \in [Threads -> Endings]
    BY <1>1, <2>1, <2>4 DEF TypeOK, PCs, Endings
  <2>9. QED
    BY <1>6, <2>1, <2>6, <2>7, <2>8
<1>9. CASE Read(t)
  <2> DEFINE v == source[tm.name][tm.place]
             new == [tm EXCEPT !.src = v.src]
             to == IF v.src = None THEN "return"
                   ELSE IF KindOf[tm.name] = "file" THEN "getmtime" ELSE "build"
             how == IF v.src = None THEN "vanished" ELSE "none"
  <2>1. /\ tmpl' = [tmpl EXCEPT ![t] = new]
        /\ outcome' = [outcome EXCEPT ![t] = how]
        /\ pc' = [pc EXCEPT ![t] = to]
        /\ pc[t] = "read"
    BY <1>9 DEF Read
  <2>2. v.src \in Contents \cup {None} /\ tm.dict = None
    BY <1>1, <1>4, <1>5, <2>1 DEF Control
  <2>3. /\ to \in {"build", "getmtime", "return"}
        /\ how \in {"none", "vanished"}
        /\ to # "return" => how = "none" /\ v.src # None
    OBVIOUS
  <2> HIDE DEF v, to, how, tm
  <2>4. new \in PartlyRead /\ new.name = call[t].name
        /\ new.dict = None /\ new.src = v.src
    BY <1>3, <2>2 DEF PartlyRead
  <2> HIDE DEF new
  <2>5. Control(t)'
    BY <1>1, <1>2, <1>3, <2>1, <2>2, <2>3, <2>4 DEF TypeOK, Control, Running
  <2>6. pc' \in [Threads -> PCs] /\ outcome' \in [Threads -> Endings]
    BY <1>1, <2>1, <2>3 DEF TypeOK, PCs, Endings
  <2>7. QED
    BY <1>6, <2>1, <2>4, <2>5, <2>6
<1>10. CASE GetMtime(t)
  <2> DEFINE v == source[tm.name][tm.place]
             new == [tm EXCEPT !.mtime = v.mtime]
             to == IF v.src = None THEN "return" ELSE "build"
             how == IF v.src = None THEN "vanished" ELSE "none"
  <2>1. /\ tmpl' = [tmpl EXCEPT ![t] = new]
        /\ outcome' = [outcome EXCEPT ![t] = how]
        /\ pc' = [pc EXCEPT ![t] = to]
        /\ pc[t] = "getmtime"
    BY <1>10 DEF GetMtime
  <2>2. v.mtime \in 0..MaxChanges /\ tm.dict = None /\ tm.src \in Contents
    BY <1>1, <1>4, <1>5, <2>1 DEF Control
  <2>3. /\ to \in {"build", "return"}
        /\ how \in {"none", "vanished"}
        /\ to # "return" => how = "none"
    OBVIOUS
  <2> HIDE DEF v, to, how, tm
  <2>4. new \in PartlyRead /\ new.name = call[t].name
        /\ new.dict = None /\ new.src \in Contents
    BY <1>3, <2>2 DEF PartlyRead
  <2> HIDE DEF new
  <2>5. Control(t)'
    BY <1>1, <1>2, <1>3, <2>1, <2>3, <2>4 DEF TypeOK, Control, Running
  <2>6. pc' \in [Threads -> PCs] /\ outcome' \in [Threads -> Endings]
    BY <1>1, <2>1, <2>3 DEF TypeOK, PCs, Endings
  <2>7. QED
    BY <1>6, <2>1, <2>4, <2>5, <2>6
<1>11. QED
  BY <1>7, <1>8, <1>9, <1>10

(* There is a dictionary that is in nobody's hands when a template is      *)
(* built: at most one per name is in the cache and at most one per thread  *)
(* in use, and the builder has none yet.                                   *)
LEMMA NewDictIsNew ==
    ASSUME ControlInv, NEW t \in Threads, pc[t] = "build"
    PROVE  NewDict \in FreshDicts /\ NewDict \notin InUse(Threads)
<1> DEFINE names == Held(cache)
           inCache == {e.val.dict : e \in ToSet(cache)}
           others == {u \in Threads \ {t} : tmpl[u] # None}
           inHands == {tmpl[u].dict : u \in others}
<1>1. TypeOK /\ CacheInv /\ Control(t)
  BY DEF ControlInv
<1>2. cache \in Seq(Entry) /\ KeysOnce(cache) /\ ToSet(cache) \subseteq Entry
  BY <1>1, Entries DEF CacheInv
<1>3. IsFiniteSet(inCache) /\ Cardinality(inCache) <= Cardinality(Names)
  <2>1. names \subseteq Names
    BY <1>2 DEF Held, Entry
  <2>2. IsFiniteSet(names) /\ Cardinality(names) <= Cardinality(Names)
    BY <2>1, FiniteAssumption, FS_Subset
  <2> DEFINE f == [n \in names |-> ValueOf(cache, n).dict]
  <2>3. \A e \in ToSet(cache) : e.key \in names /\ f[e.key] = e.val.dict
    BY <1>2, ValueOfEntry DEF Held
  <2>4. \A n \in names : \E e \in ToSet(cache) : f[n] = e.val.dict
    BY <2>3 DEF Held
  <2>5. f \in Surjection(names, inCache)
    BY <2>3, <2>4 DEF Surjection
  <2> HIDE DEF f, names, inCache
  <2>6. QED
    BY <2>2, <2>5, FiniteAssumption, FS_Surjection, FS_CardinalityType
<1>4. IsFiniteSet(inHands) /\ Cardinality(inHands) <= Cardinality(Threads) - 1
  <2>1. /\ IsFiniteSet(Threads \ {t})
        /\ Cardinality(Threads \ {t}) = Cardinality(Threads) - 1
    BY FiniteAssumption, FS_RemoveElement
  <2>2. IsFiniteSet(others) /\ Cardinality(others) <= Cardinality(Threads \ {t})
    BY <2>1, FS_Subset
  <2> DEFINE g == [u \in others |-> tmpl[u].dict]
  <2>3. g \in Surjection(others, inHands)
    BY DEF Surjection
  <2> HIDE DEF g, others, inHands
  <2>4. QED
    BY <2>1, <2>2, <2>3, FiniteAssumption, FS_Surjection, FS_CardinalityType
<1>5. InUse(Threads) \subseteq inCache \cup inHands \cup {None}
  <2>1. tmpl[t].dict = None
    BY <1>1 DEF Control
  <2>2. QED
    BY <2>1 DEF InUse
<1> HIDE DEF inCache, inHands
<1>6. /\ IsFiniteSet(inCache \cup inHands)
      /\ Cardinality(inCache \cup inHands)
           <= Cardinality(Names) + Cardinality(Threads) - 1
  <2>1. /\ IsFiniteSet(inCache \cup inHands)
        /\ Cardinality(inCache \cup inHands) =
             Cardinality(inCache) + Cardinality(inHands)
               - Cardinality(inCache \cap inHands)
    BY <1>3, <1>4, FS_Union
  <2>2. IsFiniteSet(inCache \cap inHands)
    BY <1>3, <1>4, FS_Intersection
  <2>3. /\ Cardinality(inCache \cap inHands) \in Nat
        /\ Cardinality(inCache) \in Nat /\ Cardinality(inHands) \in Nat
        /\ Cardinality(Names) \in Nat /\ Cardinality(Threads) \in Nat
    BY <1>3, <1>4, <2>2, FiniteAssumption, FS_CardinalityType
  <2>4. QED
    BY <1>3, <1>4, <2>1, <2>3
<1>7. ~ FreshDicts \subseteq inCache \cup inHands
  <2>1. Cardinality(Names) \in Nat /\ Cardinality(Threads) \in Nat
    BY FiniteAssumption, FS_CardinalityType
  <2>2. Cardinality(FreshDicts) = Cardinality(Names) + Cardinality(Threads)
    BY <2>1, FS_Interval, FS_EmptySet DEF FreshDicts
  <2>3. Cardinality(inCache \cup inHands) \in Nat
    BY <1>6, FS_CardinalityType
  <2>4. SUFFICES ASSUME FreshDicts \subseteq inCache \cup inHands
                 PROVE  FALSE
    OBVIOUS
  <2>5. Cardinality(FreshDicts) <= Cardinality(inCache \cup inHands)
    BY <1>6, <2>4, FS_Subset
  <2>6. QED
    BY <1>6, <2>1, <2>2, <2>3, <2>5
<1> DEFINE free == FreshDicts \ InUse(Threads)
<1>8. free # {} /\ free \in SUBSET Nat
  <2>1. None \notin FreshDicts
    BY Templates DEF Dicts
  <2>2. FreshDicts \subseteq Nat
    BY FiniteAssumption, FS_CardinalityType DEF FreshDicts
  <2>3. QED
    BY <1>5, <1>7, <2>1, <2>2
<1> HIDE DEF free
<1>9. Min(free) \in free
  BY <1>8, MinIn
<1>10. QED
  BY <1>9 DEF free, NewDict

LEMMA ControlUpdate ==
    ASSUME ControlInv, NEW t \in Threads, Update(t)
    PROVE  ControlInv'
<1> USE DEF Update, Goto, Ending, world, ghosts
<1> DEFINE d == call[t].dict
<1>1. TypeOK /\ CacheInv /\ CallersHold /\ Control(t)
  BY DEF ControlInv
<1>2. tmpl[t] \in Template /\ call[t].dict \in CallerDicts \cup {None}
  BY <1>1 DEF Control, TypeOK
<1>3. dicts' \in [Dicts -> Values \cup {None}] /\ CallersHold'
  <2>1. CASE d = None
    BY <1>1, <2>1 DEF TypeOK, CallersHold
  <2>2. CASE d # None
    <3>1. dicts[d] \in Values /\ tmpl[t].dict \in Dicts
      BY <1>1, <1>2, <2>2 DEF CallersHold, Template
    <3>2. dicts' = [dicts EXCEPT ![tmpl[t].dict] = dicts[d]]
      BY <2>2
    <3>3. QED
      BY <1>1, <3>1, <3>2 DEF TypeOK, CallersHold, Dicts
  <2>3. QED
    BY <2>1, <2>2
<1>4. TypeOK'
  BY <1>1, <1>3 DEF TypeOK, PCs, Endings
<1>5. CacheInv' /\ Alone(t)
  BY <1>1 DEF CacheInv, Alone, TypeOK
<1>6. Control(t)'
  BY <1>1, <1>2 DEF Control, Running, TypeOK
<1>7. QED
  BY <1>3, <1>4, <1>5, <1>6, ControlOfOne

(* What is built: the template with its dictionary, in hand and, if there  *)
(* is a cache, in the cache.                                               *)
LEMMA Built ==
    ASSUME ControlInv, NEW t \in Threads, BuildAndStore(t),
           tmpl[t].src \notin Broken
    PROVE  \E d \in Dicts, tm \in Template :
              /\ d = IF call[t].dict = None THEN NewDict ELSE call[t].dict
              /\ tm = [tmpl[t] EXCEPT !.dict = d]
              /\ tm.dict = d /\ tm.name = call[t].name /\ tm.src = tmpl[t].src
              /\ tm.place = tmpl[t].place /\ tm.mtime = tmpl[t].mtime
              /\ tmpl' = [tmpl EXCEPT ![t] = tm]
              /\ outcome' = [outcome EXCEPT ![t] = "ok"]
              /\ dicts' = IF d \in FreshDicts THEN [dicts EXCEPT ![d] = None]
                          ELSE dicts
              /\ cache' \in Seq(Entry) /\ KeysOnce(cache')
              /\ ToSet(cache') \subseteq
                    ToSet(cache) \cup {[key |-> call[t].name, val |-> tm]}
<1> DEFINE d == IF call[t].dict = None THEN NewDict ELSE call[t].dict
           tm == [tmpl[t] EXCEPT !.dict = d]
           n == call[t].name
<1>1. TypeOK /\ CacheInv /\ Control(t)
  BY DEF ControlInv
<1>2. pc[t] = "build"
  BY DEF BuildAndStore, Goto
<1>3. /\ tmpl' = [tmpl EXCEPT ![t] = tm]
      /\ outcome' = [outcome EXCEPT ![t] = "ok"]
      /\ dicts' = IF d \in FreshDicts THEN [dicts EXCEPT ![d] = None] ELSE dicts
      /\ cache' = IF CacheSize = 0 THEN cache ELSE Stored(cache, n, tm, CacheSize)
  BY DEF BuildAndStore, Ending, Holding
<1>4. d \in Dicts
  BY <1>1, <1>2, NewDictIsNew DEF TypeOK, Dicts
<1>5. /\ tmpl[t] \in PartlyRead /\ tmpl[t].src \in Contents
      /\ tmpl[t].name = n /\ n \in Names
  BY <1>1, <1>2 DEF Control, Running
<1> HIDE DEF d
<1>6. /\ tm \in Template /\ tm.dict = d /\ tm.name = n /\ tm.src = tmpl[t].src
      /\ tm.place = tmpl[t].place /\ tm.mtime = tmpl[t].mtime
  BY <1>4, <1>5 DEF PartlyRead, Template
<1>7. cache \in Seq(Entry) /\ KeysOnce(cache)
  BY <1>1, Entries DEF CacheInv
<1> DEFINE e == [key |-> n, val |-> tm]
<1>8. e \in Entry
  BY <1>5, <1>6, Entries
<1>9. /\ cache' \in Seq(Entry) /\ KeysOnce(cache')
      /\ ToSet(cache') \subseteq ToSet(cache) \cup {e}
  <2>1. CASE CacheSize = 0
    BY <1>3, <1>7, <2>1
  <2>2. CASE CacheSize # 0
    <3> DEFINE s == Stored(cache, n, tm, CacheSize)
    <3> HIDE DEF tm
    <3>1. /\ s \in Seq(Entry) /\ KeysOnce(s)
          /\ ToSet(s) \subseteq {x \in ToSet(cache) : x.key # n} \cup {e}
      BY <1>7, <1>8, <2>2, StoredEntries
    <3>2. QED
      BY <1>3, <2>2, <3>1
  <2>3. QED
    BY <2>1, <2>2
<1> HIDE DEF tm
<1>10. QED
  BY <1>3, <1>4, <1>6, <1>9 DEF d, tm

LEMMA ControlBuild ==
    ASSUME ControlInv, NEW t \in Threads, BuildAndStore(t)
    PROVE  ControlInv'
<1>1. TypeOK /\ CacheInv /\ CallersHold /\ Control(t)
  BY DEF ControlInv
<1>2. /\ pc[t] = "build" /\ pc' = [pc EXCEPT ![t] = "return"]
      /\ UNCHANGED <<source, changes, written, call, seen, offers>>
  BY DEF BuildAndStore, Goto, world, ghosts
<1>3. CASE tmpl[t].src \in Broken
  <2>1. /\ outcome' = [outcome EXCEPT ![t] = "TemplateSyntaxError"]
        /\ UNCHANGED <<tmpl, cache, dicts>>
    BY <1>3 DEF BuildAndStore, Ending, shared
  <2>2. TypeOK'
    BY <1>1, <1>2, <2>1 DEF TypeOK, PCs, Endings
  <2>3. CacheInv' /\ CallersHold' /\ Alone(t)
    BY <1>1, <1>2, <2>1 DEF CacheInv, CallersHold, Alone, TypeOK
  <2>4. Control(t)'
    BY <1>1, <1>2, <2>1 DEF Control, Running, TypeOK
  <2>5. QED
    BY <2>2, <2>3, <2>4, ControlOfOne
<1>4. CASE tmpl[t].src \notin Broken
  <2>1. PICK d \in Dicts, tm \in Template :
              /\ d = IF call[t].dict = None THEN NewDict ELSE call[t].dict
              /\ tm.dict = d /\ tm.name = call[t].name
              /\ tmpl' = [tmpl EXCEPT ![t] = tm]
              /\ outcome' = [outcome EXCEPT ![t] = "ok"]
              /\ dicts' = IF d \in FreshDicts THEN [dicts EXCEPT ![d] = None]
                          ELSE dicts
              /\ cache' \in Seq(Entry) /\ KeysOnce(cache')
              /\ ToSet(cache') \subseteq
                    ToSet(cache) \cup {[key |-> call[t].name, val |-> tm]}
    BY <1>4, Built
  <2>2. dicts' \in [Dicts -> Values \cup {None}] /\ CallersHold'
    BY <1>1, <2>1, DictsAssumption DEF TypeOK, CallersHold, Dicts
  <2>3. TypeOK'
    BY <1>1, <1>2, <2>1, <2>2, Templates DEF TypeOK, PCs, Endings, Entry
  <2>4. CacheInv' /\ Alone(t)
    BY <1>1, <1>2, <2>1 DEF CacheInv, Alone, TypeOK
  <2>5. Control(t)'
    BY <1>1, <1>2, <2>1, Templates DEF Control, Running, TypeOK
  <2>6. QED
    BY <2>2, <2>3, <2>4, <2>5, ControlOfOne
<1>5. QED
  BY <1>3, <1>4

LEMMA ControlReturn ==
    ASSUME ControlInv, NEW t \in Threads, Return(t)
    PROVE  ControlInv'
<1> USE DEF Return, Goto, Holding, Ending, world
<1>1. TypeOK /\ CacheInv /\ CallersHold /\ Control(t)
  BY DEF ControlInv
<1>2. dicts' \in [Dicts -> Values \cup {None}] /\ CallersHold'
  <2> DEFINE kept == CallerDicts \cup InUse(Threads \ {t})
  <2>1. dicts' = [d \in Dicts |-> IF d \in kept THEN dicts[d] ELSE None]
    OBVIOUS
  <2> HIDE DEF kept
  <2>2. dicts' \in [Dicts -> Values \cup {None}]
    BY <1>1, <2>1 DEF TypeOK
  <2>3. CallersHold'
    BY <1>1, <2>1 DEF CallersHold, Dicts, kept
  <2>4. QED
    BY <2>2, <2>3
<1>3. TypeOK'
  BY <1>1, <1>2 DEF TypeOK, PCs, Endings, NoCall
<1>4. CacheInv' /\ Alone(t)
  BY <1>1 DEF CacheInv, Alone, TypeOK
<1>5. Control(t)'
  BY <1>1 DEF Control, Running, TypeOK
<1>6. QED
  BY <1>2, <1>3, <1>4, <1>5, ControlOfOne

LEMMA ControlNext == ControlInv /\ [Next]_vars => ControlInv'
<1> SUFFICES ASSUME ControlInv, [Next]_vars PROVE ControlInv'
  OBVIOUS
<1>1. CASE UNCHANGED vars
  BY <1>1 DEF vars, world, shared, ghosts, ControlInv, TypeOK, CacheInv,
              CallersHold, Control, Running
<1>2. CASE \E n \in Names, p \in 1..Places, c \in Contents \cup {None} :
             Change(n, p, c)
  BY <1>2, ControlChange
<1>3. CASE \E t \in Threads, n \in Names, d \in CallerDicts \cup {None} :
             Call(t, n, d)
  BY <1>3, ControlCall
<1>4. CASE \E t \in Threads : Step(t)
  BY <1>4, ControlLook, ControlUpdate, ControlBuild, ControlReturn DEF Step
<1>5. QED
  BY <1>1, <1>2, <1>3, <1>4 DEF Next

(* What each thread holds fits the statement of get_template it is at.     *)
THEOREM ControlHolds == Spec => []ControlInv
  BY ControlInit, ControlNext, PTL DEF Spec

(* Every variable of get_template holds a value of its kind, whatever the  *)
(* threads and the writers of the sources do: among others, there is       *)
(* always a new dictionary for a template that is built without globals.   *)
THEOREM TypeCorrect == Spec => []TypeOK
<1>1. ControlInv => TypeOK
  BY DEF ControlInv
<1>2. QED
  BY <1>1, ControlHolds, PTL

-----------------------------------------------------------------------------
(* What the threads have seen                                              *)

LEMMA SearchInit == Init => SearchInv
<1> SUFFICES ASSUME Init PROVE SearchInv
  OBVIOUS
<1>1. \A n \in Names, p \in 1..Places : source[n][p].mtime = 0
  <2> DEFINE First == {[src |-> c, mtime |-> 0] : c \in Contents \cup {None}}
  <2>1. source \in [Names -> [1..Places -> First]]
    BY DEF Init
  <2>2. \A v \in First : v.mtime = 0
    OBVIOUS
  <2> HIDE DEF First
  <2>3. QED
    BY <2>1, <2>2
<1>2. WorldInv
  <2>1. \A w \in written : \E n \in Names, p \in 1..Places :
            w = <<n, p, source[n][p]>>
    BY DEF Init
  <2>2. \A n \in Names, p \in 1..Places :
            KindOf[n] = "file" => <<n, p, source[n][p]>> \in written
    BY DEF Init
  <2>3. changes = 0
    BY DEF Init
  <2>4. QED
    BY <1>1, <2>1, <2>2, <2>3 DEF WorldInv
<1>3. \A e \in ToSet(cache) : e.val.mtime <= changes
  BY DEF Init, ToSet
<1>4. QED
  BY <1>2, <1>3 DEF Init, SearchInv, Running, Ended, Reloading

(* A template that does not fit any version of its file never will.        *)
LEMMA SearchChange ==
    ASSUME ControlInv, SearchInv, NEW n \in Names, NEW p \in 1..Places,
           NEW c \in Contents \cup {None}, Change(n, p, c)
    PROVE  SearchInv'
<1> USE DEF Change, shared
<1> DEFINE v == [src |-> c, mtime |-> IF KindOf[n] = "file" THEN changes + 1 ELSE 0]
<1>1. TypeOK /\ WorldInv
  BY DEF ControlInv, SearchInv
<1>2. /\ changes \in Nat /\ changes' = changes + 1
      /\ source' = [source EXCEPT ![n][p] = v]
      /\ written' = IF KindOf[n] = "file" THEN written \cup {<<n, p, v>>}
                    ELSE written
      /\ v.src = c /\ v.mtime <= changes + 1
      /\ KindOf[n] = "file" => v.mtime = changes + 1
      /\ UNCHANGED <<cache, dicts, pc, call, tmpl, outcome, offers>>
  BY <1>1 DEF TypeOK
<1>3. /\ \A t \in Threads : seen[t] \subseteq seen'[t]
      /\ \A t \in Threads : call[t].name = n => <<p, c>> \in seen'[t]
  BY <1>1 DEF TypeOK
<1> HIDE DEF v, Change
<1>4. \A m \in Names, q \in 1..Places :
          source'[m][q] = IF m = n /\ q = p THEN v ELSE source[m][q]
  BY <1>1, <1>2 DEF TypeOK
<1>5. /\ \A m \in Names, q \in 1..Places :
             source[m][q] \in Version /\ source[m][q].mtime \in Nat
      /\ \A w \in written : w[3].mtime \in Nat
  <2>1. \A m \in Names, q \in 1..Places : source[m][q] \in Version
    BY <1>1, Sources
  <2>2. \A w \in written : w[3] \in Version
    BY <1>1, Sources
  <2>3. \A x \in Version : x.mtime \in Nat
    BY DEF Version
  <2>4. QED
    BY <2>1, <2>2, <2>3
<1>6. WorldInv'
  <2>1. \A m \in Names, q \in 1..Places :
          /\ source'[m][q].mtime <= changes'
          /\ KindOf[m] = "file" => <<m, q, source'[m][q]>> \in written'
    BY <1>1, <1>2, <1>4, <1>5 DEF WorldInv
  <2>2. ASSUME NEW w \in written' PROVE w[3].mtime <= changes'
    BY <1>1, <1>2, <1>5 DEF WorldInv
  <2>3. ASSUME NEW x \in written', NEW y \in written',
               x[1] = y[1], x[2] = y[2], x[3].mtime = y[3].mtime
        PROVE  x = y
    <3>1. \A w \in written : w[3].mtime < changes + 1
      BY <1>1, <1>2, <1>5 DEF WorldInv
    <3>2. QED
      BY <1>1, <1>2, <1>5, <2>3, <3>1 DEF WorldInv
  <2>4. QED
    BY <2>1, <2>2, <2>3 DEF WorldInv
<1>7. ASSUME NEW t \in Threads, tmpl[t] \in PartlyRead,
             tmpl[t].mtime <= changes, Torn(tmpl[t])
      PROVE  Torn(tmpl[t])'
  <2>1. tmpl[t].mtime \in Nat
    BY <1>7 DEF PartlyRead
  <2>2. QED
    BY <1>2, <1>7, <2>1 DEF Torn
<1>8. ASSUME NEW e \in ToSet(cache') PROVE e.val.mtime <= changes'
  <2>1. e \in ToSet(cache) /\ e.val \in Template
    BY <1>1, <1>2, <1>8, Entries DEF Entry
  <2>2. e.val.mtime \in Nat /\ e.val.mtime <= changes
    BY <2>1 DEF SearchInv, Template
  <2>3. QED
    BY <1>2, <2>2
<1>9. ASSUME NEW t \in Threads, Running(t)'
      PROVE  Search(t)'
  <2> DEFINE tm == tmpl[t]
  <2>1. Running(t) /\ Search(t) /\ call[t].name \in Names /\ tm \in PartlyRead
    BY <1>2, <1>9 DEF Running, SearchInv, ControlInv, Control
  <2>2. tm.mtime <= changes /\ tm.mtime <= changes'
    <3>1. tm.mtime \in Nat /\ tm.mtime <= changes
      BY <2>1 DEF PartlyRead, Search
    <3>2. QED
      BY <1>2, <3>1
  <2>3. Torn(tmpl[t]) => Torn(tmpl[t])'
    BY <1>7, <2>1, <2>2
  <2>4. \A q \in 1..Places : <<q, source'[call[t].name][q].src>> \in seen'[t]
    BY <1>2, <1>3, <1>4, <2>1 DEF Search
  <2>5. QED
    BY <1>2, <1>3, <2>1, <2>2, <2>3, <2>4 DEF Search
<1>10. ASSUME NEW t \in Threads PROVE Ended(t)'
  <2>1. Ended(t) /\ Control(t) /\ (Running(t) => Search(t))
    BY DEF SearchInv, ControlInv
  <2>2. Reloading(t)' => Torn(tmpl[t])' \/ <<tmpl[t].place, tmpl[t].src>> \in seen'[t]
    <3>1. SUFFICES ASSUME Reloading(t)', Torn(tmpl[t])
                   PROVE  Torn(tmpl[t])'
      BY <1>2, <1>3, <2>1 DEF Ended, Reloading
    <3>2. Running(t)
      BY <1>2, <2>1, <3>1 DEF Reloading, Control, Running
    <3>3. tmpl[t] \in PartlyRead /\ tmpl[t].mtime <= changes
      BY <2>1, <3>2 DEF Control, Search
    <3>4. QED
      BY <1>7, <3>1, <3>3
  <2>3. QED
    BY <1>2, <1>3, <2>1, <2>2 DEF Ended
<1>11. QED
  BY <1>6, <1>8, <1>9, <1>10 DEF SearchInv

(* A step of t that leaves the sources and the cache alone, or stores what *)
(* is no younger than the last change.                                     *)
LEMMA SearchOfOne ==
    ASSUME SearchInv, NEW t \in Threads, Alone(t), UNCHANGED world,
           \A e \in ToSet(cache') : e.val.mtime <= changes,
           \A u \in Threads \ {t} : seen'[u] = seen[u],
           Running(t)' => Search(t)', Ended(t)'
    PROVE  SearchInv'
<1> USE DEF world
<1>1. WorldInv'
  BY DEF SearchInv, WorldInv
<1>2. ASSUME NEW u \in Threads PROVE (Running(u)' => Search(u)') /\ Ended(u)'
  <2>1. CASE u = t
    BY <2>1
  <2>2. CASE u # t
    <3>1. (Running(u) => Search(u)) /\ Ended(u)
      BY DEF SearchInv
    <3>2. /\ pc'[u] = pc[u] /\ call'[u] = call[u] /\ tmpl'[u] = tmpl[u]
          /\ outcome'[u] = outcome[u] /\ seen'[u] = seen[u]
      BY <2>2 DEF Alone
    <3>3. Torn(tmpl[u])' = Torn(tmpl[u])
      BY <3>2 DEF Torn
    <3>4. Running(u)' => Search(u)'
      BY <3>1, <3>2, <3>3 DEF Search, Running
    <3>5. Ended(u)'
      BY <3>1, <3>2, <3>3 DEF Ended, Reloading
    <3>6. QED
      BY <3>4, <3>5
  <2>3. QED
    BY <2>1, <2>2
<1>3. QED
  BY <1>1, <1>2 DEF SearchInv

LEMMA SearchCall ==
    ASSUME ControlInv, SearchInv, NEW t \in Threads, NEW n \in Names,
           NEW d \in CallerDicts \cup {None}, Call(t, n, d)
    PROVE  SearchInv'
<1> USE DEF Call, Goto, Holding, world
<1> DEFINE hit == CacheSize # 0 /\ n \in Held(cache)
           tm  == IF hit THEN ValueOf(cache, n) ELSE Unread(n)
<1>1. TypeOK /\ CacheInv /\ Control(t)
  BY DEF ControlInv
<1>2. cache \in Seq(Entry) /\ KeysOnce(cache) /\ ToSet(cache) \subseteq Entry
  BY <1>1, Entries DEF CacheInv
<1>3. ToSet(cache') = ToSet(cache) /\ tm.mtime <= changes
  <2>1. ASSUME hit
        PROVE  /\ ToSet(Touched(cache, n)) = ToSet(cache)
               /\ [key |-> n, val |-> ValueOf(cache, n)] \in ToSet(cache)
    BY <1>2, <2>1, Entries, TouchedEntries
  <2>2. changes \in Nat
    BY <1>1 DEF TypeOK
  <2>3. QED
    BY <2>1, <2>2 DEF Unread, SearchInv
<1>4. Search(t)'
  <2>1. /\ tmpl'[t] = tm /\ call'[t].name = n
        /\ pc'[t] = IF ~hit THEN "find" ELSE IF AutoReload THEN "check" ELSE "update"
        /\ seen'[t] = {<<p, source[n][p].src>> : p \in 1..Places}
        /\ UNCHANGED <<source, changes, written>>
    BY <1>1 DEF TypeOK
  <2>2. ~hit => tm.place = 1
    BY DEF Unread
  <2> HIDE DEF hit, tm, Call
  <2>3. QED
    BY <1>3, <2>1, <2>2 DEF Search
<1>5. Ended(t)'
  BY <1>1 DEF Control, Ended, Reloading, TypeOK
<1>6. /\ Alone(t) /\ UNCHANGED world
      /\ \A u \in Threads \ {t} : seen'[u] = seen[u]
      /\ \A e \in ToSet(cache') : e.val.mtime <= changes
  BY <1>1, <1>3 DEF Alone, TypeOK, SearchInv
<1>7. QED
  BY <1>4, <1>5, <1>6, SearchOfOne

(* The place t looks at, as it is now, is among what t has seen.           *)
LEMMA SeenNow ==
    ASSUME ControlInv, SearchInv, NEW t \in Threads, Running(t)
    PROVE  LET v == source[tmpl[t].name][tmpl[t].place] IN
           /\ tmpl[t].name \in Names /\ tmpl[t].name = call[t].name
           /\ tmpl[t].place \in 1..Places
           /\ v.src \in Contents \cup {None} /\ v.mtime <= changes
           /\ <<tmpl[t].place, v.src>> \in seen[t]
<1>1. TypeOK /\ Control(t) /\ Search(t)
  BY DEF ControlInv, SearchInv
<1>2. tmpl[t].name \in Names /\ tmpl[t].name = call[t].name
      /\ tmpl[t].place \in 1..Places
  BY <1>1 DEF Control, PartlyRead
<1>3. source[tmpl[t].name][tmpl[t].place] \in Version
  <2>1. \A n \in Names, p \in 1..Places : source[n][p] \in Version
    BY <1>1, Sources
  <2>2. QED
    BY <1>2, <2>1
<1>4. source[tmpl[t].name][tmpl[t].place].mtime <= changes
  BY <1>2 DEF SearchInv, WorldInv
<1>5. QED
  BY <1>1, <1>2, <1>3, <1>4 DEF Search, Version

(* A cached template that passes the check says what its place says: a     *)
(* mapping is compared, and no two versions of a file share an mtime.      *)
LEMMA UpToDateSeen ==
    ASSUME ControlInv, SearchInv, NEW t \in Threads, pc[t] = "check",
           UpToDate(tmpl[t]), KindOf[tmpl[t].name] # "function"
    PROVE  Torn(tmpl[t]) \/ <<tmpl[t].place, tmpl[t].src>> \in seen[t]
<1> DEFINE tm == tmpl[t]
           v == source[tm.name][tm.place]
<1>1. Running(t)
  BY DEF Running
<1>2. tm.name \in Names /\ tm.place \in 1..Places /\ <<tm.place, v.src>> \in seen[t]
  BY <1>1, SeenNow
<1>3. CASE KindOf[tm.name] = "dict"
  BY <1>2, <1>3 DEF UpToDate
<1>4. CASE KindOf[tm.name] = "file"
  <2>1. v.mtime = tm.mtime
    BY <1>4 DEF UpToDate
  <2>2. <<tm.name, tm.place, v>> \in written
    BY <1>2, <1>4 DEF SearchInv, WorldInv
  <2> DEFINE w == [src |-> tm.src, mtime |-> tm.mtime]
  <2>3. SUFFICES ASSUME <<tm.name, tm.place, w>> \in written
                 PROVE  v = w
    BY <1>2, <1>4 DEF Torn
  <2>4. \A x, y \in written :
            x[1] = y[1] /\ x[2] = y[2] /\ x[3].mtime = y[3].mtime => x = y
    BY DEF SearchInv, WorldInv
  <2>5. w.mtime = v.mtime
    BY <2>1
  <2> HIDE DEF v, w, tm
  <2>6. QED
    BY <2>2, <2>3, <2>4, <2>5
<1>5. QED
  BY <1>2, <1>3, <1>4, KindsAssumption DEF Kinds

LEMMA SearchLook ==
    ASSUME ControlInv, SearchInv, NEW t \in Threads,
           Check(t) \/ Find(t) \/ Read(t) \/ GetMtime(t)
    PROVE  SearchInv'
<1> USE DEF Goto, Holding, Ending, world, shared, ghosts
<1> DEFINE tm == tmpl[t]
           v  == source[tm.name][tm.place]
<1>1. TypeOK /\ Control(t) /\ Running(t) /\ Search(t)
  BY DEF ControlInv, SearchInv, Check, Find, Read, GetMtime, Running
<1>2. /\ UNCHANGED <<source, changes, written, cache, dicts, call, seen, offers>>
      /\ Alone(t)
  BY <1>1 DEF Check, Find, Read, GetMtime, Alone, TypeOK
<1>3. /\ tm.name \in Names /\ tm.name = call[t].name /\ tm.place \in 1..Places
      /\ v.src \in Contents \cup {None} /\ v.mtime <= changes
      /\ <<tm.place, v.src>> \in seen[t]
  BY <1>1, SeenNow
<1>4. tm \in PartlyRead /\ changes \in Nat
  BY <1>1 DEF Control, TypeOK
<1>5. ASSUME Search(t)', Ended(t)' PROVE SearchInv'
  BY <1>2, <1>5, SearchOfOne DEF SearchInv
<1>6. CASE Check(t)
  <2> DEFINE ok == UpToDate(tmpl[t])
  <2>1. /\ pc[t] = "check" /\ outcome[t] = "none" /\ outcome'[t] = "none"
        /\ pc'[t] = IF ok THEN "update" ELSE "find"
        /\ tmpl'[t] = IF ok THEN tm ELSE Unread(call[t].name)
    BY <1>1, <1>6 DEF Check, TypeOK, Control
  <2>2. Ended(t)'
    BY <2>1 DEF Ended, Reloading
  <2>3. ok /\ KindOf[tm.name] # "function"
          => Torn(tm) \/ <<tm.place, tm.src>> \in seen[t]
    BY <2>1, UpToDateSeen
  <2> HIDE DEF ok
  <2>4. Search(t)'
    <3>1. CASE ok
      BY <1>1, <1>2, <1>3, <2>1, <2>3, <3>1 DEF Search, Torn
    <3>2. CASE ~ok
      BY <1>1, <1>2, <1>4, <2>1, <3>2 DEF Search, Unread
    <3>3. QED
      BY <3>1, <3>2
  <2>5. QED
    BY <1>5, <2>2, <2>4
<1>7. CASE Find(t)
  <2> DEFINE n == tm.name
             p == tm.place
             here == Exists(n, p)
             given == KindOf[n] = "function"
             place == IF here \/ p = Places THEN p ELSE p + 1
             src == IF given THEN v.src ELSE None
  <2>1. /\ pc[t] = "find"
        /\ tmpl'[t] = [tm EXCEPT !.place = place, !.src = src]
        /\ outcome'[t] = IF here \/ p < Places THEN "none" ELSE "TemplateNotFound"
        /\ pc'[t] = IF here THEN IF given THEN "build" ELSE "read"
                    ELSE IF p < Places THEN "find" ELSE "return"
    BY <1>1, <1>7 DEF Find, TypeOK
  <2>2. tmpl'[t].place = place /\ tmpl'[t].src = src /\ tmpl'[t].mtime = tm.mtime
    BY <1>4, <2>1 DEF PartlyRead
  <2>3. /\ here => v.src \in Contents
        /\ ~here => <<p, None>> \in seen[t]
    BY <1>3 DEF Exists
  <2>4. \A q \in 1..Places : q < p => <<q, None>> \in seen[t]
    BY <1>1, <2>1 DEF Search
  <2>5. Search(t)'
    <3> HIDE DEF here, given, src
    <3>1. pc'[t] = "find" => \A q \in 1..Places : q < place => <<q, None>> \in seen[t]
      <4>1. CASE here
        BY <2>1, <2>4, <4>1
      <4>2. CASE ~here /\ p < Places
        <5>1. place = p + 1 /\ <<p, None>> \in seen[t]
          BY <1>3, <2>3, <4>2, BoundsAssumption
        <5>2. p \in Int /\ \A q \in 1..Places : q < p + 1 => q < p \/ q = p
          BY <1>3
        <5>3. QED
          BY <2>4, <5>1, <5>2
      <4>3. CASE ~here /\ ~(p < Places)
        BY <2>1, <4>3
      <4>4. QED
        BY <4>1, <4>2, <4>3
    <3>2. pc'[t] = "read" => \E c \in Contents : <<place, c>> \in seen[t]
      BY <1>3, <2>1, <2>3
    <3>3. pc'[t] = "build" => <<place, src>> \in seen[t]
      BY <1>3, <2>1, <2>3 DEF src
    <3>4. pc'[t] \in {"find", "read", "build", "return"}
      BY <2>1
    <3> HIDE DEF place, tm, v
    <3>5. QED
      BY <1>1, <1>2, <2>2, <3>1, <3>2, <3>3, <3>4 DEF Search, tm
  <2>6. Ended(t)'
    <3>1. outcome'[t] = "TemplateNotFound" =>
              \A q \in 1..Places : <<q, None>> \in seen[t]
      BY <1>3, <2>1, <2>3, <2>4, BoundsAssumption, SMTT(60)
    <3>2. outcome'[t] \in {"none", "TemplateNotFound"}
      BY <2>1
    <3>3. QED
      BY <1>2, <3>1, <3>2 DEF Ended, Reloading
  <2>7. QED
    BY <1>5, <2>5, <2>6
<1>8. CASE Read(t)
  <2>1. /\ pc[t] = "read"
        /\ tmpl'[t] = [tm EXCEPT !.src = v.src]
        /\ outcome'[t] = IF v.src = None THEN "vanished" ELSE "none"
        /\ pc'[t] = IF v.src = None THEN "return"
                    ELSE IF KindOf[tm.name] = "file" THEN "getmtime" ELSE "build"
    BY <1>1, <1>8 DEF Read, TypeOK
  <2>2. tmpl'[t].place = tm.place /\ tmpl'[t].src = v.src
        /\ tmpl'[t].mtime = tm.mtime
    BY <1>4, <2>1 DEF PartlyRead
  <2>3. PICK c \in Contents : <<tm.place, c>> \in seen[t]
    BY <1>1, <2>1 DEF Search
  <2> HIDE DEF tm, v
  <2>4. Search(t)'
    BY <1>1, <1>2, <1>3, <2>1, <2>2 DEF Search, tm
  <2>5. Ended(t)'
    BY <1>2, <1>3, <2>1, <2>3 DEF Ended, Reloading
  <2>6. QED
    BY <1>5, <2>4, <2>5
<1>9. CASE GetMtime(t)
  <2>1. /\ pc[t] = "getmtime"
        /\ tmpl'[t] = [tm EXCEPT !.mtime = v.mtime]
        /\ outcome'[t] = IF v.src = None THEN "vanished" ELSE "none"
        /\ pc'[t] = IF v.src = None THEN "return" ELSE "build"
    BY <1>1, <1>9 DEF GetMtime, TypeOK
  <2>2. tmpl'[t].place = tm.place /\ tmpl'[t].src = tm.src
        /\ tmpl'[t].mtime = v.mtime
    BY <1>4, <2>1 DEF PartlyRead
  <2>3. tm.src \in Contents /\ <<tm.place, tm.src>> \in seen[t]
    BY <1>1, <2>1 DEF Control, Search
  <2> HIDE DEF tm, v
  <2>4. Search(t)'
    BY <1>1, <1>2, <1>3, <2>1, <2>2, <2>3 DEF Search, tm
  <2>5. Ended(t)'
    BY <1>2, <1>3, <2>1, <2>3 DEF Ended, Reloading
  <2>6. QED
    BY <1>5, <2>4, <2>5
<1>10. QED
  BY <1>6, <1>7, <1>8, <1>9

LEMMA SearchUpdate ==
    ASSUME ControlInv, SearchInv, NEW t \in Threads, Update(t)
    PROVE  SearchInv'
<1> USE DEF Update, Goto, Ending, world, ghosts
<1>1. TypeOK /\ Control(t) /\ Running(t) /\ Search(t)
  BY DEF ControlInv, SearchInv, Running
<1>2. /\ UNCHANGED <<source, changes, written, cache, call, tmpl, seen, offers>>
      /\ Alone(t) /\ pc[t] = "update" /\ pc'[t] = "return" /\ outcome'[t] = "ok"
  BY <1>1 DEF Alone, TypeOK
<1>3. Search(t)'
  BY <1>1, <1>2 DEF Search
<1>4. Ended(t)'
  BY <1>1, <1>2 DEF Search, Ended, Reloading, Torn
<1>5. QED
  BY <1>2, <1>3, <1>4, SearchOfOne DEF SearchInv

LEMMA SearchBuild ==
    ASSUME ControlInv, SearchInv, NEW t \in Threads, BuildAndStore(t)
    PROVE  SearchInv'
<1>1. TypeOK /\ Control(t) /\ Running(t) /\ Search(t)
  BY DEF ControlInv, SearchInv, Running, BuildAndStore, Goto
<1>2. /\ pc[t] = "build" /\ pc'[t] = "return"
      /\ UNCHANGED <<source, changes, written, call, seen, offers>>
      /\ tmpl[t].src \in Contents /\ <<tmpl[t].place, tmpl[t].src>> \in seen[t]
  BY <1>1 DEF BuildAndStore, Goto, world, ghosts, TypeOK, Control, Search
<1>3. tmpl[t].place \in 1..Places
  BY <1>1 DEF Control, PartlyRead
<1>4. CASE tmpl[t].src \in Broken
  <2>1. /\ outcome'[t] = "TemplateSyntaxError" /\ UNCHANGED <<tmpl, cache>>
        /\ Alone(t)
    BY <1>1, <1>4 DEF BuildAndStore, Goto, Ending, shared, Alone, TypeOK
  <2>2. Search(t)' /\ Ended(t)'
    BY <1>1, <1>2, <1>3, <1>4, <2>1 DEF Search, Ended, Reloading
  <2>3. QED
    BY <1>2, <2>1, <2>2, SearchOfOne DEF SearchInv, world
<1>5. CASE tmpl[t].src \notin Broken
  <2>1. PICK tm \in Template :
              /\ tm.name = call[t].name /\ tm.src = tmpl[t].src
              /\ tm.place = tmpl[t].place /\ tm.mtime = tmpl[t].mtime
              /\ tmpl' = [tmpl EXCEPT ![t] = tm]
              /\ outcome' = [outcome EXCEPT ![t] = "ok"]
              /\ ToSet(cache') \subseteq
                    ToSet(cache) \cup {[key |-> call[t].name, val |-> tm]}
    BY <1>5, Built
  <2>2. /\ tmpl'[t] = tm /\ outcome'[t] = "ok" /\ Alone(t)
    BY <1>1, <2>1 DEF BuildAndStore, Goto, Alone, TypeOK
  <2>3. \A e \in ToSet(cache') : e.val.mtime <= changes
    BY <1>1, <2>1 DEF SearchInv, Search
  <2>4. Search(t)' /\ Ended(t)'
    BY <1>1, <1>2, <2>1, <2>2 DEF Search, Ended, Reloading
  <2>5. QED
    BY <1>2, <2>2, <2>3, <2>4, SearchOfOne DEF world
<1>6. QED
  BY <1>4, <1>5

LEMMA SearchReturn ==
    ASSUME ControlInv, SearchInv, NEW t \in Threads, Return(t)
    PROVE  SearchInv'
<1>1. TypeOK
  BY DEF ControlInv
<1>2. /\ UNCHANGED <<source, changes, written, cache>> /\ Alone(t)
      /\ pc'[t] = "idle" /\ outcome'[t] = "none"
      /\ \A u \in Threads \ {t} : seen'[u] = seen[u]
  BY <1>1 DEF Return, Goto, Holding, Ending, world, Alone, TypeOK
<1>3. ~ Running(t)' /\ Ended(t)'
  BY <1>2 DEF Running, Ended, Reloading
<1>4. QED
  BY <1>2, <1>3, SearchOfOne DEF SearchInv, world

LEMMA SearchNext == ControlInv /\ SearchInv /\ [Next]_vars => SearchInv'
<1> SUFFICES ASSUME ControlInv, SearchInv, [Next]_vars PROVE SearchInv'
  OBVIOUS
<1>1. CASE UNCHANGED vars
  BY <1>1 DEF vars, world, shared, ghosts, SearchInv, WorldInv, Search, Ended,
              Reloading, Running, Torn
<1>2. CASE \E n \in Names, p \in 1..Places, c \in Contents \cup {None} :
             Change(n, p, c)
  BY <1>2, SearchChange
<1>3. CASE \E t \in Threads, n \in Names, d \in CallerDicts \cup {None} :
             Call(t, n, d)
  BY <1>3, SearchCall
<1>4. CASE \E t \in Threads : Step(t)
  BY <1>4, SearchLook, SearchUpdate, SearchBuild, SearchReturn DEF Step
<1>5. QED
  BY <1>1, <1>2, <1>3, <1>4 DEF Next

LEMMA SearchHolds == Spec => []SearchInv
  BY ControlInit, ControlNext, SearchInit, SearchNext, PTL DEF Spec

(* With auto_reload no template, of the cache or of a slow loader,         *)
(* outlives its source: what get_template returns was in its place at some *)
(* time during the call, unless the loader put one version's text and      *)
(* another version's mtime together.                                       *)
THEOREM ReturnsWhatWasThere == Spec => []Fresh
<1>1. SearchInv => Fresh
  BY DEF SearchInv, Ended, Fresh
<1>2. QED
  BY <1>1, SearchHolds, PTL

(* A torn template takes a file: where there is none, the exception is not *)
(* needed, and auto_reload keeps its word as it is given.                  *)
THEOREM WithoutFilesReloads ==
    ASSUME \A n \in Names : KindOf[n] # "file"
    PROVE  Spec => []ReloadsWhenChanged
<1>1. ControlInv /\ SearchInv => ReloadsWhenChanged
  <2>1. SUFFICES ASSUME ControlInv, SearchInv, NEW t \in Threads, Reloading(t)
                 PROVE  <<tmpl[t].place, tmpl[t].src>> \in seen[t]
    BY DEF ReloadsWhenChanged
  <2>2. tmpl[t].name \in Names
    BY <2>1 DEF ControlInv, Control, Reloading, Template
  <2>3. QED
    BY <2>1, <2>2 DEF SearchInv, Ended, Torn
<1>2. QED
  BY <1>1, ControlHolds, SearchHolds, PTL

(* get_template raises only for what the sources were during the call.     *)
THEOREM RaisesWithCause == Spec => []FailuresJustified
<1>1. SearchInv => FailuresJustified
  BY DEF SearchInv, Ended, FailuresJustified
<1>2. QED
  BY <1>1, SearchHolds, PTL

-----------------------------------------------------------------------------
(* The globals of the calls                                                *)

LEMMA OffersInit == Init => OffersInv
  BY DEF Init, OffersInv, Running, GlobalsDelivered

LEMMA OffersCall ==
    ASSUME ControlInv, OffersInv, NEW t \in Threads, NEW n \in Names,
           NEW d \in CallerDicts \cup {None}, Call(t, n, d)
    PROVE  OffersInv'
<1>1. TypeOK /\ Control(t)
  BY DEF ControlInv
<1>2. /\ pc[t] = "idle" /\ outcome[t] = "none"
      /\ \A u \in Threads \ {t} : pc'[u] = pc[u] /\ call'[u] = call[u]
                                   /\ tmpl'[u] = tmpl[u]
      /\ call'[t].dict = d /\ dicts' = dicts /\ outcome' = outcome
      /\ offers' = Offered(t, d)
  BY <1>1 DEF Call, Goto, Holding, TypeOK, Control
<1>3. /\ d # None => \A u \in Threads : u = t \/ Running(u) => dicts[d] \in offers'[u]
      /\ \A u \in Threads : Running(u) /\ call[u].dict # None
                                => dicts[call[u].dict] \in offers'[t]
      /\ \A u \in Threads \ {t} : Running(u) => offers[u] \subseteq offers'[u]
  BY <1>2 DEF Offered
<1>4. \A u, w \in Threads :
          Running(u)' /\ Running(w)' /\ call'[w].dict # None
              => dicts[call'[w].dict] \in offers'[u]
  BY <1>2, <1>3 DEF OffersInv, Running
<1>5. ASSUME NEW u \in Threads, outcome[u] = "ok", call'[u].dict # None
      PROVE  dicts[tmpl'[u].dict] \in offers'[u]
  <2>1. u # t /\ Running(u)
    BY <1>2, <1>5 DEF ControlInv, Control, Running
  <2>2. QED
    BY <1>2, <1>3, <1>5, <2>1 DEF OffersInv, GlobalsDelivered
<1>6. QED
  BY <1>2, <1>4, <1>5 DEF OffersInv, GlobalsDelivered

(* A thread that has its template goes on having the same one, and its     *)
(* dictionary is not taken for another template.                           *)
LEMMA OffersOfOthers ==
    ASSUME ControlInv, OffersInv, NEW t \in Threads, Alone(t),
           UNCHANGED offers, call'[t] \in {call[t], NoCall},
           Running(t)' => Running(t),
           \A d \in CallerDicts : \E e \in CallerDicts :
               /\ dicts'[d] = dicts[e]
               /\ e = d \/ \E u \in Threads : Running(u) /\ call[u].dict = e,
           outcome'[t] = "ok" /\ call'[t].dict # None
               => dicts'[tmpl'[t].dict] \in offers[t],
           \A u \in Threads \ {t} :
               outcome[u] = "ok" /\ call[u].dict # None
                   => \/ dicts'[tmpl[u].dict] = dicts[tmpl[u].dict]
                      \/ \E w \in Threads :
                            /\ Running(w) /\ call[w].dict # None
                            /\ dicts'[tmpl[u].dict] = dicts[call[w].dict]
    PROVE  OffersInv'
<1>1. TypeOK
  BY DEF ControlInv
<1>2. \A u \in Threads : call[u].dict # None => call[u].dict \in CallerDicts
  BY <1>1 DEF TypeOK
<1>3. ASSUME NEW u \in Threads, NEW w \in Threads, Running(u)', Running(w)',
             call'[w].dict # None
      PROVE  dicts'[call'[w].dict] \in offers'[u]
  <2>1. Running(u) /\ Running(w) /\ call'[w] = call[w]
    BY <1>3 DEF Alone, Running, NoCall
  <2>2. call[w].dict \in CallerDicts
    BY <1>2, <1>3, <2>1
  <2>3. PICK e \in CallerDicts :
               /\ dicts'[call[w].dict] = dicts[e]
               /\ e = call[w].dict \/ \E x \in Threads : Running(x) /\ call[x].dict = e
    BY <2>2
  <2>4. \E x \in Threads : Running(x) /\ call[x].dict = e
    BY <2>1, <2>3
  <2>5. e # None
    BY Templates DEF Dicts
  <2>6. QED
    BY <2>1, <2>3, <2>4, <2>5 DEF OffersInv
<1>4. ASSUME NEW u \in Threads, outcome'[u] = "ok", call'[u].dict # None
      PROVE  dicts'[tmpl'[u].dict] \in offers'[u]
  <2>1. CASE u = t
    BY <1>4, <2>1
  <2>2. CASE u # t
    <3>1. outcome[u] = "ok" /\ call[u].dict # None /\ tmpl'[u] = tmpl[u]
      BY <1>4, <2>2 DEF Alone
    <3>2. Running(u)
      BY <3>1 DEF ControlInv, Control, Running
    <3>3. dicts[tmpl[u].dict] \in offers[u]
      BY <3>1 DEF OffersInv, GlobalsDelivered
    <3>4. \A w \in Threads : Running(w) /\ call[w].dict # None
              => dicts[call[w].dict] \in offers[u]
      BY <3>2 DEF OffersInv
    <3>5. QED
      BY <2>2, <3>1, <3>3, <3>4
  <2>3. QED
    BY <2>1, <2>2
<1>5. QED
  BY <1>3, <1>4 DEF OffersInv, GlobalsDelivered

LEMMA OffersUpdate ==
    ASSUME ControlInv, OffersInv, NEW t \in Threads, Update(t)
    PROVE  OffersInv'
<1> DEFINE d == call[t].dict
           x == tmpl[t].dict
<1>1. TypeOK /\ Control(t)
  BY DEF ControlInv
<1>2. /\ pc[t] = "update" /\ pc'[t] = "return" /\ Alone(t)
      /\ UNCHANGED <<call, tmpl, offers>>
      /\ dicts' = IF d = None THEN dicts ELSE [dicts EXCEPT ![x] = dicts[d]]
  BY <1>1 DEF Update, Goto, Ending, world, ghosts, Alone, TypeOK
<1>3. Running(t) /\ tmpl[t] \in Template /\ d \in CallerDicts \cup {None}
  BY <1>1, <1>2 DEF Running, Control, TypeOK
<1>4. x \in Dicts
  BY <1>3 DEF Template
<1>5. \A y \in Dicts : dicts'[y] = IF d # None /\ y = x THEN dicts[d] ELSE dicts[y]
  BY <1>1, <1>2, <1>4 DEF TypeOK
<1>6. \A y \in CallerDicts : \E e \in CallerDicts :
               /\ dicts'[y] = dicts[e]
               /\ e = y \/ \E u \in Threads : Running(u) /\ call[u].dict = e
  BY <1>3, <1>5 DEF Dicts
<1>7. d # None => dicts'[x] = dicts[d] /\ dicts[d] \in offers[t]
  BY <1>3, <1>4, <1>5 DEF OffersInv
<1>8. ASSUME NEW u \in Threads \ {t}, outcome[u] = "ok"
      PROVE  \/ dicts'[tmpl[u].dict] = dicts[tmpl[u].dict]
             \/ d # None /\ dicts'[tmpl[u].dict] = dicts[d]
  <2>1. tmpl[u].dict \in Dicts
    BY <1>8 DEF ControlInv, Control, Template
  <2>2. QED
    BY <1>5, <2>1
<1>9. QED
  BY <1>2, <1>3, <1>6, <1>7, <1>8, OffersOfOthers DEF Running

LEMMA OffersBuild ==
    ASSUME ControlInv, OffersInv, NEW t \in Threads, BuildAndStore(t)
    PROVE  OffersInv'
<1>1. TypeOK /\ Control(t)
  BY DEF ControlInv
<1>2. /\ pc[t] = "build" /\ pc'[t] = "return" /\ Running(t)
      /\ UNCHANGED <<call, offers>>
  BY <1>1 DEF BuildAndStore, Goto, ghosts, Running, TypeOK
<1>3. CASE tmpl[t].src \in Broken
  <2>1. /\ outcome'[t] = "TemplateSyntaxError" /\ UNCHANGED dicts /\ Alone(t)
    BY <1>1, <1>3 DEF BuildAndStore, Goto, Ending, shared, Alone, TypeOK
  <2>2. QED
    BY <1>2, <2>1, OffersOfOthers
<1>4. CASE tmpl[t].src \notin Broken
  <2>1. PICK d \in Dicts, tm \in Template :
              /\ d = IF call[t].dict = None THEN NewDict ELSE call[t].dict
              /\ tm.dict = d
              /\ tmpl' = [tmpl EXCEPT ![t] = tm]
              /\ outcome' = [outcome EXCEPT ![t] = "ok"]
              /\ dicts' = IF d \in FreshDicts THEN [dicts EXCEPT ![d] = None]
                          ELSE dicts
    BY <1>4, Built
  <2>2. tmpl'[t] = tm /\ Alone(t)
    BY <1>1, <2>1 DEF BuildAndStore, Goto, Alone, TypeOK
  <2>3. call[t].dict # None => d \in CallerDicts /\ d = call[t].dict
    BY <1>1, <2>1 DEF TypeOK
  <2>4. d \in FreshDicts => d \notin InUse(Threads)
    BY <1>2, <2>1, <2>3, NewDictIsNew, DictsAssumption
  <2>5. \A y \in Dicts : y \notin FreshDicts \/ y # d => dicts'[y] = dicts[y]
    BY <1>1, <2>1 DEF TypeOK
  <2>6. \A y \in CallerDicts : dicts'[y] = dicts[y]
    BY <2>5, DictsAssumption DEF Dicts
  <2>7. call[t].dict # None => dicts'[tmpl'[t].dict] \in offers[t]
    BY <1>2, <2>1, <2>2, <2>3, <2>6 DEF OffersInv
  <2>8. ASSUME NEW u \in Threads \ {t}, outcome[u] = "ok"
        PROVE  dicts'[tmpl[u].dict] = dicts[tmpl[u].dict]
    <3>1. tmpl[u] \in Template
      BY <2>8 DEF ControlInv, Control
    <3>2. tmpl[u] # None /\ tmpl[u].dict \in Dicts
      BY <3>1, Templates DEF Template
    <3>3. tmpl[u].dict \in InUse(Threads)
      BY <3>2 DEF InUse
    <3>4. QED
      BY <2>4, <2>5, <3>2, <3>3
  <2>9. QED
    BY <1>2, <2>2, <2>6, <2>7, <2>8, OffersOfOthers
<1>5. QED
  BY <1>3, <1>4

LEMMA OffersReturn ==
    ASSUME ControlInv, OffersInv, NEW t \in Threads, Return(t)
    PROVE  OffersInv'
<1> DEFINE kept == CallerDicts \cup InUse(Threads \ {t})
<1>1. TypeOK
  BY DEF ControlInv
<1>2. /\ dicts' = [d \in Dicts |-> IF d \in kept THEN dicts[d] ELSE None]
      /\ pc'[t] = "idle" /\ outcome'[t] = "none" /\ Alone(t)
      /\ \A u \in Threads \ {t} : offers'[u] = offers[u]
  BY <1>1 DEF Return, Goto, Holding, Ending, Alone, TypeOK
<1> HIDE DEF kept
<1>3. \A d \in CallerDicts : dicts'[d] = dicts[d]
  BY <1>2 DEF kept, Dicts
<1>4. ASSUME NEW u \in Threads, NEW w \in Threads, Running(u)', Running(w)',
             call'[w].dict # None
      PROVE  dicts'[call'[w].dict] \in offers'[u]
  <2>1. u # t /\ w # t
    BY <1>2, <1>4 DEF Running
  <2>2. Running(u) /\ Running(w) /\ call'[w] = call[w] /\ offers'[u] = offers[u]
    BY <1>2, <1>4, <2>1 DEF Alone, Running
  <2>3. call[w].dict \in CallerDicts
    BY <1>1, <1>4, <2>2 DEF TypeOK
  <2>4. QED
    BY <1>3, <1>4, <2>2, <2>3 DEF OffersInv
<1>5. ASSUME NEW u \in Threads, outcome'[u] = "ok", call'[u].dict # None
      PROVE  dicts'[tmpl'[u].dict] \in offers'[u]
  <2>1. u # t
    BY <1>2, <1>5
  <2>2. /\ outcome[u] = "ok" /\ call[u].dict # None /\ tmpl'[u] = tmpl[u]
        /\ offers'[u] = offers[u]
    BY <1>2, <1>5, <2>1 DEF Alone
  <2>3. tmpl[u] \in Template
    BY <2>2 DEF ControlInv, Control
  <2>4. tmpl[u] # None /\ tmpl[u].dict \in Dicts
    BY <2>3, Templates DEF Template
  <2>5. tmpl[u].dict \in kept
    BY <2>1, <2>4 DEF kept, InUse
  <2>6. dicts'[tmpl[u].dict] = dicts[tmpl[u].dict]
    BY <1>2, <2>4, <2>5
  <2>7. QED
    BY <2>2, <2>6 DEF OffersInv, GlobalsDelivered
<1>6. QED
  BY <1>4, <1>5 DEF OffersInv, GlobalsDelivered

LEMMA OffersLook ==
    ASSUME ControlInv, OffersInv, NEW t \in Threads,
           Check(t) \/ Find(t) \/ Read(t) \/ GetMtime(t)
    PROVE  OffersInv'
<1>1. TypeOK /\ Control(t)
  BY DEF ControlInv
<1>2. /\ UNCHANGED <<dicts, call, offers>> /\ Alone(t) /\ Running(t)
      /\ outcome'[t] # "ok"
  BY <1>1 DEF Check, Find, Read, GetMtime, Goto, Holding, Ending, shared, ghosts,
              Alone, Running, TypeOK, Control
<1>3. QED
  BY <1>2, OffersOfOthers

LEMMA OffersNext == ControlInv /\ OffersInv /\ [Next]_vars => OffersInv'
<1> SUFFICES ASSUME ControlInv, OffersInv, [Next]_vars PROVE OffersInv'
  OBVIOUS
<1>1. CASE UNCHANGED vars
  BY <1>1 DEF vars, shared, ghosts, OffersInv, GlobalsDelivered, Running
<1>2. CASE \E n \in Names, p \in 1..Places, c \in Contents \cup {None} :
             Change(n, p, c)
  BY <1>2 DEF Change, shared, OffersInv, GlobalsDelivered, Running
<1>3. CASE \E t \in Threads, n \in Names, d \in CallerDicts \cup {None} :
             Call(t, n, d)
  BY <1>3, OffersCall
<1>4. CASE \E t \in Threads : Step(t)
  BY <1>4, OffersLook, OffersUpdate, OffersBuild, OffersReturn DEF Step
<1>5. QED
  BY <1>1, <1>2, <1>3, <1>4 DEF Next

(* The globals a template is returned with are those of its own call or of *)
(* one that overlaps it, never those of a call that was over before.       *)
THEOREM DeliversGlobals == Spec => []GlobalsDelivered
<1>1. Spec => []OffersInv
  BY ControlInit, ControlNext, OffersInit, OffersNext, PTL DEF Spec
<1>2. OffersInv => GlobalsDelivered
  BY DEF OffersInv
<1>3. QED
  BY <1>1, <1>2, PTL
=============================================================================
