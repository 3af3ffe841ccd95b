---------------------------- MODULE LexerProofs ----------------------------
(***************************************************************************)
(* Whatever the source and the options: the lexer keeps its books, every   *)
(* token and every error is on the line it is said to be on, nothing but   *)
(* blanks is lost, and no match leaves the lexer where it was. Of a        *)
(* template of texts and tags, every text becomes the data token that the  *)
(* documentation of whitespace control promises.                           *)
(***************************************************************************)
EXTENDS WhitespaceControl, FiniteSetTheorems, SequenceTheorems, WellFoundedInduction,
        TLAPS

-----------------------------------------------------------------------------
(* Sequences and least indices                                             *)

LEMMA AppendItems ==
    ASSUME NEW S, NEW q \in Seq(S), NEW x \in S
    PROVE  /\ Append(q, x) \in Seq(S) /\ Len(Append(q, x)) = Len(q) + 1
           /\ \A i \in 1..Len(q) : Append(q, x)[i] = q[i]
           /\ Append(q, x)[Len(q) + 1] = x
  OBVIOUS

(* A set of naturals that is not empty has a smallest element.             *)
LEMMA MinIn ==
    ASSUME NEW I \in SUBSET Nat, I # {}
    PROVE  Min(I) \in I /\ \A k \in I : Min(I) <= k
<1> DEFINE less == OpToRel(<, Nat)
<1>1. IsWellFoundedOn(less, Nat)
  BY NatLessThanWellFounded
<1>2. \A k, m \in Nat : k < m => <<k, m>> \in less
  BY DEF OpToRel
<1> HIDE DEF less
<1>3. PICK m \in I : \A k \in I : ~ (<<k, m>> \in less)
  BY <1>1, WFMin
<1>4. ASSUME NEW k \in I PROVE m <= k
  <2>1. k \in Nat /\ m \in Nat /\ ~ (k < m)
    BY <1>2, <1>3
  <2>2. QED
    BY <2>1
<1>5. QED
  BY <1>4 DEF Min

-----------------------------------------------------------------------------
Symbols  == STRING \ {None}
Kinds    == {"data", "comment", "comment_end", "raw_begin", "raw_end", "block_begin", "block_end",
             "variable_begin", "variable_end", "linestatement_begin", "linestatement_end",
             "linecomment_begin", "linecomment", "linecomment_end", "comment_begin",
             "whitespace", "float", "integer", "name", "string", "operator"}
Tags     == {"block_begin", "variable_begin", "linestatement_begin"}
Others   == {"comment_begin", "raw_begin", "linecomment_begin"}
Stacks   == {<<"root">>} \cup {<<"root", s>> : s \in Tags \cup Others}
Messages == {None, "Missing end of comment tag", "Missing end of raw directive",
             "unexpected", "expected", "unexpected char"}
Token    == [kind : Kinds, text : Seq(Symbols), at : Nat \ {0}, lineno : Nat]

(* The newlines of s from the place a to the one before b.                 *)
Count(s, a, b) == Cardinality({i \in a..(b - 1) : s[i] = "nl"})

(* Where token i of toks ends, and where the next one, or p, begins.       *)
Behind(toks, i)  == IF i = 0 THEN 1 ELSE toks[i].at + Len(toks[i].text)
Upto(toks, i, p) == IF i = Len(toks) THEN p ELSE toks[i + 1].at

(* A token of the source s from before the place p, on its line.           *)
IsOf(s, t, p) ==
    /\ t.lineno = 1 + Count(s, 1, t.at)
    /\ t.at + Len(t.text) <= p
    /\ t.text = SubSeq(s, t.at, t.at + Len(t.text) - 1)

(* The tokens toks are the source s up to the place p, which is on this    *)
(* line, but for blanks.                                                   *)
Read(s, toks, p, line) ==
    /\ toks \in Seq(Token)
    /\ line = 1 + Count(s, 1, p)
    /\ \A i \in 1..Len(toks) : IsOf(s, toks[i], p)
    /\ \A i \in 0..Len(toks) : \A q \in Behind(toks, i)..(Upto(toks, i, p) - 1) :
           s[q] \in Space

(* A group stands for s from one place to another: its text, then blanks.  *)
Covers(s, g, from, to) ==
    /\ g.at = from /\ g.kind \in Kinds /\ g.text \in Seq(Symbols)
    /\ from + Len(g.text) <= to
    /\ g.text = SubSeq(s, from, from + Len(g.text) - 1)
    /\ \A i \in (from + Len(g.text))..(to - 1) : s[i] \in Space
    /\ LinesIn(g) = Count(s, from, to)

(* The inductive invariant.                                                *)
LexInv ==
    /\ source \in Seq(Symbols)
    /\ pos \in 1..(Len(source) + 1)
    /\ stack \in Stacks
    /\ balancing_stack # <<>> => InTag
    /\ error \in Messages
    /\ Read(source, tokens, pos, lineno)

-----------------------------------------------------------------------------
(* Counting newlines                                                       *)

LEMMA CountType ==
    ASSUME NEW s, NEW a \in Nat, NEW b \in Nat
    PROVE  Count(s, a, b) \in Nat
<1> DEFINE N == {i \in a..(b - 1) : s[i] = "nl"}
<1>1. N \in SUBSET (a..(b - 1)) /\ IsFiniteSet(a..(b - 1))
  BY FS_Interval
<1>2. IsFiniteSet(N)
  BY <1>1, FS_Subset
<1> HIDE DEF N
<1>3. Cardinality(N) \in Nat
  BY <1>2, FS_CardinalityType
<1>4. QED
  BY <1>3 DEF Count, N

LEMMA CountAdds ==
    ASSUME NEW s, NEW a \in Nat, NEW b \in Nat, NEW c \in Nat, a <= b, b <= c
    PROVE  Count(s, a, c) = Count(s, a, b) + Count(s, b, c)
<1> DEFINE N(x, y) == {i \in x..(y - 1) : s[i] = "nl"}
<1>1. ASSUME NEW x \in Nat, NEW y \in Nat
      PROVE  IsFiniteSet(N(x, y)) /\ Cardinality(N(x, y)) \in Nat
  <2>1. N(x, y) \in SUBSET (x..(y - 1)) /\ IsFiniteSet(x..(y - 1))
    BY FS_Interval
  <2>2. IsFiniteSet(N(x, y))
    BY <2>1, FS_Subset
  <2>3. QED
    BY <2>2, FS_CardinalityType
<1>2. N(a, c) = N(a, b) \cup N(b, c) /\ N(a, b) \cap N(b, c) = {}
  OBVIOUS
<1>3. Count(s, a, b) = Cardinality(N(a, b)) /\ Count(s, b, c) = Cardinality(N(b, c))
      /\ Count(s, a, c) = Cardinality(N(a, c))
  BY DEF Count
<1> HIDE DEF N
<1>4. Cardinality(N(a, b) \cup N(b, c)) = Cardinality(N(a, b)) + Cardinality(N(b, c))
  <2>1. Cardinality(N(a, b) \cap N(b, c)) = 0
    BY <1>2, FS_EmptySet
  <2>2. Cardinality(N(a, b) \cup N(b, c)) = Cardinality(N(a, b)) +
            Cardinality(N(b, c)) - Cardinality(N(a, b) \cap N(b, c))
    BY <1>1, FS_Union
  <2>3. QED
    BY <1>1, <2>1, <2>2
<1>5. QED
  BY <1>1, <1>2, <1>3, <1>4

LEMMA NoNewLines ==
    ASSUME NEW s, NEW a \in Nat, NEW b \in Nat,
           \A i \in a..(b - 1) : s[i] # "nl"
    PROVE  Count(s, a, b) = 0
<1>1. {i \in a..(b - 1) : s[i] = "nl"} = {}
  OBVIOUS
<1>2. QED
  BY <1>1, FS_EmptySet DEF Count

LEMMA Part ==
    ASSUME NEW S, NEW s \in Seq(S), NEW a \in 1..(Len(s) + 1), NEW b \in a..(Len(s) + 1)
    PROVE  /\ SubSeq(s, a, b - 1) \in Seq(S)
           /\ Len(SubSeq(s, a, b - 1)) = b - a
           /\ \A i \in 1..(b - a) : SubSeq(s, a, b - 1)[i] = s[a + i - 1]
<1>1. /\ a \in Int /\ b - 1 \in Int /\ b - 1 - a + 1 = b - a
      /\ \A i \in a..(b - 1) : s[i] \in S
      /\ (IF a <= b - 1 THEN b - 1 - a + 1 ELSE 0) = b - a
  OBVIOUS
<1> DEFINE n == b - 1
<1>2. n \in Int /\ (IF a <= n THEN n - a + 1 ELSE 0) = b - a /\ n - a + 1 = b - a
      /\ \A i \in a..n : s[i] \in S
  BY <1>1
<1> HIDE DEF n
<1>3. /\ SubSeq(s, a, n) \in Seq(S)
      /\ Len(SubSeq(s, a, n)) = IF a <= n THEN n - a + 1 ELSE 0
      /\ \A i \in 1..n - a + 1 : SubSeq(s, a, n)[i] = s[a + i - 1]
  BY <1>2, SubSeqProperties
<1>4. QED
  BY <1>2, <1>3 DEF n

LEMMA CountOfPart ==
    ASSUME NEW S, NEW s \in Seq(S), NEW a \in 1..(Len(s) + 1), NEW b \in a..(Len(s) + 1)
    PROVE  NewLines(SubSeq(s, a, b - 1)) = Count(s, a, b)
<1> DEFINE t == SubSeq(s, a, b - 1)
           M == {i \in DOMAIN t : t[i] = "nl"}
           N == {i \in a..(b - 1) : s[i] = "nl"}
           f == [i \in M |-> a + i - 1]
<1>1. /\ t \in Seq(S) /\ Len(t) = b - a
      /\ \A i \in 1..(b - a) : t[i] = s[a + i - 1]
  BY Part
<1> HIDE DEF t
<1>2. DOMAIN t = 1..(b - a)
  BY <1>1
<1>3. IsFiniteSet(M)
  <2>1. M \in SUBSET (1..(b - a)) /\ IsFiniteSet(1..(b - a))
    BY <1>2, FS_Interval
  <2>2. QED
    BY <2>1, FS_Subset
<1>4. f \in [M -> N]
  BY <1>1, <1>2
<1>5. \A i, j \in M : f[i] = f[j] => i = j
  BY <1>2
<1>6. ASSUME NEW j \in N PROVE \E i \in M : f[i] = j
  <2>1. j - a + 1 \in M /\ a + (j - a + 1) - 1 = j
    BY <1>1, <1>2
  <2>2. QED
    BY <2>1
<1>7. f \in Bijection(M, N)
  BY <1>4, <1>5, <1>6 DEF Bijection, Injection, Surjection, IsInjective
<1> HIDE DEF f, M, N
<1>8. Cardinality(M) = Cardinality(N)
  BY <1>3, <1>7, FS_Bijection DEF ExistsBijection
<1>9. QED
  BY <1>8 DEF NewLines, Count, M, N, t

-----------------------------------------------------------------------------
(* The text of a token is a part of the source                             *)

LEMMA MaxIn ==
    ASSUME NEW n \in Nat, NEW I \in SUBSET (0..n), I # {}
    PROVE  Max(I) \in I /\ \A k \in I : k <= Max(I)
<1> DEFINE J == {n - k : k \in I}
<1>0. \A k \in I : k \in Nat /\ n - k \in Nat
  <2>1. ASSUME NEW k \in I PROVE k \in Nat /\ n - k \in Nat
    <3>1. k \in 0..n
      OBVIOUS
    <3>2. QED
      BY <3>1
  <2>2. QED
    BY <2>1
<1>1. J \in SUBSET Nat /\ J # {}
  BY <1>0
<1>2. Min(J) \in J /\ \A k \in J : Min(J) <= k
  BY <1>1, MinIn
<1>3. PICK m \in I : Min(J) = n - m
  BY <1>2
<1>4. \A k \in I : k <= m
  <2>1. ASSUME NEW k \in I PROVE k <= m
    <3>1. n - k \in J
      OBVIOUS
    <3>2. n - m <= n - k
      BY <1>2, <1>3, <3>1
    <3>3. QED
      BY <1>0, <3>2
  <2>2. QED
    BY <2>1
<1>5. QED
  BY <1>3, <1>4 DEF Max

(* Stripping leaves a beginning, and takes only what it should.            *)
LEMMA Stripped ==
    ASSUME NEW S, NEW s \in Seq(S), NEW C
    PROVE  \E n \in 0..Len(s) : /\ rstrip(s, C) = SubSeq(s, 1, n)
                                /\ \A i \in (n + 1)..Len(s) : s[i] \in C
<1> DEFINE keep == {i \in 1..Len(s) : s[i] \notin C} \cup {0}
<1>1. Len(s) \in Nat /\ keep \in SUBSET (0..Len(s)) /\ keep # {}
  OBVIOUS
<1>2. Max(keep) \in keep /\ \A k \in keep : k <= Max(keep)
  BY <1>1, MaxIn
<1>3. rstrip(s, C) = SubSeq(s, 1, Max(keep))
  BY DEF rstrip
<1>4. Max(keep) \in 0..Len(s)
  BY <1>1, <1>2
<1>5. \A i \in (Max(keep) + 1)..Len(s) : s[i] \in C
  BY <1>2, <1>4
<1> HIDE DEF keep
<1>6. QED
  BY <1>3, <1>4, <1>5

LEMMA LStripped ==
    ASSUME NEW S, NEW s \in Seq(S), NEW sign, NEW variable
    PROVE  \E n \in 0..Len(s) :
               /\ OptionalLStrip(s, sign, variable) = SubSeq(s, 1, n)
               /\ \A i \in (n + 1)..Len(s) : s[i] \in Space
               /\ sign # "-" => \A i \in (n + 1)..Len(s) : s[i] # "nl"
<1>1. Len(s) \in Nat /\ s = SubSeq(s, 1, Len(s))
  BY SubSeqFull
<1>2. CASE sign = "-"
  <2>1. OptionalLStrip(s, sign, variable) = rstrip(s, Space)
    BY <1>2 DEF OptionalLStrip
  <2>2. QED
    BY <1>2, <2>1, Stripped
<1>3. CASE sign # "-"
  <2>1. \/ OptionalLStrip(s, sign, variable) = rstrip(s, Blank)
        \/ OptionalLStrip(s, sign, variable) = s
    BY <1>3 DEF OptionalLStrip
  <2>2. CASE OptionalLStrip(s, sign, variable) = rstrip(s, Blank)
    <3>1. PICK n \in 0..Len(s) : /\ rstrip(s, Blank) = SubSeq(s, 1, n)
                                 /\ \A i \in (n + 1)..Len(s) : s[i] \in Blank
      BY Stripped
    <3>2. \A i \in (n + 1)..Len(s) : s[i] \in Space /\ s[i] # "nl"
      <4>1. "nl" \notin Blank
        BY Zenon DEF Blank
      <4>2. QED
        BY <3>1, <4>1 DEF Space
    <3>3. QED
      BY <2>2, <3>1, <3>2
  <2>3. CASE OptionalLStrip(s, sign, variable) = s
    <3>1. Len(s) \in 0..Len(s) /\ \A i \in (Len(s) + 1)..Len(s) : FALSE
      BY <1>1
    <3>2. QED
      BY <1>1, <2>3, <3>1
  <2>4. QED
    BY <2>1, <2>2, <2>3
<1>4. QED
  BY <1>2, <1>3

LEMMA GroupCovers ==
    ASSUME source \in Seq(Symbols), NEW a \in 1..(Len(source) + 1),
           NEW b \in a..(Len(source) + 1), NEW kind \in Kinds
    PROVE  Covers(source, Group(kind, a, b), a, b)
<1> DEFINE t == SubSeq(source, a, b - 1)
           g == Group(kind, a, b)
<1>1. t \in Seq(Symbols) /\ Len(t) = b - a /\ NewLines(t) = Count(source, a, b)
  BY Part, CountOfPart
<1>2. g.kind = kind /\ g.text = t /\ g.at = a /\ g.newlines_stripped = 0
  BY DEF Group
<1>3. Count(source, a, b) \in Nat
  <2>1. a \in Nat /\ b \in Nat
    OBVIOUS
  <2>2. QED
    BY <2>1, CountType
<1> HIDE DEF t, g
<1>4. LinesIn(g) = Count(source, a, b)
  BY <1>1, <1>2, <1>3 DEF LinesIn
<1>5. a + Len(t) = b
  BY <1>1
<1>6. t = SubSeq(source, a, a + Len(t) - 1)
  BY <1>5 DEF t
<1>7. \A i \in (a + Len(t))..(b - 1) : FALSE
  BY <1>5
<1>8. b <= b
  OBVIOUS
<1>9. Covers(source, g, a, b)
  BY <1>1, <1>2, <1>4, <1>5, <1>6, <1>7, <1>8 DEF Covers
<1>10. QED
  BY <1>9 DEF g

LEMMA DataCovers ==
    ASSUME source \in Seq(Symbols), pos \in 1..(Len(source) + 1),
           NEW p \in pos..(Len(source) + 1), NEW sign, NEW variable
    PROVE  Covers(source, DataBefore(p, sign, variable), pos, p)
<1> DEFINE t == SubSeq(source, pos, p - 1)
           g == DataBefore(p, sign, variable)
<1>1. /\ t \in Seq(Symbols) /\ Len(t) = p - pos /\ NewLines(t) = Count(source, pos, p)
      /\ \A i \in 1..(p - pos) : t[i] = source[pos + i - 1]
  BY Part, CountOfPart
<1>2. PICK n \in 0..Len(t) :
               /\ OptionalLStrip(t, sign, variable) = SubSeq(t, 1, n)
               /\ \A i \in (n + 1)..Len(t) : t[i] \in Space
               /\ sign # "-" => \A i \in (n + 1)..Len(t) : t[i] # "nl"
  BY <1>1, LStripped
<1>3. /\ g.kind = "data" /\ g.at = pos /\ g.text = SubSeq(t, 1, n)
      /\ g.newlines_stripped =
             IF sign = "-" THEN NewLines(t) - NewLines(SubSeq(t, 1, n)) ELSE 0
  BY <1>2 DEF DataBefore, Group
<1> HIDE DEF g
<1> DEFINE q == pos + n
<1>4. q \in pos..p /\ q \in pos..(Len(source) + 1) /\ q - pos = n /\ q - 1 \in Int
  BY <1>1, <1>2
<1>5. SubSeq(t, 1, n) = SubSeq(source, pos, q - 1)
  <2>1. /\ SubSeq(t, 1, n + 1 - 1) \in Seq(Symbols) /\ Len(SubSeq(t, 1, n + 1 - 1)) = n + 1 - 1
        /\ \A i \in 1..(n + 1 - 1) : SubSeq(t, 1, n + 1 - 1)[i] = t[1 + i - 1]
    <3>1. 1 \in 1..(Len(t) + 1) /\ n + 1 \in 1..(Len(t) + 1)
      BY <1>1, <1>2
    <3>2. QED
      BY <1>1, <3>1, Part, SMTT(30)
  <2>2. n + 1 - 1 = n /\ \A i \in 1..n : 1 + i - 1 = i
    BY <1>2
  <2>3. /\ SubSeq(source, pos, q - 1) \in Seq(Symbols) /\ Len(SubSeq(source, pos, q - 1)) = q - pos
        /\ \A i \in 1..(q - pos) : SubSeq(source, pos, q - 1)[i] = source[pos + i - 1]
    BY <1>4, Part
  <2> DEFINE u == SubSeq(t, 1, n)
             v == SubSeq(source, pos, q - 1)
  <2>4. u \in Seq(Symbols) /\ Len(u) = n /\ \A i \in 1..n : u[i] = t[i]
    BY <2>1, <2>2
  <2>5. v \in Seq(Symbols) /\ Len(v) = n /\ \A i \in 1..n : v[i] = source[pos + i - 1]
    BY <1>4, <2>3
  <2> HIDE DEF u, v, q, t
  <2>6. ASSUME NEW i \in 1..n PROVE u[i] = v[i]
    <3>1. i \in 1..(p - pos)
      BY <1>1, <1>2
    <3>2. t[i] = source[pos + i - 1]
      BY <1>1, <3>1
    <3>3. u[i] = t[i] /\ v[i] = source[pos + i - 1]
      BY <2>4, <2>5
    <3>4. QED
      BY <3>2, <3>3
  <2>7. u = v
    BY <2>4, <2>5, <2>6, SeqEqual
  <2>8. QED
    BY <2>7 DEF u, v
<1>6. /\ NewLines(SubSeq(t, 1, n)) = Count(source, pos, q)
      /\ SubSeq(t, 1, n) \in Seq(Symbols) /\ Len(SubSeq(t, 1, n)) = n
  <2>1. NewLines(SubSeq(source, pos, q - 1)) = Count(source, pos, q)
    BY <1>4, CountOfPart
  <2>2. SubSeq(source, pos, q - 1) \in Seq(Symbols) /\ Len(SubSeq(source, pos, q - 1)) = q - pos
    BY <1>4, Part
  <2>3. QED
    BY <1>4, <1>5, <2>1, <2>2
<1>7. \A i \in q..(p - 1) : source[i] = t[i - pos + 1] /\ i - pos + 1 \in (n + 1)..Len(t)
  <2>1. ASSUME NEW i \in q..(p - 1)
        PROVE  source[i] = t[i - pos + 1] /\ i - pos + 1 \in (n + 1)..Len(t)
    <3>1. i - pos + 1 \in 1..(p - pos) /\ pos + (i - pos + 1) - 1 = i
          /\ i - pos + 1 \in (n + 1)..(p - pos)
      BY <1>2, <1>4
    <3>2. QED
      BY <1>1, <3>1
  <2>2. QED
    BY <2>1
<1>8. /\ Count(source, pos, p) = Count(source, pos, q) + Count(source, q, p)
      /\ Count(source, pos, q) \in Nat /\ Count(source, q, p) \in Nat
  <2>1. pos \in Nat /\ q \in Nat /\ p \in Nat /\ pos <= q /\ q <= p
    BY <1>4
  <2> HIDE DEF q
  <2>2. Count(source, pos, p) = Count(source, pos, q) + Count(source, q, p)
    BY <2>1, CountAdds
  <2>3. Count(source, pos, q) \in Nat /\ Count(source, q, p) \in Nat
    BY <2>1, CountType
  <2>4. QED
    BY <2>2, <2>3
<1>9. LinesIn(g) = Count(source, pos, p)
  <2>1. CASE sign = "-"
    BY <1>1, <1>3, <1>6, <1>8, <2>1 DEF LinesIn
  <2>2. CASE sign # "-"
    <3>1. \A i \in q..(p - 1) : source[i] # "nl"
      BY <1>2, <1>7, <2>2
    <3>2. Count(source, q, p) = 0
      BY <1>4, <3>1, NoNewLines
    <3>3. QED
      BY <1>3, <1>6, <1>8, <2>2, <3>2 DEF LinesIn
  <2>3. QED
    BY <2>1, <2>2
<1>10. \A i \in q..(p - 1) : source[i] \in Space
  BY <1>2, <1>7
<1> HIDE DEF t
<1>11. Covers(source, g, pos, p)
  <2>1. /\ g.at = pos /\ g.kind \in Kinds /\ g.text \in Seq(Symbols)
        /\ pos + Len(g.text) = q
    <3>1. g.text \in Seq(Symbols) /\ Len(g.text) = n
      BY <1>3, <1>6, Zenon
    <3>2. "data" \in Kinds
      BY DEF Kinds
    <3>3. g.at = pos /\ g.kind \in Kinds
      BY <1>3, <3>2, Zenon
    <3>4. QED
      BY <3>1, <3>3
  <2>2. q <= p
    BY <1>4
  <2>3. g.text = SubSeq(source, pos, q - 1)
    BY <1>3, <1>5
  <2> HIDE DEF q
  <2>4. QED
    BY <1>9, <1>10, <2>1, <2>2, <2>3, SMTT(30) DEF Covers
<1>12. QED
  BY <1>11 DEF g

-----------------------------------------------------------------------------
(* Reading on                                                              *)

(* A token that stands for s from a place to another one.                  *)
Means(s, t, line, a, b) ==
    /\ t.lineno = line /\ t.at = a /\ t.at + Len(t.text) <= b
    /\ t.text = SubSeq(s, a, a + Len(t.text) - 1)
    /\ \A i \in (t.at + Len(t.text))..(b - 1) : s[i] \in Space

LEMMA Yielded ==
    ASSUME NEW s, NEW a \in Nat \ {0}, NEW b \in Nat, a <= b, NEW g, Covers(s, g, a, b),
           NEW line \in Nat
    PROVE  \/ Yield(g, line) = <<>> /\ \A i \in a..(b - 1) : s[i] \in Space
           \/ \E t \in Token : Yield(g, line) = <<t>> /\ Means(s, t, line, a, b)
<1>1. CASE g.text = <<>> /\ g.kind \in ignore_if_empty
  <2>1. Yield(g, line) = <<>>
    BY <1>1 DEF Yield
  <2>2. a + Len(g.text) = a
    BY <1>1
  <2>3. \A i \in a..(b - 1) : s[i] \in Space
    BY <2>2 DEF Covers
  <2>4. QED
    BY <2>1, <2>3
<1>2. CASE ~ (g.text = <<>> /\ g.kind \in ignore_if_empty)
  <2> DEFINE t == [kind |-> g.kind, text |-> g.text, at |-> g.at, lineno |-> line]
  <2>1. Yield(g, line) = <<t>>
    BY <1>2 DEF Yield
  <2>2. t \in Token
    BY DEF Covers, Token
  <2>3. t.lineno = line /\ t.at = g.at /\ t.text = g.text
    OBVIOUS
  <2> HIDE DEF t
  <2>4. QED
    BY <2>1, <2>2, <2>3 DEF Covers, Means
<1>3. QED
  BY <1>1, <1>2

LEMMA ReadBlanks ==
    ASSUME NEW s, NEW toks, NEW p \in Nat \ {0}, NEW q \in Nat, p <= q, NEW line,
           Read(s, toks, p, line), \A i \in p..(q - 1) : s[i] \in Space
    PROVE  Read(s, toks, q, line + Count(s, p, q))
<1>1. /\ toks \in Seq(Token) /\ line = 1 + Count(s, 1, p)
      /\ \A i \in 1..Len(toks) : IsOf(s, toks[i], p)
  BY DEF Read
<1>2. line + Count(s, p, q) = 1 + Count(s, 1, q)
  <2>1. 1 \in Nat /\ 1 <= p
    OBVIOUS
  <2>2. Count(s, 1, q) = Count(s, 1, p) + Count(s, p, q)
    BY <2>1, CountAdds
  <2>3. Count(s, 1, p) \in Nat /\ Count(s, p, q) \in Nat
    BY <2>1, CountType
  <2>4. QED
    BY <1>1, <2>2, <2>3
<1>3. \A i \in 1..Len(toks) : IsOf(s, toks[i], q)
  <2>1. ASSUME NEW i \in 1..Len(toks) PROVE IsOf(s, toks[i], q)
    <3>1. toks[i] \in Token /\ IsOf(s, toks[i], p)
      BY <1>1
    <3>2. toks[i].at \in Nat /\ Len(toks[i].text) \in Nat
      BY <3>1 DEF Token
    <3>3. QED
      BY <3>1, <3>2 DEF IsOf
  <2>2. QED
    BY <2>1
<1>4. ASSUME NEW i \in 0..Len(toks), NEW k \in Behind(toks, i)..(Upto(toks, i, q) - 1)
      PROVE  s[k] \in Space
  <2>1. \A j \in Behind(toks, i)..(Upto(toks, i, p) - 1) : s[j] \in Space
    BY DEF Read
  <2>2. CASE i = Len(toks)
    <3>1. Upto(toks, i, q) = q /\ Upto(toks, i, p) = p
      BY <2>2 DEF Upto
    <3>2. Behind(toks, i) \in Int
      <4>1. CASE i = 0
        BY <4>1 DEF Behind
      <4>2. CASE i # 0
        <5>1. toks[i] \in Token
          BY <1>1, <4>2
        <5>2. QED
          BY <4>2, <5>1 DEF Behind, Token
      <4>3. QED
        BY <4>1, <4>2
    <3>3. k \in Behind(toks, i)..(p - 1) \/ k \in p..(q - 1)
      BY <3>1, <3>2
    <3>4. QED
      BY <2>1, <3>1, <3>3
  <2>3. CASE i # Len(toks)
    BY <2>1, <2>3 DEF Upto
  <2>4. QED
    BY <2>2, <2>3
<1>5. QED
  BY <1>1, <1>2, <1>3, <1>4 DEF Read

LEMMA ReadToken ==
    ASSUME NEW s, NEW toks, NEW p \in Nat \ {0}, NEW q \in Nat, p <= q,
           NEW line \in Nat, Read(s, toks, p, line), NEW t \in Token, Means(s, t, line, p, q)
    PROVE  Read(s, toks \o <<t>>, q, line + Count(s, p, q))
<1> DEFINE n == Len(toks)
           new == toks \o <<t>>
<1>1. /\ toks \in Seq(Token) /\ line = 1 + Count(s, 1, p)
      /\ \A i \in 1..n : IsOf(s, toks[i], p)
      /\ \A i \in 0..n : \A k \in Behind(toks, i)..(Upto(toks, i, p) - 1) : s[k] \in Space
      /\ n \in Nat
  BY DEF Read
<1>2. /\ new \in Seq(Token) /\ Len(new) = n + 1
      /\ \A i \in 1..n : new[i] = toks[i]
      /\ new[n + 1] = t
  BY <1>1
<1> HIDE DEF new, n
<1>3. line + Count(s, p, q) = 1 + Count(s, 1, q)
  <2>1. 1 \in Nat /\ 1 <= p
    OBVIOUS
  <2>2. Count(s, 1, q) = Count(s, 1, p) + Count(s, p, q)
    BY <2>1, CountAdds
  <2>3. Count(s, 1, p) \in Nat /\ Count(s, p, q) \in Nat
    BY <2>1, CountType
  <2>4. QED
    BY <1>1, <2>2, <2>3
<1>4. ASSUME NEW i \in 1..(n + 1) PROVE IsOf(s, new[i], q)
  <2>1. CASE i = n + 1
    BY <1>1, <1>2, <2>1 DEF IsOf, Means
  <2>2. CASE i # n + 1
    <3>1. i \in 1..n /\ new[i] = toks[i]
      BY <1>1, <1>2, <2>2
    <3>2. toks[i] \in Token /\ IsOf(s, toks[i], p)
      BY <1>1, <3>1 DEF n
    <3>3. toks[i].at \in Nat /\ Len(toks[i].text) \in Nat
      BY <3>2 DEF Token
    <3>4. QED
      BY <3>1, <3>2, <3>3, SMTT(30) DEF IsOf
  <2>3. QED
    BY <2>1, <2>2
<1>5. ASSUME NEW i \in 0..(n + 1), NEW k \in Behind(new, i)..(Upto(new, i, q) - 1)
      PROVE  s[k] \in Space
  <2>1. CASE i = n + 1
    <3>1. Behind(new, i) = t.at + Len(t.text) /\ Upto(new, i, q) = q
      BY <1>1, <1>2, <2>1 DEF Behind, Upto
    <3>2. QED
      BY <3>1 DEF Means
  <2>2. CASE i = n
    <3>1. Behind(new, i) = Behind(toks, i) /\ Upto(new, i, q) = p /\ Upto(toks, i, p) = p
      BY <1>1, <1>2, <2>2 DEF Behind, Upto, n, Means
    <3>2. i \in 0..n
      BY <1>1, <2>2
    <3>3. QED
      BY <1>1, <3>1, <3>2
  <2>3. CASE i \in 0..(n - 1)
    <3>1. Behind(new, i) = Behind(toks, i)
      BY <1>1, <1>2, <2>3 DEF Behind
    <3>2. Upto(new, i, q) = Upto(toks, i, p) /\ i \in 0..n
      BY <1>1, <1>2, <2>3 DEF Upto, n
    <3>3. QED
      BY <1>1, <3>1, <3>2
  <2>4. QED
    BY <1>1, <2>1, <2>2, <2>3
<1>6. Read(s, new, q, line + Count(s, p, q))
  BY <1>2, <1>3, <1>4, <1>5 DEF Read
<1>7. QED
  BY <1>6 DEF new

LEMMA ReadOn ==
    ASSUME NEW s, NEW toks, NEW p \in Nat \ {0}, NEW q \in Nat, p <= q,
           NEW line \in Nat, Read(s, toks, p, line), NEW g, Covers(s, g, p, q)
    PROVE  Read(s, toks \o Yield(g, line), q, line + LinesIn(g))
<1>1. LinesIn(g) = Count(s, p, q) /\ toks \in Seq(Token)
  BY DEF Covers, Read
<1>2. CASE Yield(g, line) = <<>> /\ \A i \in p..(q - 1) : s[i] \in Space
  <2>1. toks \o <<>> = toks
    BY <1>1, ConcatEmptySeq
  <2>2. QED
    BY <1>1, <1>2, <2>1, ReadBlanks
<1>3. CASE \E t \in Token : Yield(g, line) = <<t>> /\ Means(s, t, line, p, q)
  <2>1. PICK t \in Token : Yield(g, line) = <<t>> /\ Means(s, t, line, p, q)
    BY <1>3
  <2>2. QED
    BY <1>1, <2>1, ReadToken
<1>4. QED
  BY <1>2, <1>3, Yielded

-----------------------------------------------------------------------------
(* Where matches end                                                       *)

LEMMA Sizes ==
    ASSUME source \in Seq(Symbols), NEW p \in 1..(Len(source) + 1)
    PROVE  Len(source) \in Nat /\ p \in Nat \ {0} /\ p <= Len(source) + 1
<1>1. Len(source) \in Nat
  OBVIOUS
<1> DEFINE n == Len(source)
<1> HIDE DEF n
<1>2. n \in Nat /\ p \in 1..(n + 1)
  BY <1>1 DEF n
<1>3. p \in Nat \ {0} /\ p <= n + 1
  BY <1>2
<1>4. QED
  BY <1>1, <1>3 DEF n

LEMMA ThreeLong ==
    ASSUME NEW a, NEW b, NEW c
    PROVE  Len(<<a>> \o <<b, c>>) = 3 /\ (<<a>> \o <<b, c>>)[3] = c
<1> DEFINE S == {a, b, c}
           x == <<a>>
           y == <<b, c>>
<1>1. x \in Seq(S) /\ Len(x) = 1
  OBVIOUS
<1>2. y \in Seq(S) /\ Len(y) = 2 /\ y[2] = c
  OBVIOUS
<1> HIDE DEF S, x, y
<1>3. /\ Len(x \o y) = Len(x) + Len(y)
      /\ \A i \in 1 .. Len(x) + Len(y) :
             (x \o y)[i] = IF i <= Len(x) THEN x[i] ELSE y[i - Len(x)]
  BY <1>1, <1>2, ConcatProperties
<1>4. Len(x \o y) = 3 /\ (x \o y)[3] = c
  BY <1>1, <1>2, <1>3
<1>5. QED
  BY <1>4 DEF x, y

LEMMA TwoLong ==
    ASSUME NEW a, NEW b
    PROVE  Len(<<a, b>>) = 2 /\ <<a, b>>[2] = b
  OBVIOUS

(* The delimiters have two characters.                                     *)
EndStrings == {block_end_string, comment_end_string, variable_end_string}

LEMMA EndStringSizes ==
    /\ Len(block_start_string) = 2 /\ block_start_string[2] # None
    /\ Len(variable_start_string) = 2 /\ variable_start_string[2] # None
    /\ Len(comment_start_string) = 2 /\ comment_start_string[2] # None
    /\ \A d \in EndStrings : \E x, y : d = <<x, y>> /\ y # None
<1>1. "%" # None /\ "{" # None /\ "#" # None /\ "}" # None
  BY Zenon DEF None
<1>2. Len(block_start_string) = 2 /\ block_start_string[2] # None
  BY <1>1, TwoLong, Zenon DEF block_start_string
<1>3. Len(variable_start_string) = 2 /\ variable_start_string[2] # None
  BY <1>1, TwoLong, Zenon DEF variable_start_string
<1>4. Len(comment_start_string) = 2 /\ comment_start_string[2] # None
  BY <1>1, TwoLong, Zenon DEF comment_start_string
<1>5. \A d \in EndStrings : \E x, y : d = <<x, y>> /\ y # None
  BY <1>1, Zenon DEF EndStrings, block_end_string, comment_end_string, variable_end_string
<1>6. QED
  BY <1>2, <1>3, <1>4, <1>5

LEMMA FirstIn ==
    ASSUME NEW I \in SUBSET (Nat \ {0}), First(I) # 0
    PROVE  First(I) \in I
<1>1. I # {} /\ First(I) = Min(I) /\ I \in SUBSET Nat
  BY DEF First
<1>2. QED
  BY <1>1, MinIn

LEMMA CharIn ==
    ASSUME NEW p, Char(p) # None
    PROVE  p \in 1..Len(source) /\ Char(p) = source[p]
  BY DEF Char

LEMMA AfterIn ==
    ASSUME source \in Seq(Symbols), NEW p \in 1..(Len(source) + 1), NEW C
    PROVE  After(p, C) \in p..(Len(source) + 1)
<1>1. Len(source) \in Nat
  OBVIOUS
<1>2. CASE p > Len(source)
  BY <1>1, <1>2 DEF After
<1>3. CASE ~ (p > Len(source))
  <2> DEFINE I == {q \in p..(Len(source) + 1) : q > Len(source) \/ source[q] \notin C}
  <2>1. Len(source) + 1 \in I /\ I \in SUBSET Nat
    BY <1>1, <1>3
  <2>2. Min(I) \in I
    BY <2>1, MinIn
  <2>3. After(p, C) = Min(I)
    BY <1>3 DEF After
  <2>4. QED
    BY <2>2, <2>3
<1>4. QED
  BY <1>2, <1>3

LEMMA HasIn ==
    ASSUME NEW p \in Nat, NEW literal, NEW n \in Nat \ {0}, Len(literal) = n,
           literal[n] # None, Has(p, literal)
    PROVE  p + n - 1 \in 1..Len(source)
<1>0. n \in 1..Len(literal)
  OBVIOUS
<1>1. Char(p + n - 1) = literal[n]
  BY <1>0 DEF Has
<1>2. QED
  BY <1>1, CharIn

LEMMA AfterEndIn ==
    ASSUME source \in Seq(Symbols), NEW p \in 1..(Len(source) + 1),
           NEW d \in EndStrings, NEW plus, NEW trim, AfterEnd(p, d, plus, trim) # 0
    PROVE  AfterEnd(p, d, plus, trim) \in (p + 2)..(Len(source) + 1)
<1> DEFINE with(sign) == <<sign>> \o d
<1>0. Len(source) \in Nat /\ p \in Nat \ {0} /\ p <= Len(source) + 1
  BY Sizes
<1>1. 2 \in Nat \ {0} /\ 3 \in Nat \ {0}
  OBVIOUS
<1>2. Len(d) = 2 /\ d[2] # None /\ \A sign : Len(with(sign)) = 3 /\ with(sign)[3] # None
  <2>1. PICK x, y : d = <<x, y>> /\ y # None
    BY EndStringSizes
  <2>2. ASSUME NEW sign PROVE Len(with(sign)) = 3 /\ with(sign)[3] # None
    <3>1. with(sign) = <<sign>> \o <<x, y>>
      BY <2>1
    <3> HIDE DEF with
    <3>2. Len(<<sign>> \o <<x, y>>) = 3 /\ (<<sign>> \o <<x, y>>)[3] = y
      BY ThreeLong
    <3>3. QED
      BY <2>1, <3>1, <3>2, Zenon
  <2>3. Len(d) = 2 /\ d[2] # None
    BY <2>1, TwoLong, Zenon
  <2> HIDE DEF with
  <2>4. QED
    BY <2>2, <2>3
<1> HIDE DEF with
<1>3. ASSUME NEW sign \in {"+", "-"}, Has(p, with(sign)) PROVE p + 2 \in 1..Len(source)
  <2>1. p + 3 - 1 \in 1..Len(source)
    BY <1>0, <1>1, <1>2, <1>3, HasIn, Zenon
  <2>2. QED
    BY <1>0, <2>1
<1>4. ASSUME Has(p, d) PROVE p + 1 \in 1..Len(source)
  <2>1. p + 2 - 1 \in 1..Len(source)
    BY <1>0, <1>1, <1>2, <1>4, HasIn, Zenon
  <2>2. QED
    BY <1>0, <2>1
<1> DEFINE end == AfterEnd(p, d, plus, trim)
<1>5. end # 0
  OBVIOUS
<1>6. \/ Has(p, with("+")) /\ end = p + 3
      \/ Has(p, with("-")) /\ end = After(p + 3, Space)
      \/ Has(p, d) /\ end = p + (IF trim /\ Char(p + 2) = "nl" THEN 3 ELSE 2)
  BY <1>5 DEF AfterEnd, with
<1> HIDE DEF end
<1>7. CASE Has(p, with("+")) /\ end = p + 3
  <2>1. p + 2 \in 1..Len(source)
    BY <1>3, <1>7
  <2>2. QED
    BY <1>0, <1>7, <2>1 DEF end
<1>8. CASE Has(p, with("-")) /\ end = After(p + 3, Space)
  <2>1. p + 2 \in 1..Len(source)
    BY <1>3, <1>8
  <2>2. p + 3 \in 1..(Len(source) + 1)
    BY <1>0, <2>1
  <2>3. After(p + 3, Space) \in (p + 3)..(Len(source) + 1)
    BY <2>2, AfterIn
  <2>4. end \in (p + 2)..(Len(source) + 1)
    BY <1>0, <1>8, <2>3
  <2>5. QED
    BY <2>4 DEF end
<1>9. CASE Has(p, d) /\ end = p + (IF trim /\ Char(p + 2) = "nl" THEN 3 ELSE 2)
  <2>1. p + 1 \in 1..Len(source)
    BY <1>4, <1>9
  <2>2. CASE trim /\ Char(p + 2) = "nl"
    <3>1. p + 2 \in 1..Len(source) /\ end = p + 3
      <4>1. "nl" # None
        BY DEF None
      <4>2. Char(p + 2) # None
        BY <2>2, <4>1
      <4>3. QED
        BY <1>9, <2>2, <4>2, CharIn
    <3>2. QED
      BY <1>0, <3>1 DEF end
  <2>3. CASE ~ (trim /\ Char(p + 2) = "nl")
    <3>1. end = p + 2
      BY <1>9, <2>3
    <3>2. QED
      BY <1>0, <2>1, <3>1 DEF end
  <2>4. QED
    BY <2>2, <2>3
<1>10. QED
  BY <1>6, <1>7, <1>8, <1>9

LEMMA EndsIn ==
    ASSUME source \in Seq(Symbols), NEW p \in 1..(Len(source) + 1)
    PROVE  /\ BlockEndAt(p) # 0 => BlockEndAt(p) \in (p + 2)..(Len(source) + 1)
           /\ CommentEndAt(p) # 0 => CommentEndAt(p) \in (p + 2)..(Len(source) + 1)
           /\ VariableEndAt(p) # 0 => VariableEndAt(p) \in (p + 2)..(Len(source) + 1)
  BY AfterEndIn DEF EndStrings, BlockEndAt, CommentEndAt, VariableEndAt

LEMMA AfterSignIn ==
    ASSUME source \in Seq(Symbols), NEW p \in 1..(Len(source) + 1)
    PROVE  AfterSign(p) \in p..(Len(source) + 1)
<1>0. Len(source) \in Nat /\ p \in Nat \ {0} /\ p <= Len(source) + 1
  BY Sizes
<1>1. CASE SignAt(p) = None
  BY <1>0, <1>1 DEF AfterSign
<1>2. CASE SignAt(p) # None
  <2>1. Char(p) # None
    BY <1>2 DEF SignAt
  <2>2. p \in 1..Len(source)
    BY <2>1, CharIn
  <2>3. QED
    BY <1>0, <1>2, <2>2 DEF AfterSign
<1>3. QED
  BY <1>1, <1>2

(* A word that is known, behind "{%", a sign and blanks.                   *)
LEMMA WordIn ==
    ASSUME source \in Seq(Symbols), NEW p \in 1..(Len(source) + 1),
           Has(p, block_start_string), Char(After(AfterSign(p + 2), Space)) # None
    PROVE  LET word == After(AfterSign(p + 2), Space) IN
           /\ word \in (p + 2)..Len(source)
           /\ After(word + 1, Space) \in (p + 3)..(Len(source) + 1)
<1> DEFINE word == After(AfterSign(p + 2), Space)
<1>0. Len(source) \in Nat /\ p \in Nat \ {0} /\ p <= Len(source) + 1
  BY Sizes
<1>1. p + 2 \in 1..(Len(source) + 1)
  <2>1. 2 \in Nat \ {0}
    OBVIOUS
  <2>2. p + 2 - 1 \in 1..Len(source)
    BY <1>0, <2>1, EndStringSizes, HasIn, Zenon
  <2>3. QED
    BY <1>0, <2>2
<1>2. AfterSign(p + 2) \in (p + 2)..(Len(source) + 1)
  BY <1>1, AfterSignIn
<1>3. AfterSign(p + 2) \in 1..(Len(source) + 1)
  BY <1>0, <1>2
<1>4. word \in AfterSign(p + 2)..(Len(source) + 1)
  BY <1>3, AfterIn
<1>5. word \in 1..Len(source)
  BY CharIn
<1> HIDE DEF word
<1>6. word \in (p + 2)..Len(source)
  BY <1>0, <1>2, <1>4, <1>5
<1>7. word + 1 \in 1..(Len(source) + 1)
  BY <1>0, <1>6
<1>8. After(word + 1, Space) \in (word + 1)..(Len(source) + 1)
  BY <1>7, AfterIn
<1>9. After(word + 1, Space) \in (p + 3)..(Len(source) + 1)
  BY <1>0, <1>6, <1>8
<1>10. QED
  BY <1>6, <1>9 DEF word

LEMMA RawsIn ==
    ASSUME source \in Seq(Symbols), NEW p \in 1..(Len(source) + 1)
    PROVE  /\ RawBeginAt(p) # 0 => RawBeginAt(p) \in (p + 1)..(Len(source) + 1)
           /\ RawEndAt(p) # 0 => RawEndAt(p) \in (p + 1)..(Len(source) + 1)
<1> DEFINE word == After(AfterSign(p + 2), Space)
           end  == After(word + 1, Space)
<1>0. Len(source) \in Nat /\ p \in Nat \ {0} /\ p <= Len(source) + 1
  BY Sizes
<1>1. ASSUME Has(p, block_start_string), Char(word) # None
      PROVE  end \in (p + 3)..(Len(source) + 1) /\ end \in 1..(Len(source) + 1)
  <2>1. end \in (p + 3)..(Len(source) + 1)
    BY <1>1, WordIn
  <2> HIDE DEF end
  <2>2. QED
    BY <1>0, <2>1
<1>2. ASSUME RawBeginAt(p) # 0 PROVE RawBeginAt(p) \in (p + 1)..(Len(source) + 1)
  <2>1. /\ Has(p, block_start_string) /\ Char(word) = "raw"
        /\ RawBeginAt(p) = AfterEnd(end, block_end_string, FALSE, FALSE)
    BY <1>2 DEF RawBeginAt
  <2>2. end \in (p + 3)..(Len(source) + 1) /\ end \in 1..(Len(source) + 1)
    <3>1. Char(word) # None
      BY <2>1, Zenon DEF None
    <3>2. QED
      BY <1>1, <2>1, <3>1
  <2> HIDE DEF end
  <2>3. RawBeginAt(p) \in (end + 2)..(Len(source) + 1)
    BY <1>2, <2>1, <2>2, AfterEndIn DEF EndStrings
  <2>4. QED
    BY <1>0, <2>2, <2>3
<1>3. ASSUME RawEndAt(p) # 0 PROVE RawEndAt(p) \in (p + 1)..(Len(source) + 1)
  <2>1. /\ Has(p, block_start_string) /\ Char(word) = "endraw"
        /\ RawEndAt(p) = BlockEndAt(end)
    BY <1>3 DEF RawEndAt
  <2>2. end \in (p + 3)..(Len(source) + 1) /\ end \in 1..(Len(source) + 1)
    <3>1. Char(word) # None
      BY <2>1, Zenon DEF None
    <3>2. QED
      BY <1>1, <2>1, <3>1
  <2> HIDE DEF end
  <2>3. RawEndAt(p) \in (end + 2)..(Len(source) + 1)
    BY <1>3, <2>1, <2>2, EndsIn
  <2>4. QED
    BY <1>0, <2>2, <2>3
<1>4. QED
  BY <1>2, <1>3

LEMMA NotNone ==
    /\ None \notin Space /\ None \notin Letters /\ None \notin Operators
    /\ None \notin {"1", ".", "'", "$", "@", "nl", "-", "+"}
  BY Zenon DEF None, Blank, Space, Letters, Operators

LEMMA TagIn ==
    ASSUME source \in Seq(Symbols), NEW p \in 1..(Len(source) + 1), compile_rules(p) # <<>>
    PROVE  LET tag == Head(compile_rules(p)) IN
           tag.kind \in Tags \cup Others /\ tag.end \in (p + 1)..(Len(source) + 1)
<1> DEFINE tag(kind, start) == [kind |-> kind, sign |-> SignAt(start), end |-> AfterSign(start)]
           raw == [kind |-> "raw_begin", sign |-> SignAt(p + 2), end |-> RawBeginAt(p)]
           prefix == After(p, Blank)
           first == Head(compile_rules(p))
<1>0. Len(source) \in Nat /\ p \in Nat \ {0} /\ p <= Len(source) + 1
  BY Sizes
<1>1. \/ RawBeginAt(p) # 0 /\ compile_rules(p) = <<raw>>
      \/ Has(p, block_start_string) /\ compile_rules(p) = <<tag("block_begin", p + 2)>>
      \/ Has(p, variable_start_string) /\ compile_rules(p) = <<tag("variable_begin", p + 2)>>
      \/ Has(p, comment_start_string) /\ compile_rules(p) = <<tag("comment_begin", p + 2)>>
      \/ Char(prefix) = "$" /\ compile_rules(p) = <<tag("linestatement_begin", prefix + 1)>>
      \/ Char(prefix) = "@" /\ compile_rules(p) = <<tag("linecomment_begin", prefix + 1)>>
  BY DEF compile_rules
<1>2. ASSUME NEW d, Len(d) = 2, d[2] # None, Has(p, d)
      PROVE  AfterSign(p + 2) \in (p + 1)..(Len(source) + 1)
  <2>1. 2 \in Nat \ {0}
    OBVIOUS
  <2>2. p + 2 - 1 \in 1..Len(source)
    BY <1>0, <1>2, <2>1, HasIn, Zenon
  <2>3. p + 2 \in 1..(Len(source) + 1)
    BY <1>0, <2>2
  <2>4. AfterSign(p + 2) \in (p + 2)..(Len(source) + 1)
    BY <2>3, AfterSignIn
  <2>5. QED
    BY <1>0, <2>4
<1>3. ASSUME Char(prefix) \in {"$", "@"}
      PROVE  AfterSign(prefix + 1) \in (p + 1)..(Len(source) + 1)
  <2>1. prefix \in p..(Len(source) + 1)
    BY AfterIn
  <2>2. prefix \in 1..Len(source)
    BY <1>3, NotNone, CharIn, Zenon
  <2> HIDE DEF prefix
  <2>3. prefix + 1 \in 1..(Len(source) + 1)
    BY <1>0, <2>2
  <2>4. AfterSign(prefix + 1) \in (prefix + 1)..(Len(source) + 1)
    BY <2>3, AfterSignIn
  <2>5. QED
    BY <1>0, <2>1, <2>4
<1>4. RawBeginAt(p) # 0 => RawBeginAt(p) \in (p + 1)..(Len(source) + 1)
  BY RawsIn
<1>5. \A x : Head(<<x>>) = x
  OBVIOUS
<1>6. {"raw_begin", "block_begin", "variable_begin", "comment_begin", "linestatement_begin",
       "linecomment_begin"} \subseteq Tags \cup Others
  BY DEF Tags, Others
<1>7. \A kind, start : tag(kind, start).kind = kind /\ tag(kind, start).end = AfterSign(start)
  OBVIOUS
<1>8. raw.kind = "raw_begin" /\ raw.end = RawBeginAt(p)
  OBVIOUS
<1> HIDE DEF tag, raw, prefix
<1>9. CASE RawBeginAt(p) # 0 /\ compile_rules(p) = <<raw>>
  BY <1>4, <1>5, <1>6, <1>8, <1>9
<1>10. CASE Has(p, block_start_string) /\ compile_rules(p) = <<tag("block_begin", p + 2)>>
  BY <1>2, <1>5, <1>6, <1>7, <1>10, EndStringSizes
<1>11. CASE Has(p, variable_start_string) /\ compile_rules(p) = <<tag("variable_begin", p + 2)>>
  BY <1>2, <1>5, <1>6, <1>7, <1>11, EndStringSizes
<1>12. CASE Has(p, comment_start_string) /\ compile_rules(p) = <<tag("comment_begin", p + 2)>>
  BY <1>2, <1>5, <1>6, <1>7, <1>12, EndStringSizes
<1>13. CASE \/ Char(prefix) = "$" /\ compile_rules(p) = <<tag("linestatement_begin", prefix + 1)>>
            \/ Char(prefix) = "@" /\ compile_rules(p) = <<tag("linecomment_begin", prefix + 1)>>
  BY <1>3, <1>5, <1>6, <1>7, <1>13
<1>14. QED
  BY <1>1, <1>9, <1>10, <1>11, <1>12, <1>13

LEMMA EndIn ==
    ASSUME source \in Seq(Symbols), NEW p \in 1..(Len(source) + 1), EndAt(p) # 0
    PROVE  EndAt(p) \in p..(Len(source) + 1)
<1> DEFINE space == After(p, Space)
           newlines == {q \in p .. space - 1 : source[q] = "nl"}
<1>0. Len(source) \in Nat /\ p \in Nat \ {0} /\ p <= Len(source) + 1
  BY Sizes
<1>1. \/ EndAt(p) \in (p + 2)..(Len(source) + 1)
      \/ EndAt(p) = LineStatementEndAt(p)
  BY EndsIn DEF EndAt
<1>2. CASE EndAt(p) = LineStatementEndAt(p)
  <2>1. space \in p..(Len(source) + 1)
    BY AfterIn
  <2>2. \/ EndAt(p) = space
        \/ newlines # {} /\ EndAt(p) = Max(newlines) + 1
    BY <1>2 DEF LineStatementEndAt
  <2> HIDE DEF space
  <2>3. CASE newlines # {} /\ EndAt(p) = Max(newlines) + 1
    <3>1. space \in Nat /\ newlines \in SUBSET (0..space)
      BY <1>0, <2>1
    <3>2. Max(newlines) \in newlines
      BY <2>3, <3>1, MaxIn
    <3>3. Max(newlines) \in p..(space - 1)
      BY <3>2
    <3> HIDE DEF newlines
    <3>4. QED
      BY <1>0, <2>1, <2>3, <3>3
  <2>4. QED
    BY <2>1, <2>2, <2>3
<1>3. QED
  BY <1>0, <1>1, <1>2

LEMMA AfterMore ==
    ASSUME source \in Seq(Symbols), NEW p \in 1..(Len(source) + 1), NEW C,
           Char(p) \in C, None \notin C
    PROVE  After(p, C) \in (p + 1)..(Len(source) + 1)
<1>0. Len(source) \in Nat /\ p \in Nat \ {0} /\ p <= Len(source) + 1
  BY Sizes
<1>1. p \in 1..Len(source) /\ source[p] \in C
  BY CharIn
<1>2. ~ (p > Len(source))
  BY <1>0, <1>1
<1> DEFINE I == {q \in p..(Len(source) + 1) : q > Len(source) \/ source[q] \notin C}
<1>3. Len(source) + 1 \in I /\ I \in SUBSET Nat
  BY <1>0, <1>2
<1>4. Min(I) \in I
  BY <1>3, MinIn
<1>5. After(p, C) = Min(I)
  BY <1>2 DEF After
<1>6. p \notin I
  BY <1>1, <1>2
<1>7. Min(I) \in p..(Len(source) + 1) /\ Min(I) # p
  BY <1>4, <1>6
<1> HIDE DEF I
<1>8. QED
  BY <1>0, <1>5, <1>7

LEMMA LexemeIn ==
    ASSUME source \in Seq(Symbols), NEW p \in 1..(Len(source) + 1), Lexeme(p) # <<>>
    PROVE  LET lexeme == Head(Lexeme(p)) IN
           lexeme.kind \in Kinds /\ lexeme.end \in (p + 1)..(Len(source) + 1)
<1> DEFINE digits == After(p, {"1"})
           fraction == After(digits + 1, {"1"})
           quote == {q \in p + 1 .. Len(source) : source[q] = "'"}
           lexeme(kind, end) == <<[kind |-> kind, end |-> end]>>
<1>0. Len(source) \in Nat /\ p \in Nat \ {0} /\ p <= Len(source) + 1
  BY Sizes
<1>1. \/ Char(p) \in Space /\ Lexeme(p) = lexeme("whitespace", After(p, Space))
      \/ /\ Char(p) = "1" /\ Char(digits) = "." /\ fraction > digits + 1
         /\ Lexeme(p) = lexeme("float", fraction)
      \/ Char(p) = "1" /\ Lexeme(p) = lexeme("integer", digits)
      \/ Char(p) \in Letters /\ Lexeme(p) = lexeme("name", After(p, Letters))
      \/ quote # {} /\ Lexeme(p) = lexeme("string", 1 + Min(quote))
  <2>1. /\ "1" \notin Space /\ "'" \notin Space /\ "'" \notin Letters /\ "'" # "1"
        /\ \A c \in Letters : c \notin Space
    BY Zenon DEF Space, Blank, Letters
  <2>2. CASE Char(p) \in Space
    BY <2>1, <2>2 DEF Lexeme
  <2>3. CASE Char(p) = "1"
    BY <2>1, <2>3 DEF Lexeme
  <2>4. CASE Char(p) \in Letters \ {"1"}
    BY <2>1, <2>4 DEF Lexeme
  <2>5. CASE Char(p) = "'" /\ quote # {}
    BY <2>1, <2>5 DEF Lexeme
  <2>6. CASE ~ (\/ Char(p) \in Space \/ Char(p) = "1" \/ Char(p) \in Letters \ {"1"}
                \/ Char(p) = "'" /\ quote # {})
    BY <2>6 DEF Lexeme
  <2>7. QED
    BY <2>2, <2>3, <2>4, <2>5, <2>6
<1>2. \A kind, end : Head(lexeme(kind, end)).kind = kind /\ Head(lexeme(kind, end)).end = end
  OBVIOUS
<1>3. {"whitespace", "float", "integer", "name", "string"} \subseteq Kinds
  BY DEF Kinds
<1>4. Char(p) \in Space => After(p, Space) \in (p + 1)..(Len(source) + 1)
  BY AfterMore, NotNone
<1>5. Char(p) \in Letters => After(p, Letters) \in (p + 1)..(Len(source) + 1)
  BY AfterMore, NotNone
<1>6. Char(p) = "1" => digits \in (p + 1)..(Len(source) + 1)
  <2>1. None \notin {"1"}
    BY NotNone
  <2>2. QED
    BY <2>1, AfterMore
<1>7. ASSUME Char(p) = "1", Char(digits) = "."
      PROVE  fraction \in (p + 1)..(Len(source) + 1)
  <2>1. digits \in (p + 1)..(Len(source) + 1)
    BY <1>6, <1>7
  <2>2. Char(digits) # None
    BY <1>7, NotNone
  <2>3. digits \in 1..Len(source)
    BY <2>2, CharIn
  <2> HIDE DEF digits
  <2>4. digits + 1 \in 1..(Len(source) + 1)
    BY <1>0, <2>3
  <2>5. fraction \in (digits + 1)..(Len(source) + 1)
    BY <2>4, AfterIn
  <2> HIDE DEF fraction
  <2>6. QED
    BY <1>0, <2>1, <2>5
<1>8. quote # {} => 1 + Min(quote) \in (p + 1)..(Len(source) + 1)
  <2>1. quote \in SUBSET Nat
    BY <1>0
  <2>2. quote # {} => Min(quote) \in quote
    BY <2>1, MinIn
  <2>3. QED
    BY <1>0, <2>2
<1> HIDE DEF lexeme, digits, fraction, quote
<1>9. QED
  BY <1>1, <1>2, <1>3, <1>4, <1>5, <1>6, <1>7, <1>8

-----------------------------------------------------------------------------
(* A match keeps the books                                                 *)

LEMMA Matched ==
    ASSUME source \in Seq(Symbols), pos \in 1..(Len(source) + 1),
           Read(source, tokens, pos, lineno),
           NEW p \in pos..(Len(source) + 1), NEW end \in p..(Len(source) + 1),
           NEW first, Covers(source, first, pos, p),
           NEW second, Covers(source, second, p, end),
           NEW states, Match(end, first, second, states)
    PROVE  Read(source', tokens', pos', lineno')
<1> DEFINE line == lineno + LinesIn(first)
           toks == tokens \o Yield(first, lineno)
<1>1. /\ tokens' = toks \o Yield(second, line) /\ lineno' = line + LinesIn(second)
      /\ pos' = end /\ source' = source
  <2>1. /\ tokens' = tokens \o Yield(first, lineno) \o Yield(second, lineno + LinesIn(first))
        /\ lineno' = lineno + LinesIn(first) + LinesIn(second)
        /\ pos' = end /\ source' = source
    BY DEF Match
  <2>2. QED
    BY <2>1
<1>2. pos \in Nat \ {0} /\ p \in Nat \ {0} /\ end \in Nat /\ pos <= p /\ p <= end /\ p \in Nat
  <2>1. Len(source) \in Nat /\ pos \in Nat \ {0} /\ pos <= Len(source) + 1
    BY Sizes
  <2>2. QED
    BY <2>1
<1>3. lineno \in Nat
  <2>1. lineno = 1 + Count(source, 1, pos)
    BY DEF Read
  <2>2. 1 \in Nat /\ pos \in Nat
    BY <1>2
  <2>3. Count(source, 1, pos) \in Nat
    BY <2>2, CountType
  <2>4. QED
    BY <2>1, <2>3
<1>4. line \in Nat
  <2>1. LinesIn(first) = Count(source, pos, p) /\ pos \in Nat
    BY <1>2 DEF Covers
  <2>2. Count(source, pos, p) \in Nat
    BY <1>2, <2>1, CountType
  <2>3. QED
    BY <1>3, <2>1, <2>2
<1>5. Read(source, toks, p, line)
  BY <1>2, <1>3, ReadOn
<1> HIDE DEF toks, line
<1>6. Read(source, toks \o Yield(second, line), end, line + LinesIn(second))
  BY <1>2, <1>4, <1>5, ReadOn
<1>7. QED
  BY <1>1, <1>6, Zenon

LEMMA Pushed ==
    ASSUME NEW S, NEW q \in Seq(S), NEW b \in S,
           NEW r \in Seq(S), Len(r) = Len(q) + 1,
           \A i \in 1..Len(q) : r[i] = q[i], r[Len(q) + 1] = b
    PROVE  Append(q, b) = r /\ Front(r) = q
<1> DEFINE u == Append(q, b)
           v == SubSeq(r, 1, Len(q) + 1 - 1)
<1>1. u = r
  <2>1. /\ u \in Seq(S) /\ Len(u) = Len(q) + 1
        /\ \A i \in 1..Len(q) : u[i] = q[i]
        /\ u[Len(q) + 1] = b
    BY AppendItems
  <2> HIDE DEF u
  <2>2. \A i \in 1..Len(u) : u[i] = r[i]
    BY <2>1
  <2>3. QED
    BY <2>1, <2>2, SeqEqual
<1>2. v = q
  <2>1. 1 \in 1..(Len(r) + 1) /\ Len(q) + 1 \in 1..(Len(r) + 1) /\ Len(q) + 1 - 1 = Len(q)
    OBVIOUS
  <2>2. v \in Seq(S) /\ Len(v) = Len(q) /\ \A i \in 1..Len(q) : v[i] = r[1 + i - 1]
    BY <2>1, Part
  <2> HIDE DEF v
  <2>3. \A i \in 1..Len(v) : v[i] = q[i]
    BY <2>2
  <2>4. QED
    BY <2>2, <2>3, SeqEqual
<1>3. Front(r) = v
  BY DEF Front
<1>4. QED
  BY <1>1, <1>2, <1>3

LEMMA Shapes ==
    ASSUME NEW a, NEW b
    PROVE  /\ Last(<<a>>) = a /\ Last(<<a, b>>) = b
           /\ Front(<<a, b>>) = <<a>> /\ Append(<<a>>, b) = <<a, b>>
           /\ Len(<<a, b>>) = 2
<1> DEFINE S == {a, b}
           one == <<a>>
           two == <<a, b>>
<1>1. /\ one \in Seq(S) /\ Len(one) = 1 /\ one[1] = a /\ b \in S
      /\ two \in Seq(S) /\ Len(two) = 2 /\ two[1] = a /\ two[2] = b
  OBVIOUS
<1> HIDE DEF S, one, two
<1>2. Append(one, b) = two /\ Front(two) = one
  <2>1. /\ one \in Seq(S) /\ b \in S /\ two \in Seq(S) /\ Len(two) = Len(one) + 1
        /\ two[Len(one) + 1] = b
    BY <1>1
  <2>2. \A i \in 1..Len(one) : two[i] = one[i]
    BY <1>1
  <2>3. QED
    BY <2>1, <2>2, Pushed, Zenon
<1>3. Last(one) = a /\ Last(two) = b
  BY <1>1 DEF Last
<1>4. QED
  BY <1>1, <1>2, <1>3 DEF one, two

(* What the states of the lexer say of its stack.                          *)
LEMMA InRoot ==
    ASSUME stack \in Stacks, In("root")
    PROVE  stack = <<"root">> /\ ~ InTag
<1>1. "root" \notin Tags \cup Others
  BY Zenon DEF Tags, Others
<1>2. \A s : Last(<<"root", s>>) = s
  BY Shapes
<1>3. Last(stack) = "root"
  BY DEF In
<1>4. stack = <<"root">>
  <2>1. CASE stack = <<"root">>
    BY <2>1
  <2>2. CASE \E s \in Tags \cup Others : stack = <<"root", s>>
    BY <1>1, <1>2, <1>3, <2>2
  <2>3. QED
    BY <2>1, <2>2 DEF Stacks
<1>5. QED
  BY <1>3, <1>4 DEF InTag, In

LEMMA InOther ==
    ASSUME stack \in Stacks, NEW s \in Tags \cup Others, In(s)
    PROVE  /\ Pop = <<"root">> /\ Len(stack) = 2 /\ stack = <<"root", s>>
           /\ InTag => s \in Tags
<1>1. "root" \notin Tags \cup Others
  BY Zenon DEF Tags, Others
<1>2. stack = <<"root", s>>
  <2>1. Last(stack) = s
    BY DEF In
  <2>2. CASE stack = <<"root">>
    <3>1. Last(stack) = "root"
      BY <2>2, Shapes
    <3>2. QED
      BY <1>1, <2>1, <3>1
  <2>3. CASE \E r \in Tags \cup Others : stack = <<"root", r>>
    <3>1. PICK r \in Tags \cup Others : stack = <<"root", r>>
      BY <2>3
    <3>2. Last(stack) = r
      BY <3>1, Shapes
    <3>3. QED
      BY <2>1, <3>1, <3>2
  <2>4. QED
    BY <2>2, <2>3 DEF Stacks
<1>3. Last(stack) = s /\ Front(stack) = <<"root">>
  BY <1>2, Shapes
<1>4. Len(stack) = 2
  BY <1>2, Shapes
<1>5. InTag => s \in Tags
  BY <1>3 DEF InTag, In, Tags
<1>6. QED
  BY <1>2, <1>3, <1>4, <1>5 DEF Pop

LEMMA Kept ==
    ASSUME LexInv, NEW p \in pos..(Len(source) + 1), NEW end \in p..(Len(source) + 1),
           NEW first, Covers(source, first, pos, p),
           NEW second, Covers(source, second, p, end),
           NEW states \in Stacks, Match(end, first, second, states),
           balancing_stack' # <<>> => InTag'
    PROVE  LexInv'
<1>1. Read(source', tokens', pos', lineno')
  BY Matched DEF LexInv
<1>2. /\ source' = source /\ pos' = end /\ stack' = states /\ error' = error
  BY DEF Match
<1>3. pos' \in 1..(Len(source') + 1)
  <2>1. Len(source) \in Nat /\ pos \in Nat \ {0}
    BY Sizes DEF LexInv
  <2>2. QED
    BY <1>2, <2>1
<1>4. QED
  BY <1>1, <1>2, <1>3 DEF LexInv

LEMMA Failed ==
    ASSUME LexInv, NEW message \in Messages, Fail(message)
    PROVE  LexInv'
<1>1. /\ error' = message
      /\ UNCHANGED <<source, pos, lineno, stack, balancing_stack, tokens>>
  BY DEF Fail
<1>2. InTag' <=> InTag
  BY <1>1 DEF InTag, In
<1>3. Read(source, tokens, pos, lineno)' <=> Read(source, tokens, pos, lineno)
  BY <1>1
<1>4. QED
  BY <1>1, <1>2, <1>3 DEF LexInv

LEMMA LexInit ==
    ASSUME Init
    PROVE  LexInv
<1>1. PICK symbols \in Seq(Symbols), state \in {"root", "variable_begin", "block_begin"} :
          Start(symbols, state)
  BY DEF Init, Symbols
<1>2. /\ source = Lines(symbols) /\ pos = 1 /\ lineno = 1
      /\ stack = IF state = "root" THEN <<"root">> ELSE <<"root", state>>
      /\ balancing_stack = <<>> /\ tokens = <<>> /\ error = None
  BY <1>1 DEF Start
<1>3. source \in Seq(Symbols)
  <2>1. symbols # <<>> => Front(symbols) \in Seq(Symbols)
    BY DEF Front
  <2>2. QED
    BY <1>2, <2>1 DEF Lines
<1>4. stack \in Stacks
  BY <1>2, Zenon DEF Stacks, Tags
<1>5. pos \in 1..(Len(source) + 1)
  BY <1>2, <1>3
<1>6. None \in Messages
  BY Zenon DEF Messages
<1>7. Read(source, tokens, pos, lineno)
  <2>1. Count(source, 1, 1) = 0
    <3>1. 1 \in Nat /\ \A i \in 1..(1 - 1) : source[i] # "nl"
      OBVIOUS
    <3>2. QED
      BY <3>1, NoNewLines
  <2>2. tokens \in Seq(Token) /\ Len(tokens) = 0
    BY <1>2
  <2>3. \A i \in 0..0 : Behind(tokens, i) = 1 /\ Upto(tokens, i, 1) = 1
    BY <2>2 DEF Behind, Upto
  <2>4. QED
    BY <1>2, <2>1, <2>2, <2>3 DEF Read
<1>8. QED
  BY <1>2, <1>3, <1>4, <1>5, <1>6, <1>7 DEF LexInv

-----------------------------------------------------------------------------
(* Every step keeps the invariant and gets on: it moves, leaves a state of *)
(* the lexer, or stops at an error.                                        *)
Advanced ==
    \/ pos' > pos
    \/ pos' = pos /\ Len(stack') < Len(stack)
    \/ pos' = pos /\ error = None /\ error' # None

LEMMA DirectiveStep ==
    ASSUME LexInv, Directive
    PROVE  LexInv' /\ Advanced
<1> DEFINE tag   == Head(compile_rules(directive))
           first == DataBefore(directive, tag.sign, tag.kind = "variable_begin")
<1>1. source \in Seq(Symbols) /\ pos \in 1..(Len(source) + 1) /\ stack \in Stacks
  BY DEF LexInv
<1>2. Len(source) \in Nat /\ pos \in Nat \ {0}
  BY <1>1, Sizes
<1>3. directive \in pos..Len(source) /\ compile_rules(directive) # <<>>
  <2> DEFINE I == {p \in Ahead : compile_rules(p) # <<>>}
  <2>1. I \in SUBSET (Nat \ {0}) /\ First(I) # 0
    BY <1>2 DEF Directive, directive, Ahead
  <2>2. First(I) \in I
    BY <2>1, FirstIn
  <2>3. directive = First(I)
    BY DEF directive
  <2>4. QED
    BY <2>2, <2>3 DEF Ahead
<1> HIDE DEF tag, directive
<1>4. directive \in 1..(Len(source) + 1) /\ directive \in pos..(Len(source) + 1)
  BY <1>2, <1>3
<1>5. tag.kind \in Tags \cup Others /\ tag.end \in (directive + 1)..(Len(source) + 1)
  BY <1>1, <1>3, <1>4, TagIn DEF tag
<1>6. tag.end \in directive..(Len(source) + 1) /\ tag.end > pos
  BY <1>2, <1>3, <1>5
<1>7. /\ Match(tag.end, first, Group(tag.kind, directive, tag.end), Append(stack, tag.kind))
      /\ UNCHANGED balancing_stack /\ In("root")
  BY DEF Directive, tag
<1>8. stack = <<"root">> /\ ~ InTag
  BY <1>1, <1>7, InRoot
<1>9. Append(stack, tag.kind) \in Stacks
  <2>1. Append(<<"root">>, tag.kind) = <<"root", tag.kind>>
    BY Shapes
  <2>2. QED
    BY <1>5, <1>8, <2>1 DEF Stacks
<1>10. balancing_stack' = <<>>
  BY <1>7, <1>8 DEF LexInv
<1>11. Covers(source, first, pos, directive)
  BY <1>1, <1>4, DataCovers
<1>12. Covers(source, Group(tag.kind, directive, tag.end), directive, tag.end)
  <2>1. tag.kind \in Kinds
    BY <1>5 DEF Tags, Others, Kinds
  <2>2. QED
    BY <1>1, <1>4, <1>6, <2>1, GroupCovers
<1> HIDE DEF first
<1>13. LexInv'
  BY <1>4, <1>6, <1>7, <1>9, <1>10, <1>11, <1>12, Kept
<1>14. pos' = tag.end
  BY <1>7 DEF Match
<1>15. QED
  BY <1>6, <1>13, <1>14 DEF Advanced

LEMMA DataStep ==
    ASSUME LexInv, Data
    PROVE  LexInv' /\ Advanced
<1> DEFINE end == Len(source) + 1
<1>1. source \in Seq(Symbols) /\ pos \in 1..(Len(source) + 1) /\ stack \in Stacks
  BY DEF LexInv
<1>2. Len(source) \in Nat /\ pos \in Nat \ {0} /\ end \in pos..(Len(source) + 1)
      /\ pos \in pos..(Len(source) + 1) /\ end > pos
  BY <1>1, Sizes DEF Data
<1>3. Match(end, Nothing, Group("data", pos, end), stack) /\ UNCHANGED balancing_stack
      /\ In("root")
  BY DEF Data
<1>4. ~ InTag
  BY <1>1, <1>3, InRoot
<1>5. "data" \in Kinds
  BY DEF Kinds
<1>6. Covers(source, Nothing, pos, pos) /\ Covers(source, Group("data", pos, end), pos, end)
  BY <1>1, <1>2, <1>5, GroupCovers DEF Nothing
<1> HIDE DEF end
<1>7. balancing_stack' = <<>>
  BY <1>3, <1>4 DEF LexInv
<1>8. LexInv'
  BY <1>1, <1>2, <1>3, <1>6, <1>7, Kept
<1>9. pos' = end
  BY <1>3 DEF Match
<1>10. QED
  BY <1>2, <1>8, <1>9 DEF Advanced

(* A match that leaves a state, with the brackets balanced.                *)
LEMMA PopStep ==
    ASSUME LexInv, NEW s \in Tags \cup Others, In(s), balancing_stack = <<>>,
           UNCHANGED balancing_stack,
           NEW p \in pos..(Len(source) + 1), NEW end \in p..(Len(source) + 1),
           NEW first, Covers(source, first, pos, p),
           NEW second, Covers(source, second, p, end),
           Match(end, first, second, Pop)
    PROVE  LexInv' /\ Advanced
<1>1. source \in Seq(Symbols) /\ pos \in 1..(Len(source) + 1) /\ stack \in Stacks
  BY DEF LexInv
<1>2. Pop = <<"root">> /\ Len(stack) = 2
  BY <1>1, InOther
<1>3. Pop \in Stacks
  BY <1>2 DEF Stacks
<1>4. LexInv'
  BY <1>3, Kept
<1>5. pos' = end /\ stack' = Pop
  BY DEF Match
<1>6. Len(stack') = 1
  BY <1>2, <1>5
<1>7. pos' > pos \/ pos' = pos
  <2>1. Len(source) \in Nat /\ pos \in Nat
    BY <1>1, Sizes
  <2>2. QED
    BY <1>5, <2>1
<1>8. QED
  BY <1>2, <1>4, <1>6, <1>7 DEF Advanced

LEMMA CommentEndStep ==
    ASSUME LexInv, CommentEnd
    PROVE  LexInv' /\ Advanced
<1> DEFINE I == {q \in Ahead : CommentEndAt(q) # 0}
           p == First(I)
           end == CommentEndAt(p)
           s == "comment_begin"
<1>1. source \in Seq(Symbols) /\ pos \in 1..(Len(source) + 1) /\ stack \in Stacks
  BY DEF LexInv
<1>2. Len(source) \in Nat /\ pos \in Nat \ {0}
  BY <1>1, Sizes
<1>3. /\ In(s) /\ p # 0 /\ UNCHANGED balancing_stack
      /\ Match(end, Group("comment", pos, p), Group("comment_end", p, end), Pop)
  BY DEF CommentEnd
<1>4. I \in SUBSET (Nat \ {0})
  BY <1>2 DEF Ahead
<1>5. p \in I
  BY <1>3, <1>4, FirstIn
<1> HIDE DEF p
<1>6. p \in pos..(Len(source) + 1) /\ p \in 1..(Len(source) + 1) /\ end # 0
  BY <1>2, <1>5 DEF Ahead
<1>7. end \in (p + 2)..(Len(source) + 1)
  BY <1>1, <1>6, EndsIn
<1> HIDE DEF end, I
<1>8. end \in p..(Len(source) + 1)
  BY <1>2, <1>6, <1>7
<1>9. "comment" \in Kinds /\ "comment_end" \in Kinds
  BY DEF Kinds
<1>10. Covers(source, Group("comment", pos, p), pos, p)
  BY <1>1, <1>6, <1>9, GroupCovers
<1>11. Covers(source, Group("comment_end", p, end), p, end)
  BY <1>1, <1>6, <1>8, <1>9, GroupCovers
<1>12. s \in Tags \cup Others /\ s \notin Tags
  BY Zenon DEF Tags, Others
<1> HIDE DEF s
<1>13. balancing_stack = <<>>
  BY <1>1, <1>3, <1>12, InOther DEF LexInv
<1>14. QED
  BY <1>3, <1>6, <1>8, <1>10, <1>11, <1>12, <1>13, PopStep

LEMMA RawEndStep ==
    ASSUME LexInv, RawEnd
    PROVE  LexInv' /\ Advanced
<1> DEFINE I == {q \in Ahead : RawEndAt(q) # 0}
           p == First(I)
           end == RawEndAt(p)
           first == DataBefore(p, SignAt(p + 2), FALSE)
           s == "raw_begin"
<1>1. source \in Seq(Symbols) /\ pos \in 1..(Len(source) + 1) /\ stack \in Stacks
  BY DEF LexInv
<1>2. Len(source) \in Nat /\ pos \in Nat \ {0}
  BY <1>1, Sizes
<1>3. /\ In(s) /\ p # 0 /\ UNCHANGED balancing_stack
      /\ Match(end, first, Group("raw_end", p, end), Pop)
  BY DEF RawEnd
<1>4. I \in SUBSET (Nat \ {0})
  BY <1>2 DEF Ahead
<1>5. p \in I
  BY <1>3, <1>4, FirstIn
<1> HIDE DEF p
<1>6. p \in pos..(Len(source) + 1) /\ p \in 1..(Len(source) + 1) /\ end # 0
  BY <1>2, <1>5 DEF Ahead
<1>7. end \in (p + 1)..(Len(source) + 1)
  BY <1>1, <1>6, RawsIn
<1> HIDE DEF end, I
<1>8. end \in p..(Len(source) + 1)
  BY <1>2, <1>6, <1>7
<1>9. Covers(source, first, pos, p)
  BY <1>1, <1>6, DataCovers
<1>10. Covers(source, Group("raw_end", p, end), p, end)
  <2>1. "raw_end" \in Kinds
    BY DEF Kinds
  <2>2. QED
    BY <1>1, <1>6, <1>8, <2>1, GroupCovers
<1>11. s \in Tags \cup Others /\ s \notin Tags
  BY Zenon DEF Tags, Others
<1> HIDE DEF s, first
<1>12. balancing_stack = <<>>
  BY <1>1, <1>3, <1>11, InOther DEF LexInv
<1>13. QED
  BY <1>3, <1>6, <1>8, <1>9, <1>10, <1>11, <1>12, PopStep

LEMMA LineCommentEndStep ==
    ASSUME LexInv, LineCommentEnd
    PROVE  LexInv' /\ Advanced
<1> DEFINE I == {q \in pos .. Len(source) + 1 : Char(q) \in {"nl", None}}
           end == Min(I)
           s == "linecomment_begin"
<1>1. source \in Seq(Symbols) /\ pos \in 1..(Len(source) + 1) /\ stack \in Stacks
  BY DEF LexInv
<1>2. Len(source) \in Nat /\ pos \in Nat \ {0} /\ pos <= Len(source) + 1
  BY <1>1, Sizes
<1>3. /\ In(s) /\ UNCHANGED balancing_stack
      /\ Match(end, Group("linecomment", pos, end), Group("linecomment_end", end, end), Pop)
  BY DEF LineCommentEnd
<1>4. Len(source) + 1 \in I /\ I \in SUBSET Nat
  BY <1>2 DEF Char
<1>5. end \in I
  BY <1>4, MinIn
<1> HIDE DEF end
<1>6. end \in pos..(Len(source) + 1) /\ end \in 1..(Len(source) + 1)
      /\ end \in end..(Len(source) + 1)
  BY <1>2, <1>5
<1> HIDE DEF I
<1>7. "linecomment" \in Kinds /\ "linecomment_end" \in Kinds
  BY DEF Kinds
<1>8. Covers(source, Group("linecomment", pos, end), pos, end)
  BY <1>1, <1>6, <1>7, GroupCovers
<1>9. Covers(source, Group("linecomment_end", end, end), end, end)
  BY <1>1, <1>6, <1>7, GroupCovers
<1>10. s \in Tags \cup Others /\ s \notin Tags
  BY Zenon DEF Tags, Others
<1> HIDE DEF s
<1>11. balancing_stack = <<>>
  BY <1>1, <1>3, <1>10, InOther DEF LexInv
<1>12. QED
  BY <1>3, <1>6, <1>8, <1>9, <1>10, <1>11, PopStep

LEMMA TagEndStep ==
    ASSUME LexInv, TagEnd
    PROVE  LexInv' /\ Advanced
<1> DEFINE end == EndAt(pos)
<1>1. source \in Seq(Symbols) /\ pos \in 1..(Len(source) + 1) /\ stack \in Stacks
  BY DEF LexInv
<1>2. Len(source) \in Nat /\ pos \in Nat \ {0} /\ pos \in pos..(Len(source) + 1)
  BY <1>1, Sizes
<1>3. /\ InTag /\ end # 0 /\ balancing_stack = <<>> /\ UNCHANGED balancing_stack
      /\ Match(end, Nothing, Group(EndKind, pos, end), Pop)
  BY DEF TagEnd, AtEnd
<1>4. end \in pos..(Len(source) + 1)
  BY <1>1, <1>3, EndIn
<1> HIDE DEF end
<1>5. PICK s \in Tags \cup Others : In(s)
  BY <1>3 DEF InTag, Tags
<1>6. EndKind \in Kinds /\ "data" \in Kinds
  BY DEF EndKind, Kinds
<1>7. Covers(source, Nothing, pos, pos) /\ Covers(source, Group(EndKind, pos, end), pos, end)
  BY <1>1, <1>2, <1>4, <1>6, GroupCovers DEF Nothing
<1>8. QED
  BY <1>2, <1>3, <1>4, <1>5, <1>7, PopStep

(* A match inside a tag that goes on in it.                                *)
LEMMA StayStep ==
    ASSUME LexInv, InTag, NEW end \in (pos + 1)..(Len(source) + 1), NEW kind \in Kinds,
           Match(end, Nothing, Group(kind, pos, end), stack)
    PROVE  LexInv' /\ Advanced
<1>1. source \in Seq(Symbols) /\ pos \in 1..(Len(source) + 1) /\ stack \in Stacks
  BY DEF LexInv
<1>2. Len(source) \in Nat /\ pos \in Nat \ {0}
  BY <1>1, Sizes
<1>3. pos \in pos..(Len(source) + 1) /\ end \in pos..(Len(source) + 1) /\ end > pos
  BY <1>1, <1>2
<1>4. pos' = end /\ stack' = stack
  BY DEF Match
<1>5. InTag'
  BY <1>4 DEF InTag, In
<1>6. "data" \in Kinds
  BY DEF Kinds
<1>7. Covers(source, Nothing, pos, pos) /\ Covers(source, Group(kind, pos, end), pos, end)
  BY <1>1, <1>3, <1>6, GroupCovers DEF Nothing
<1>8. LexInv'
  BY <1>1, <1>3, <1>5, <1>7, Kept
<1>9. QED
  BY <1>3, <1>4, <1>8 DEF Advanced

LEMMA SimpleStep ==
    ASSUME LexInv, Simple
    PROVE  LexInv' /\ Advanced
<1> DEFINE lexeme == Head(Lexeme(pos))
<1>1. source \in Seq(Symbols) /\ pos \in 1..(Len(source) + 1)
  BY DEF LexInv
<1>2. /\ InTag /\ Lexeme(pos) # <<>>
      /\ Match(lexeme.end, Nothing, Group(lexeme.kind, pos, lexeme.end), stack)
  BY DEF Simple
<1>3. lexeme.kind \in Kinds /\ lexeme.end \in (pos + 1)..(Len(source) + 1)
  BY <1>1, <1>2, LexemeIn
<1> HIDE DEF lexeme
<1>4. QED
  BY <1>2, <1>3, StayStep

LEMMA OperatorStep ==
    ASSUME LexInv, Operator
    PROVE  LexInv' /\ Advanced
<1>1. source \in Seq(Symbols) /\ pos \in 1..(Len(source) + 1)
  BY DEF LexInv
<1>2. /\ InTag /\ Char(pos) \in Operators
      /\ Match(pos + 1, Nothing, Group("operator", pos, pos + 1), stack)
  BY DEF Operator
<1>3. pos \in 1..Len(source)
  BY <1>2, NotNone, CharIn
<1>4. pos + 1 \in (pos + 1)..(Len(source) + 1)
  BY <1>1, <1>3
<1>5. "operator" \in Kinds
  BY DEF Kinds
<1>6. QED
  BY <1>2, <1>4, <1>5, StayStep

LEMMA FailStep ==
    ASSUME LexInv, CommentMissingEnd \/ RawMissingEnd \/ Unbalanced \/ UnexpectedChar
    PROVE  LexInv' /\ Advanced
<1>1. \E message \in Messages \ {None} : Fail(message)
  <2>1. CASE CommentMissingEnd
    BY <2>1, Zenon DEF CommentMissingEnd, Messages, None
  <2>2. CASE RawMissingEnd
    BY <2>2, Zenon DEF RawMissingEnd, Messages, None
  <2>3. CASE Unbalanced
    <3>1. Fail(IF Expected = None THEN "unexpected" ELSE "expected")
      BY <2>3, Zenon DEF Unbalanced
    <3>2. "unexpected" \in Messages \ {None} /\ "expected" \in Messages \ {None}
      BY Zenon DEF Messages, None
    <3>3. QED
      BY <3>1, <3>2
  <2>4. CASE UnexpectedChar
    BY <2>4, Zenon DEF UnexpectedChar, Messages, None
  <2>5. QED
    BY <2>1, <2>2, <2>3, <2>4
<1>2. PICK message \in Messages \ {None} : Fail(message)
  BY <1>1
<1>3. LexInv'
  BY <1>2, Failed
<1>4. pos' = pos /\ error = None /\ error' # None
  BY <1>2 DEF Fail
<1>5. QED
  BY <1>3, <1>4 DEF Advanced

LEMMA LexNext ==
    ASSUME LexInv, Next
    PROVE  LexInv' /\ Advanced
<1>1. CASE Directive
  BY <1>1, DirectiveStep
<1>2. CASE Data
  BY <1>2, DataStep
<1>3. CASE CommentEnd
  BY <1>3, CommentEndStep
<1>4. CASE RawEnd
  BY <1>4, RawEndStep
<1>5. CASE LineCommentEnd
  BY <1>5, LineCommentEndStep
<1>6. CASE TagEnd
  BY <1>6, TagEndStep
<1>7. CASE Simple
  BY <1>7, SimpleStep
<1>8. CASE Operator
  BY <1>8, OperatorStep
<1>9. CASE CommentMissingEnd \/ RawMissingEnd \/ Unbalanced \/ UnexpectedChar
  BY <1>9, FailStep
<1>10. QED
  BY <1>1, <1>2, <1>3, <1>4, <1>5, <1>6, <1>7, <1>8, <1>9 DEF Next

LEMMA LexStutter ==
    ASSUME LexInv, UNCHANGED vars
    PROVE  LexInv'
<1>1. /\ UNCHANGED <<source, pos, lineno, stack, balancing_stack, tokens, error>>
  BY DEF vars
<1>2. InTag' <=> InTag
  BY <1>1 DEF InTag, In
<1>3. Read(source, tokens, pos, lineno)' <=> Read(source, tokens, pos, lineno)
  BY <1>1
<1>4. QED
  BY <1>1, <1>2, <1>3 DEF LexInv

LEMMA LexInvariant == Spec => []LexInv
<1>1. Init => LexInv
  BY LexInit
<1>2. LexInv /\ [Next]_vars => LexInv'
  BY LexNext, LexStutter
<1>3. QED
  BY <1>1, <1>2, PTL DEF Spec

-----------------------------------------------------------------------------
(* The theorems                                                            *)

(* The lexer's books: it is inside the source, in one state of the root    *)
(* and the tags, and brackets are open in tags only (tokeniter).           *)
THEOREM TypeCorrect == Spec => []TypeOK
<1>1. ASSUME LexInv PROVE TypeOK
  <2>1. /\ source \in Seq(Symbols) /\ pos \in 1..(Len(source) + 1) /\ stack \in Stacks
        /\ balancing_stack # <<>> => InTag
        /\ error \in Messages /\ lineno = 1 + Count(source, 1, pos)
    BY <1>1 DEF LexInv, Read
  <2>2. lineno \in Nat
    <3>1. 1 \in Nat /\ pos \in Nat
      BY <2>1, Sizes
    <3>2. Count(source, 1, pos) \in Nat
      BY <3>1, CountType
    <3>3. QED
      BY <2>1, <3>2
  <2>3. stack # <<>> /\ Len(stack) <= 2 /\ Head(stack) = "root"
    <3>1. \A s : Len(<<"root", s>>) = 2
      BY Shapes
    <3>2. CASE stack = <<"root">>
      BY <3>2
    <3>3. CASE \E s \in Tags \cup Others : stack = <<"root", s>>
      BY <3>1, <3>3
    <3>4. QED
      BY <2>1, <3>2, <3>3 DEF Stacks
  <2>4. QED
    BY <2>1, <2>2, <2>3, Zenon DEF TypeOK, Messages
<1>2. QED
  BY <1>1, LexInvariant, PTL

(* Every token and the lexer itself are on the line they say, whatever is  *)
(* stripped before them (newlines_stripped in tokeniter).                  *)
THEOREM LinesAreTrue == Spec => []LinesTrue
<1>1. ASSUME LexInv PROVE LinesTrue
  <2>1. /\ source \in Seq(Symbols) /\ pos \in 1..(Len(source) + 1)
        /\ tokens \in Seq(Token) /\ lineno = 1 + Count(source, 1, pos)
        /\ \A i \in 1..Len(tokens) : IsOf(source, tokens[i], pos)
    BY <1>1 DEF LexInv, Read
  <2>2. Len(source) \in Nat /\ pos \in Nat \ {0} /\ pos <= Len(source) + 1
    BY <2>1, Sizes
  <2>3. ASSUME NEW p \in 1..(Len(source) + 1)
        PROVE  NewLines(SubSeq(source, 1, p - 1)) = Count(source, 1, p)
    <3>1. 1 \in 1..(Len(source) + 1)
      BY <2>2
    <3>2. QED
      BY <2>1, <3>1, CountOfPart
  <2>4. ASSUME NEW i \in DOMAIN tokens
        PROVE  tokens[i].lineno = 1 + NewLines(SubSeq(source, 1, tokens[i].at - 1))
    <3>1. i \in 1..Len(tokens) /\ tokens[i] \in Token
      BY <2>1
    <3>2. /\ tokens[i].lineno = 1 + Count(source, 1, tokens[i].at)
          /\ tokens[i].at + Len(tokens[i].text) <= pos
      BY <2>1, <3>1 DEF IsOf
    <3>3. tokens[i].at \in Nat \ {0} /\ Len(tokens[i].text) \in Nat
      BY <3>1 DEF Token
    <3>4. tokens[i].at \in 1..(Len(source) + 1)
      BY <2>2, <3>2, <3>3
    <3>5. QED
      BY <2>3, <3>2, <3>4
  <2>5. lineno = 1 + NewLines(SubSeq(source, 1, pos - 1))
    BY <2>1, <2>3
  <2>6. QED
    BY <2>4, <2>5 DEF LinesTrue
<1>2. QED
  BY <1>1, LexInvariant, PTL

(* The tokens are the source in order, and what is in none of them is      *)
(* blank: stripping never takes a character of the template                *)
(* (OptionalLStrip, lstrip_blocks, trim_blocks and the signs).             *)
THEOREM BlanksOnlyLost == Spec => []OnlyBlanksLost
<1>1. ASSUME LexInv PROVE OnlyBlanksLost
  <2>1. /\ tokens \in Seq(Token)
        /\ \A i \in 1..Len(tokens) : IsOf(source, tokens[i], pos)
        /\ \A i \in 0..Len(tokens) : \A q \in Behind(tokens, i)..(Upto(tokens, i, pos) - 1) :
               source[q] \in Space
    BY <1>1 DEF LexInv, Read
  <2>2. ASSUME NEW i \in DOMAIN tokens
        PROVE  SubSeq(source, tokens[i].at, Behind(tokens, i) - 1) = tokens[i].text
    <3>1. i \in 1..Len(tokens) /\ i # 0 /\ tokens[i] \in Token
      BY <2>1
    <3>2. IsOf(source, tokens[i], pos)
      BY <2>1, <3>1
    <3>3. Behind(tokens, i) = tokens[i].at + Len(tokens[i].text)
      BY <3>1 DEF Behind
    <3> DEFINE part(last) == SubSeq(source, tokens[i].at, last)
    <3>4. tokens[i].text = part(tokens[i].at + Len(tokens[i].text) - 1)
      BY <3>2 DEF IsOf
    <3> HIDE DEF part
    <3>5. tokens[i].at \in Nat /\ Len(tokens[i].text) \in Nat
      BY <3>1 DEF Token
    <3>6. tokens[i].at + Len(tokens[i].text) - 1 = Behind(tokens, i) - 1
      BY <3>3, <3>5
    <3>7. tokens[i].text = part(Behind(tokens, i) - 1)
      BY <3>4, <3>6, Zenon
    <3>8. QED
      BY <3>7 DEF part
  <2>3. QED
    BY <2>1, <2>2 DEF OnlyBlanksLost, Behind, Upto
<1>2. QED
  BY <1>1, LexInvariant, PTL

(* Every step moves on in the source, leaves a state of the lexer or stops *)
(* at an error, so that tokeniter always ends, and no rule is matched      *)
(* without moving and without changing the stack, for which tokeniter      *)
(* raises a RuntimeError (lexer.py:854-857).                               *)
THEOREM NeverStuck == Spec => [][Advanced]_vars
<1>1. ASSUME LexInv, [Next]_vars PROVE [Advanced]_vars
  BY <1>1, LexNext
<1>2. QED
  BY <1>1, LexInvariant, PTL DEF Spec

-----------------------------------------------------------------------------
(* Whitespace control. The proof walks through a template as the lexer     *)
(* does: what its source has at each place, what the lexer strips of a     *)
(* text and what it finds at a tag, and from these the place, the state    *)
(* and the tokens it stands at after each step.                            *)
(*                                                                         *)
(* A template and the source it is laid out in                             *)

(* The text of the source that text i is, and the place behind it.         *)
TextAt(i) == IF i = Len(texts) THEN Lines(texts[i]) ELSE texts[i]
Stop(i)   == places[i] + Len(TextAt(i))

(* What a template gives of its source, place by place: a tag starts where *)
(* the text before it stops, and the characters are theirs.                *)
Laid ==
    /\ Template /\ source \in Seq(Symbols)
    /\ places \in Seq(Nat \ {0}) /\ Len(places) = Len(texts) /\ places[1] = 1
    /\ \A i \in 1..Len(texts) :
           /\ TextAt(i) \in Seq(Symbols) /\ Stop(i) <= TagPlace(i)
           /\ Stop(i) \in places[i]..(Len(source) + 1)
           /\ \A k \in 1..Len(TextAt(i)) : source[places[i] + k - 1] = TextAt(i)[k]
    /\ \A i \in 1..Len(tags) :
           /\ Stop(i) = TagPlace(i) /\ TextAt(i) = texts[i]
           /\ places[i + 1] = Stop(i) + Len(Spelled(tags[i]))
           /\ places[i + 1] <= Len(source) + 1
           /\ \A k \in 1..Len(Spelled(tags[i])) : source[Stop(i) + k - 1] = Spelled(tags[i])[k]
    /\ Stop(Len(texts)) = Len(source) + 1

(* Without the newline at its end a sequence is a beginning of itself.     *)
LEMMA LinesOf ==
    ASSUME NEW S, NEW s \in Seq(S)
    PROVE  /\ Lines(s) \in Seq(S) /\ Len(Lines(s)) \in {Len(s), Len(s) - 1}
           /\ Len(Lines(s)) >= 0 /\ \A k \in 1..Len(Lines(s)) : Lines(s)[k] = s[k]
           /\ s = <<>> => Lines(s) = s
           /\ Len(Lines(s)) = Len(s) - 1 <=>
                  ~ options.keep_trailing_newline /\ s # <<>> /\ s[Len(s)] = "nl"
<1>1. CASE ~ options.keep_trailing_newline /\ s # <<>> /\ Last(s) = "nl"
  <2>1. Lines(s) = SubSeq(s, 1, Len(s) - 1) /\ s[Len(s)] = "nl"
    BY <1>1 DEF Lines, Front, Last
  <2>2. Len(s) \in Nat \ {0}
    BY <1>1
  <2>3. /\ Lines(s) \in Seq(S) /\ Len(Lines(s)) = Len(s) - 1
        /\ \A k \in 1..Len(Lines(s)) : Lines(s)[k] = s[k]
    <3>1. 1 \in 1..(Len(s) + 1) /\ Len(s) \in 1..(Len(s) + 1) /\ \A k \in Nat : 1 + k - 1 = k
      BY <2>2
    <3> DEFINE t == SubSeq(s, 1, Len(s) - 1)
               Begins(u, n) == u \in Seq(S) /\ Len(u) = n - 1 /\ \A k \in 1..(n - 1) : u[k] = s[1 + k - 1]
    <3>2. Begins(t, Len(s))
      <4>1. ASSUME NEW n \in 1..(Len(s) + 1) PROVE Begins(SubSeq(s, 1, n - 1), n)
        BY <3>1, Part
      <4> HIDE DEF Begins
      <4>2. QED
        BY <3>1, <4>1, Zenon
    <3>3. Lines(s) = t
      BY <2>1
    <3> HIDE DEF t
    <3>4. QED
      BY <3>1, <3>2, <3>3
  <2>4. QED
    BY <1>1, <2>1, <2>2, <2>3
<1>2. CASE ~ (~ options.keep_trailing_newline /\ s # <<>> /\ Last(s) = "nl")
  <2>1. Lines(s) = s
    BY <1>2 DEF Lines
  <2>2. Len(s) \in Nat
    OBVIOUS
  <2>3. ~ (~ options.keep_trailing_newline /\ s # <<>> /\ s[Len(s)] = "nl")
    BY <1>2 DEF Last
  <2>4. QED
    BY <2>1, <2>2, <2>3
<1>3. QED
  BY <1>1, <1>2

LEMMA SizeOfTemplate ==
    ASSUME Template
    PROVE  /\ Len(tags) \in Nat /\ Len(texts) = Len(tags) + 1
           /\ DOMAIN texts = 1..Len(texts) /\ DOMAIN tags = 1..Len(tags)
           /\ \A i \in 1..Len(texts) : texts[i] \in Seq(Symbols) /\ Len(texts[i]) \in Nat
           /\ \A i \in 1..Len(tags) : tags[i] \in Tag
           /\ texts # <<>>
<1>1. texts \in Seq(Seq(Symbols)) /\ tags \in Seq(Tag) /\ Len(texts) = Len(tags) + 1
  BY DEF Template, Character, Symbols
<1>2. QED
  BY <1>1

(* The sequence w is a, b, c, d and e behind each other.                   *)
Joins(w, a, b, c, d, e, p) ==
    /\ Len(w) = p + Len(c) + Len(d) + Len(e)
    /\ \A k \in 1..Len(a) : w[k] = a[k]
    /\ \A k \in 1..Len(b) : w[Len(a) + k] = b[k]
    /\ \A k \in 1..Len(c) : w[p + k] = c[k]
    /\ \A k \in 1..Len(d) : w[p + Len(c) + k] = d[k]
    /\ \A k \in 1..Len(e) : w[p + Len(c) + Len(d) + k] = e[k]
LEMMA Joined ==
    ASSUME NEW S, NEW a \in Seq(S), NEW b \in Seq(S), NEW c \in Seq(S), NEW d \in Seq(S), NEW e \in Seq(S),
           NEW p, p = Len(a) + Len(b)
    PROVE  Joins(a \o b \o c \o d \o e, a, b, c, d, e, p)
<1>0. ASSUME NEW x \in Seq(S), NEW y \in Seq(S)
      PROVE  /\ x \o y \in Seq(S) /\ Len(x \o y) = Len(x) + Len(y)
             /\ \A k \in 1..Len(x) : (x \o y)[k] = x[k]
             /\ \A k \in 1..Len(y) : (x \o y)[Len(x) + k] = y[k]
  <2>1. /\ x \o y \in Seq(S) /\ Len(x \o y) = Len(x) + Len(y) /\ Len(x) \in Nat /\ Len(y) \in Nat
        /\ \A k \in 1..Len(x) + Len(y) : (x \o y)[k] = IF k <= Len(x) THEN x[k] ELSE y[k - Len(x)]
    BY ConcatProperties
  <2>2. \A k \in 1..Len(x) : k \in 1..Len(x) + Len(y) /\ k <= Len(x)
    BY <2>1
  <2>3. \A k \in 1..Len(y) : /\ Len(x) + k \in 1..Len(x) + Len(y) /\ ~ (Len(x) + k <= Len(x))
                             /\ Len(x) + k - Len(x) = k
    BY <2>1
  <2>4. QED
    BY <2>1, <2>2, <2>3
<1> DEFINE ab == a \o b
           abc == ab \o c
           abcd == abc \o d
           w == abcd \o e
           q == p + Len(c)
           r == q + Len(d)
<1>1. /\ Len(a) \in Nat /\ Len(b) \in Nat /\ Len(c) \in Nat /\ Len(d) \in Nat /\ Len(e) \in Nat
      /\ ab \in Seq(S) /\ Len(ab) = p
      /\ \A k \in 1..Len(a) : ab[k] = a[k]
      /\ \A k \in 1..Len(b) : ab[Len(a) + k] = b[k]
  BY <1>0
<1> HIDE DEF ab
<1> HIDE DEF q, r
<1>2. /\ abc \in Seq(S) /\ Len(abc) = q
      /\ \A k \in 1..p : abc[k] = ab[k]
      /\ \A k \in 1..Len(c) : abc[p + k] = c[k]
  <2>0. q = p + Len(c)
    BY DEF q
  <2>1. /\ abc \in Seq(S) /\ Len(abc) = Len(ab) + Len(c)
        /\ \A k \in 1..Len(ab) : abc[k] = ab[k]
        /\ \A k \in 1..Len(c) : abc[Len(ab) + k] = c[k]
    BY <1>0, <1>1
  <2>2. QED
    BY <1>1, <2>0, <2>1, Zenon
<1> HIDE DEF abc
<1>3. /\ abcd \in Seq(S) /\ Len(abcd) = r
      /\ \A k \in 1..q : abcd[k] = abc[k]
      /\ \A k \in 1..Len(d) : abcd[q + k] = d[k]
  <2>0. r = q + Len(d)
    BY DEF r
  <2>1. /\ abcd \in Seq(S) /\ Len(abcd) = Len(abc) + Len(d)
        /\ \A k \in 1..Len(abc) : abcd[k] = abc[k]
        /\ \A k \in 1..Len(d) : abcd[Len(abc) + k] = d[k]
    BY <1>0, <1>1, <1>2
  <2>2. QED
    BY <1>2, <2>0, <2>1, Zenon
<1> HIDE DEF abcd
<1>4. /\ Len(w) = r + Len(e)
      /\ \A k \in 1..r : w[k] = abcd[k]
      /\ \A k \in 1..Len(e) : w[r + k] = e[k]
  <2>1. /\ Len(w) = Len(abcd) + Len(e)
        /\ \A k \in 1..Len(abcd) : w[k] = abcd[k]
        /\ \A k \in 1..Len(e) : w[Len(abcd) + k] = e[k]
    BY <1>0, <1>1, <1>3
  <2>2. QED
    BY <1>3, <2>1, Zenon
<1> HIDE DEF w
<1>5. \A k \in 1..Len(a) : w[k] = a[k]
  <2>1. \A k \in 1..Len(a) : k \in 1..p /\ k \in 1..q /\ k \in 1..r
    BY <1>1 DEF q, r
  <2>2. QED
    BY <1>1, <1>2, <1>3, <1>4, <2>1
<1>6. \A k \in 1..Len(b) : w[Len(a) + k] = b[k]
  <2>1. \A k \in 1..Len(b) : Len(a) + k \in 1..p /\ Len(a) + k \in 1..q /\ Len(a) + k \in 1..r
    BY <1>1 DEF q, r
  <2>2. QED
    BY <1>1, <1>2, <1>3, <1>4, <2>1, SMTT(40)
<1>7. \A k \in 1..Len(c) : w[p + k] = c[k]
  <2>1. \A k \in 1..Len(c) : p + k \in 1..q /\ p + k \in 1..r
    BY <1>1 DEF q, r
  <2>2. QED
    BY <1>2, <1>3, <1>4, <2>1
<1>8. \A k \in 1..Len(d) : w[q + k] = d[k]
  <2>1. \A k \in 1..Len(d) : q + k \in 1..r
    BY <1>1 DEF q, r
  <2>2. QED
    BY <1>3, <1>4, <2>1
<1>9. QED
  BY <1>4, <1>5, <1>6, <1>7, <1>8, Zenon DEF Joins, w, abcd, abc, ab, q, r

-----------------------------------------------------------------------------
(* What a tag is spelled with                                              *)

Name(tag)  == Delimiters(tag.kind).name
Open(tag)  == Delimiters(tag.kind).open
Close(tag) == Delimiters(tag.kind).close

LEMMA DelimitersOf ==
    ASSUME NEW tag \in Tag
    PROVE  /\ tag.kind \in {"block", "comment", "endraw", "variable", "raw"}
           /\ tag.open \in Signs /\ tag.close \in Signs
           /\ tag.kind \in {"variable", "raw"} => tag.close # "+"
           /\ tag.kind = "variable" =>
                  Name(tag) = <<" ", "x", " ">> /\ Open(tag) = <<"{", "{">> /\ Close(tag) = <<"}", "}">>
           /\ tag.kind = "comment" =>
                  Name(tag) = <<" ", "nl">> /\ Open(tag) = <<"{", "#">> /\ Close(tag) = <<"#", "}">>
           /\ tag.kind = "block" =>
                  Name(tag) = <<"x">> /\ Open(tag) = <<"{", "%">> /\ Close(tag) = <<"%", "}">>
           /\ tag.kind = "raw" =>
                  Name(tag) = <<" ", "raw">> /\ Open(tag) = <<"{", "%">> /\ Close(tag) = <<"%", "}">>
           /\ tag.kind = "endraw" =>
                  Name(tag) = <<"endraw", " ">> /\ Open(tag) = <<"{", "%">> /\ Close(tag) = <<"%", "}">>
<1>1. tag.kind \in {"block", "comment", "endraw", "variable", "raw"}
      /\ tag.open \in Signs /\ tag.close \in Signs
  BY DEF Tag, Signs
<1>2. tag.kind \in {"variable", "raw"} => tag.close # "+"
  <2>1. ASSUME tag.kind \in {"variable", "raw"} PROVE tag.close \in {"", "-"}
    <3>1. tag.kind \notin {"block", "comment", "endraw"}
      BY <2>1, Zenon
    <3>2. QED
      BY <3>1 DEF Tag
  <2>2. "+" \notin {"", "-"}
    BY Zenon
  <2>3. QED
    BY <2>1, <2>2
<1>3. CASE tag.kind = "variable"
  BY <1>1, <1>2, <1>3, Zenon DEF Name, Open, Close, Delimiters, variable_start_string, variable_end_string
<1>4. CASE tag.kind = "comment"
  BY <1>1, <1>2, <1>4, Zenon DEF Name, Open, Close, Delimiters, comment_start_string, comment_end_string
<1>5. CASE tag.kind = "block"
  BY <1>1, <1>2, <1>5, Zenon DEF Name, Open, Close, Delimiters, block_start_string, block_end_string
<1>6. CASE tag.kind = "raw"
  BY <1>1, <1>2, <1>6, Zenon DEF Name, Open, Close, Delimiters, block_start_string, block_end_string
<1>7. CASE tag.kind = "endraw"
  BY <1>1, <1>2, <1>7, Zenon DEF Name, Open, Close, Delimiters, block_start_string, block_end_string
<1>8. QED
  BY <1>1, <1>3, <1>4, <1>5, <1>6, <1>7

(* What tags are spelled with.                                             *)
Marks == {" ", "x", "nl", "raw", "endraw", "{", "}", "#", "%", "-", "+"}
NoSign(s) == s = ""

LEMMA ThreeItems ==
    ASSUME NEW S, NEW x \in S, NEW y \in S, NEW z \in S
    PROVE  /\ <<x>> \in Seq(S) /\ Len(<<x>>) = 1 /\ <<x>>[1] = x
           /\ <<x, y>> \in Seq(S) /\ Len(<<x, y>>) = 2 /\ <<x, y>>[1] = x /\ <<x, y>>[2] = y
           /\ <<x, y, z>> \in Seq(S) /\ Len(<<x, y, z>>) = 3
           /\ <<x, y, z>>[1] = x /\ <<x, y, z>>[2] = y /\ <<x, y, z>>[3] = z
  OBVIOUS

LEMMA DelimiterSizes ==
    ASSUME NEW tag \in Tag
    PROVE  /\ Name(tag) \in Seq(Marks) /\ Len(Name(tag)) \in 1..3
           /\ Open(tag) \in Seq(Marks) /\ Len(Open(tag)) = 2
           /\ Close(tag) \in Seq(Marks) /\ Len(Close(tag)) = 2
<1>1. /\ " " \in Marks /\ "x" \in Marks /\ "nl" \in Marks /\ "raw" \in Marks /\ "endraw" \in Marks
      /\ "{" \in Marks /\ "}" \in Marks /\ "#" \in Marks /\ "%" \in Marks
  BY Zenon DEF Marks
<1>2. /\ \A x \in Marks : <<x>> \in Seq(Marks) /\ Len(<<x>>) = 1
      /\ \A x, y \in Marks : <<x, y>> \in Seq(Marks) /\ Len(<<x, y>>) = 2
      /\ \A x, y, z \in Marks : <<x, y, z>> \in Seq(Marks) /\ Len(<<x, y, z>>) = 3
  BY ThreeItems, Zenon
<1>3. 1 \in 1..3 /\ 2 \in 1..3 /\ 3 \in 1..3
  OBVIOUS
<1>4. CASE tag.kind = "variable"
  <2>1. Name(tag) = <<" ", "x", " ">>
    BY <1>4, DelimitersOf, Zenon
  <2>2. Open(tag) = <<"{", "{">>
    BY <1>4, DelimitersOf, Zenon
  <2>3. Close(tag) = <<"}", "}">>
    BY <1>4, DelimitersOf, Zenon
  <2>4. Name(tag) \in Seq(Marks) /\ Len(Name(tag)) \in 1..3
    BY <1>1, <1>2, <1>3, <2>1, Zenon
  <2>5. Open(tag) \in Seq(Marks) /\ Len(Open(tag)) = 2
    BY <1>1, <1>2, <2>2, Zenon
  <2>6. Close(tag) \in Seq(Marks) /\ Len(Close(tag)) = 2
    BY <1>1, <1>2, <2>3, Zenon
  <2>7. QED
    BY <2>4, <2>5, <2>6, Zenon
<1>5. CASE tag.kind = "comment"
  <2>1. Name(tag) = <<" ", "nl">>
    BY <1>5, DelimitersOf, Zenon
  <2>2. Open(tag) = <<"{", "#">>
    BY <1>5, DelimitersOf, Zenon
  <2>3. Close(tag) = <<"#", "}">>
    BY <1>5, DelimitersOf, Zenon
  <2>4. Name(tag) \in Seq(Marks) /\ Len(Name(tag)) \in 1..3
    BY <1>1, <1>2, <1>3, <2>1, Zenon
  <2>5. Open(tag) \in Seq(Marks) /\ Len(Open(tag)) = 2
    BY <1>1, <1>2, <2>2, Zenon
  <2>6. Close(tag) \in Seq(Marks) /\ Len(Close(tag)) = 2
    BY <1>1, <1>2, <2>3, Zenon
  <2>7. QED
    BY <2>4, <2>5, <2>6, Zenon
<1>6. CASE tag.kind = "block"
  <2>1. Name(tag) = <<"x">>
    BY <1>6, DelimitersOf, Zenon
  <2>2. Open(tag) = <<"{", "%">>
    BY <1>6, DelimitersOf, Zenon
  <2>3. Close(tag) = <<"%", "}">>
    BY <1>6, DelimitersOf, Zenon
  <2>4. Name(tag) \in Seq(Marks) /\ Len(Name(tag)) \in 1..3
    BY <1>1, <1>2, <1>3, <2>1, Zenon
  <2>5. Open(tag) \in Seq(Marks) /\ Len(Open(tag)) = 2
    BY <1>1, <1>2, <2>2, Zenon
  <2>6. Close(tag) \in Seq(Marks) /\ Len(Close(tag)) = 2
    BY <1>1, <1>2, <2>3, Zenon
  <2>7. QED
    BY <2>4, <2>5, <2>6, Zenon
<1>7. CASE tag.kind = "raw"
  <2>1. Name(tag) = <<" ", "raw">>
    BY <1>7, DelimitersOf, Zenon
  <2>2. Open(tag) = <<"{", "%">>
    BY <1>7, DelimitersOf, Zenon
  <2>3. Close(tag) = <<"%", "}">>
    BY <1>7, DelimitersOf, Zenon
  <2>4. Name(tag) \in Seq(Marks) /\ Len(Name(tag)) \in 1..3
    BY <1>1, <1>2, <1>3, <2>1, Zenon
  <2>5. Open(tag) \in Seq(Marks) /\ Len(Open(tag)) = 2
    BY <1>1, <1>2, <2>2, Zenon
  <2>6. Close(tag) \in Seq(Marks) /\ Len(Close(tag)) = 2
    BY <1>1, <1>2, <2>3, Zenon
  <2>7. QED
    BY <2>4, <2>5, <2>6, Zenon
<1>8. CASE tag.kind = "endraw"
  <2>1. Name(tag) = <<"endraw", " ">>
    BY <1>8, DelimitersOf, Zenon
  <2>2. Open(tag) = <<"{", "%">>
    BY <1>8, DelimitersOf, Zenon
  <2>3. Close(tag) = <<"%", "}">>
    BY <1>8, DelimitersOf, Zenon
  <2>4. Name(tag) \in Seq(Marks) /\ Len(Name(tag)) \in 1..3
    BY <1>1, <1>2, <1>3, <2>1, Zenon
  <2>5. Open(tag) \in Seq(Marks) /\ Len(Open(tag)) = 2
    BY <1>1, <1>2, <2>2, Zenon
  <2>6. Close(tag) \in Seq(Marks) /\ Len(Close(tag)) = 2
    BY <1>1, <1>2, <2>3, Zenon
  <2>7. QED
    BY <2>4, <2>5, <2>6, Zenon
<1>9. QED
  BY <1>4, <1>5, <1>6, <1>7, <1>8, DelimitersOf

LEMMA SignOf ==
    ASSUME NEW s \in Signs
    PROVE  /\ NoSign(s) => Sign(s) = <<>>
           /\ ~ NoSign(s) => Sign(s) = <<s>> /\ s \in Marks
<1>1. NoSign(s) => Sign(s) = <<>>
  BY Zenon DEF Sign, NoSign
<1>2. ~ NoSign(s) => Sign(s) = <<s>>
  BY Zenon DEF Sign, NoSign
<1>3. ~ NoSign(s) => s \in Marks
  BY Zenon DEF Signs, NoSign, Marks
<1>4. QED
  BY <1>1, <1>2, <1>3

(* Where the parts of a spelled tag are.                                   *)
OpenSize(tag) == IF NoSign(tag.open) THEN 2 ELSE 3
CloseSize(tag) == IF NoSign(tag.close) THEN 2 ELSE 3
Parts(w, tag, m, l, n) ==
    /\ Len(w) = m + l + n /\ m \in {2, 3} /\ n \in {2, 3}
    /\ w[1] = Open(tag)[1] /\ w[2] = Open(tag)[2]
    /\ ~ NoSign(tag.open) => w[3] = tag.open
    /\ \A k \in 1..l : w[m + k] = Name(tag)[k]
    /\ ~ NoSign(tag.close) => w[m + l + 1] = tag.close
    /\ w[m + l + n - 1] = Close(tag)[1] /\ w[m + l + n] = Close(tag)[2]
LEMMA SpelledOf ==
    ASSUME NEW tag \in Tag
    PROVE  Parts(Spelled(tag), tag, OpenSize(tag), Len(Name(tag)), CloseSize(tag))
<1> DEFINE a == Open(tag)
           b == Sign(tag.open)
           c == Name(tag)
           d == Sign(tag.close)
           z == Close(tag)
           w == a \o b \o c \o d \o z
<1>1. w = Spelled(tag)
  BY DEF Spelled, Name, Open, Close
<1>2. tag.open \in Signs /\ tag.close \in Signs
  BY DelimitersOf
<1>3. /\ a \in Seq(Marks) /\ Len(a) = 2 /\ c \in Seq(Marks) /\ Len(c) \in 1..3
      /\ z \in Seq(Marks) /\ Len(z) = 2
  BY DelimiterSizes
<1>4. ASSUME NEW s \in Signs
      PROVE  /\ Sign(s) \in Seq(Marks) /\ Len(Sign(s)) = IF NoSign(s) THEN 0 ELSE 1
             /\ ~ NoSign(s) => Sign(s)[1] = s
  <2>1. CASE NoSign(s)
    <3>1. <<>> \in Seq(Marks) /\ Len(<<>>) = 0
      OBVIOUS
    <3>2. QED
      BY <2>1, <3>1, SignOf
  <2>2. CASE ~ NoSign(s)
    <3>1. Sign(s) = <<s>> /\ s \in Marks
      BY <2>2, SignOf
    <3>2. <<s>> \in Seq(Marks) /\ Len(<<s>>) = 1 /\ <<s>>[1] = s
      BY <3>1, ThreeItems, Zenon
    <3>3. QED
      BY <2>2, <3>1, <3>2
  <2>3. QED
    BY <2>1, <2>2
<1> HIDE DEF a, c, z
<1>5. /\ b \in Seq(Marks) /\ Len(b) = OpenSize(tag) - 2 /\ OpenSize(tag) \in {2, 3}
      /\ ~ NoSign(tag.open) => b[1] = tag.open
      /\ d \in Seq(Marks) /\ Len(d) = CloseSize(tag) - 2 /\ CloseSize(tag) \in {2, 3}
      /\ ~ NoSign(tag.close) => d[1] = tag.close
      /\ ~ NoSign(tag.open) => OpenSize(tag) = 3
      /\ ~ NoSign(tag.close) => CloseSize(tag) = 3
  <2>1. b \in Seq(Marks) /\ d \in Seq(Marks)
    BY <1>2, <1>4
  <2>2. /\ Len(b) = OpenSize(tag) - 2 /\ OpenSize(tag) \in {2, 3}
        /\ ~ NoSign(tag.open) => b[1] = tag.open /\ OpenSize(tag) = 3
    <3>1. CASE NoSign(tag.open)
      <4>1. OpenSize(tag) = 2
        BY <3>1 DEF OpenSize
      <4>2. Len(b) = 0
        BY <1>2, <1>4, <3>1
      <4>3. QED
        BY <3>1, <4>1, <4>2
    <3>2. CASE ~ NoSign(tag.open)
      <4>1. OpenSize(tag) = 3
        BY <3>2 DEF OpenSize
      <4>2. Len(b) = 1 /\ b[1] = tag.open
        BY <1>2, <1>4, <3>2
      <4>3. QED
        BY <3>2, <4>1, <4>2
    <3>3. QED
      BY <3>1, <3>2
  <2>3. /\ Len(d) = CloseSize(tag) - 2 /\ CloseSize(tag) \in {2, 3}
        /\ ~ NoSign(tag.close) => d[1] = tag.close /\ CloseSize(tag) = 3
    <3>1. CASE NoSign(tag.close)
      <4>1. CloseSize(tag) = 2
        BY <3>1 DEF CloseSize
      <4>2. Len(d) = 0
        BY <1>2, <1>4, <3>1
      <4>3. QED
        BY <3>1, <4>1, <4>2
    <3>2. CASE ~ NoSign(tag.close)
      <4>1. CloseSize(tag) = 3
        BY <3>2 DEF CloseSize
      <4>2. Len(d) = 1 /\ d[1] = tag.close
        BY <1>2, <1>4, <3>2
      <4>3. QED
        BY <3>2, <4>1, <4>2
    <3>3. QED
      BY <3>1, <3>2
  <2> HIDE DEF b, d
  <2>4. QED
    BY <2>1, <2>2, <2>3
<1> DEFINE m == OpenSize(tag)
           n == CloseSize(tag)
<1> HIDE DEF a, b, c, d, z, w, m, n
<1>6. /\ Len(a) = 2 /\ Len(b) = m - 2 /\ Len(d) = n - 2 /\ Len(z) = 2 /\ Len(c) \in Nat
      /\ m \in {2, 3} /\ n \in {2, 3}
  BY <1>3, <1>5 DEF m, n
<1>7. /\ Len(w) = m + Len(c) + Len(d) + Len(z)
      /\ \A k \in 1..Len(a) : w[k] = a[k]
      /\ \A k \in 1..Len(b) : w[Len(a) + k] = b[k]
      /\ \A k \in 1..Len(c) : w[m + k] = c[k]
      /\ \A k \in 1..Len(d) : w[m + Len(c) + k] = d[k]
      /\ \A k \in 1..Len(z) : w[m + Len(c) + Len(d) + k] = z[k]
  <2>1. /\ a \in Seq(Marks) /\ b \in Seq(Marks) /\ c \in Seq(Marks) /\ d \in Seq(Marks) /\ z \in Seq(Marks)
    BY <1>3, <1>5
  <2>2. m = Len(a) + Len(b)
    BY <1>6
  <2>3. Joins(w, a, b, c, d, z, m)
    BY <2>1, <2>2, Joined DEF w
  <2>4. QED
    BY <2>3 DEF Joins
<1>8. /\ Len(w) = m + Len(c) + n /\ w[1] = a[1] /\ w[2] = a[2]
      /\ \A k \in 1..Len(c) : w[m + k] = c[k]
      /\ w[m + Len(c) + n - 1] = z[1] /\ w[m + Len(c) + n] = z[2]
  BY <1>6, <1>7
<1>9. /\ m = 3 => w[3] = b[1]
      /\ n = 3 => w[m + Len(c) + 1] = d[1]
  BY <1>6, <1>7
<1>10. /\ ~ NoSign(tag.open) => w[3] = tag.open
       /\ ~ NoSign(tag.close) => w[m + Len(c) + 1] = tag.close
  BY <1>5, <1>9 DEF m, n
<1>11. QED
  BY <1>1, <1>6, <1>8, <1>10 DEF a, c, z, m, n, Parts

-----------------------------------------------------------------------------
(* The source of a template                                                *)

LEMMA Ascending ==
    ASSUME NEW n \in Nat, NEW f, \A i \in 1..n : f[i] \in Nat,
           \A i \in 1..n : i + 1 <= n => f[i] <= f[i + 1]
    PROVE  \A i, j \in 1..n : i <= j => f[i] <= f[j]
<1>1. SUFFICES ASSUME NEW i \in 1..n, NEW k \in 1..n, i <= k, ~ (f[i] <= f[k])
               PROVE  FALSE
  OBVIOUS
<1> DEFINE J == {j \in i..n : ~ (f[i] <= f[j])}
<1>2. J \in SUBSET Nat /\ k \in J
  BY <1>1
<1>3. Min(J) \in J /\ \A j \in J : Min(J) <= j
  BY <1>2, MinIn
<1>4. PICK m \in J : \A j \in J : m <= j
  BY <1>3
<1>5. m \in i..n /\ ~ (f[i] <= f[m]) /\ m # i /\ m - 1 \in i..n /\ m - 1 \notin J
  BY <1>1, <1>4
<1>6. f[i] <= f[m - 1] /\ f[m - 1] <= f[m]
  BY <1>5
<1>7. QED
  BY <1>5, <1>6

LEMMA SpelledSize ==
    ASSUME Template, NEW i \in 1..Len(tags)
    PROVE  Len(Spelled(tags[i])) \in Nat /\ Len(Spelled(tags[i])) > 0
<1>1. tags[i] \in Tag
  BY SizeOfTemplate
<1>2. /\ OpenSize(tags[i]) \in {2, 3} /\ CloseSize(tags[i]) \in {2, 3}
      /\ Len(Spelled(tags[i])) = OpenSize(tags[i]) + Len(Name(tags[i])) + CloseSize(tags[i])
  BY <1>1, SpelledOf DEF Parts
<1>3. Len(Name(tags[i])) \in 1..3
  BY <1>1, DelimiterSizes
<1>4. QED
  BY <1>2, <1>3

LEMMA CloseEnds ==
    ASSUME NEW tag \in Tag
    PROVE  Close(tag)[2] # "nl" /\ Close(tag)[2] # None
<1>1. "}" # "nl" /\ "}" # None
  BY Zenon DEF None
<1>2. \A x, y : <<x, y>>[2] = y
  OBVIOUS
<1>3. \E x : Close(tag) = <<x, "}">>
  BY DelimitersOf, Zenon
<1>4. PICK x : Close(tag) = <<x, "}">>
  BY <1>3
<1>5. Close(tag)[2] = "}"
  BY <1>2, <1>4, Zenon
<1>6. QED
  BY <1>1, <1>5, Zenon

(* Places, sizes of texts and of tags, and where each tag is.              *)
LEMMA Places ==
    ASSUME Template, NEW size \in Nat, places \in Seq(Nat \ {0}), Len(places) = Len(texts),
           places[1] = 1,
           \A i \in 1..Len(tags) : places[i + 1] = TagPlace(i) + Len(Spelled(tags[i])),
           size = TagPlace(Len(texts)) - 1
    PROVE  /\ \A i \in 1..Len(texts) :
                  /\ places[i] \in Nat \ {0} /\ Len(texts[i]) \in Nat
                  /\ TagPlace(i) = places[i] + Len(texts[i])
                  /\ places[i] <= TagPlace(i) /\ TagPlace(i) <= size + 1
           /\ \A i \in 1..Len(tags) :
                  /\ i \in 1..Len(texts) /\ i + 1 \in 1..Len(texts) /\ i # Len(texts)
                  /\ TagPlace(i) < places[i + 1] /\ places[i + 1] <= places[Len(texts)]
           /\ \A i \in 1..Len(texts) : i = Len(texts) \/ i \in 1..Len(tags)
           /\ Len(texts) \in 1..Len(texts) /\ TagPlace(Len(texts)) = size + 1
<1> DEFINE n == Len(texts)
           m == Len(tags)
           W(i) == Len(Spelled(tags[i]))
<1>1. m \in Nat /\ n = m + 1
  BY SizeOfTemplate
<1>2. ASSUME NEW i \in 1..n
      PROVE  places[i] \in Nat \ {0} /\ Len(texts[i]) \in Nat /\ TagPlace(i) = places[i] + Len(texts[i])
  <2>1. Len(texts[i]) \in Nat
    BY SizeOfTemplate
  <2>2. places[i] \in Nat \ {0}
    OBVIOUS
  <2>3. TagPlace(i) = places[i] + Len(texts[i])
    BY DEF TagPlace
  <2>4. QED
    BY <2>1, <2>2, <2>3
<1>3. ASSUME NEW i \in 1..n
      PROVE  TagPlace(i) \in Nat \ {0} /\ places[i] <= TagPlace(i)
  BY <1>2
<1>4. ASSUME NEW i \in 1..m
      PROVE  W(i) \in Nat /\ W(i) > 0
  BY SpelledSize
<1>5. ASSUME NEW i \in 1..m
      PROVE  i \in 1..n /\ i + 1 \in 1..n /\ i # n /\ i + 1 <= n
  <2> HIDE DEF n, m
  <2>1. QED
    BY <1>1
<1>6. \A i \in 1..m : places[i + 1] = TagPlace(i) + W(i)
  OBVIOUS
<1>7. \A i \in 1..n : i = n \/ i \in 1..m
  <2> HIDE DEF n, m
  <2>1. QED
    BY <1>1
<1>8. size = TagPlace(n) - 1 /\ n \in 1..n
  <2>1. n \in 1..n
    <3> HIDE DEF n, m
    <3>1. QED
      BY <1>1
  <2>2. QED
    BY <2>1
<1> HIDE DEF n, m, W
<1>9. ASSUME NEW i \in 1..m
      PROVE  TagPlace(i) < places[i + 1]
  <2>1. W(i) \in Nat /\ W(i) > 0 /\ places[i + 1] = TagPlace(i) + W(i) /\ TagPlace(i) \in Nat
    BY <1>3, <1>4, <1>5, <1>6
  <2>2. QED
    BY <2>1
<1>10. \A i, j \in 1..n : i <= j => places[i] <= places[j]
  <2>1. \A i \in 1..n : i + 1 <= n => places[i] <= places[i + 1]
    <3>1. ASSUME NEW i \in 1..n, i + 1 <= n PROVE places[i] <= places[i + 1]
      <4>1. i \in 1..m
        BY <1>1, <3>1
      <4>2. places[i] <= TagPlace(i) /\ TagPlace(i) < places[i + 1]
        BY <1>3, <1>9, <4>1
      <4>3. places[i] \in Nat /\ TagPlace(i) \in Nat /\ places[i + 1] \in Nat
        BY <1>2, <1>3, <1>5, <4>1
      <4>4. QED
        BY <4>2, <4>3
    <3>2. QED
      BY <3>1
  <2>2. n \in Nat /\ \A i \in 1..n : places[i] \in Nat
    BY <1>1, <1>2
  <2>3. QED
    BY <2>1, <2>2, Ascending
<1>11. ASSUME NEW i \in 1..m
       PROVE  places[i + 1] <= places[n]
  <2>1. i + 1 \in 1..n /\ n \in 1..n /\ i + 1 <= n
    BY <1>5, <1>8
  <2>2. QED
    BY <1>10, <2>1
<1>12. places[n] <= TagPlace(n) /\ places[n] \in Nat /\ TagPlace(n) \in Nat /\ TagPlace(n) = size + 1
  <2>1. places[n] <= TagPlace(n) /\ places[n] \in Nat /\ TagPlace(n) \in Nat /\ size = TagPlace(n) - 1
    BY <1>2, <1>3, <1>8
  <2>2. QED
    BY <2>1
<1>13. ASSUME NEW i \in 1..n
       PROVE  TagPlace(i) <= size + 1
  <2>1. CASE i = n
    BY <1>12, <2>1
  <2>2. CASE i \in 1..m
    <3>1. TagPlace(i) < places[i + 1] /\ places[i + 1] <= places[n]
      BY <1>9, <1>11, <2>2
    <3>2. TagPlace(i) \in Nat /\ places[i + 1] \in Nat
      BY <1>2, <1>3, <1>5, <2>2
    <3>3. QED
      BY <1>12, <3>1, <3>2
  <2>3. QED
    BY <1>7, <2>1, <2>2
<1>14. QED
  BY <1>2, <1>3, <1>5, <1>7, <1>8, <1>9, <1>11, <1>12, <1>13 DEF n, m

LEMMA LaidInit ==
    ASSUME TemplateInit
    PROVE  Laid
<1>1. PICK symbols \in Seq(Symbols) : Layout(symbols) /\ Start(symbols, "root")
  BY DEF TemplateInit, Character, Symbols
<1>2. Template
  BY DEF TemplateInit
<1> DEFINE n == Len(texts)
           m == Len(tags)
           size == Len(symbols)
           last == Len(source)
           W(i) == Len(Spelled(tags[i]))
           T(i) == Len(texts[i])
<1>3. /\ places \in Seq(Nat \ {0}) /\ Len(places) = Len(texts) /\ places[1] = 1
      /\ \A i \in 1..n : SubSeq(symbols, places[i], TagPlace(i) - 1) = texts[i]
      /\ \A i \in 1..m : places[i + 1] = TagPlace(i) + W(i)
      /\ \A i \in 1..m : SubSeq(symbols, TagPlace(i), places[i + 1] - 1) = Spelled(tags[i])
      /\ size = TagPlace(n) - 1
  BY <1>1 DEF Layout
<1>4. source = Lines(symbols)
  BY <1>1 DEF Start
<1>5. /\ \A i \in 1..n :
              /\ places[i] \in Nat \ {0} /\ T(i) \in Nat /\ TagPlace(i) = places[i] + T(i)
              /\ places[i] <= TagPlace(i) /\ TagPlace(i) <= size + 1
      /\ \A i \in 1..m :
              /\ i \in 1..n /\ i + 1 \in 1..n /\ i # n
              /\ TagPlace(i) < places[i + 1] /\ places[i + 1] <= places[n]
      /\ \A i \in 1..n : i = n \/ i \in 1..m
      /\ n \in 1..n /\ TagPlace(n) = size + 1
  <2>1. size \in Nat
    OBVIOUS
  <2>2. QED
    BY <1>2, <1>3, <2>1, Places
<1>6. /\ \A i \in 1..n : texts[i] \in Seq(Symbols) /\ (T(i) = 0 => texts[i] = <<>>)
      /\ size \in Nat /\ (size = 0 <=> symbols = <<>>) /\ n = m + 1 /\ m \in Nat
  <2>1. ASSUME NEW i \in 1..n PROVE texts[i] \in Seq(Symbols) /\ (T(i) = 0 => texts[i] = <<>>)
    <3>1. texts[i] \in Seq(Symbols)
      BY <1>2, SizeOfTemplate
    <3>2. QED
      BY <3>1
  <2>2. n = m + 1 /\ m \in Nat
    BY <1>2, SizeOfTemplate
  <2>3. QED
    BY <2>1, <2>2
<1>7. ASSUME NEW i \in 1..m PROVE W(i) \in Nat /\ W(i) > 0 /\ tags[i] \in Tag
  BY <1>2, SpelledSize, SizeOfTemplate
<1>8. ASSUME NEW a \in 1..(size + 1), NEW b \in a..(size + 1)
      PROVE  \A k \in 1..(b - a) : SubSeq(symbols, a, b - 1)[k] = symbols[a + k - 1]
  BY Part
<1>9. /\ source \in Seq(Symbols) /\ last \in {size, size - 1} /\ last \in Nat
      /\ \A k \in 1..last : source[k] = symbols[k]
      /\ last = size - 1 <=>
             ~ options.keep_trailing_newline /\ symbols # <<>> /\ symbols[size] = "nl"
  <2>1. source \in Seq(Symbols)
    BY <1>1, <1>4, LinesOf
  <2>2. last \in Nat
    BY <2>1
  <2>3. QED
    BY <1>1, <1>4, <2>1, <2>2, LinesOf
<1>10. TextAt(n) = Lines(texts[n]) /\ \A i \in 1..m : TextAt(i) = texts[i]
  BY <1>5 DEF TextAt
<1> DEFINE t == Len(TextAt(n))
<1>11. /\ TextAt(n) \in Seq(Symbols) /\ t \in {T(n), T(n) - 1} /\ t \in Nat
       /\ \A k \in 1..t : TextAt(n)[k] = texts[n][k]
       /\ texts[n] = <<>> => TextAt(n) = texts[n]
       /\ t = T(n) - 1 <=>
              ~ options.keep_trailing_newline /\ texts[n] # <<>> /\ texts[n][T(n)] = "nl"
  <2>1. texts[n] \in Seq(Symbols)
    BY <1>5, <1>6
  <2>2. Lines(texts[n]) \in Seq(Symbols)
    BY <2>1, LinesOf
  <2>3. t \in Nat
    BY <1>10, <2>2
  <2>4. QED
    BY <1>10, <2>1, <2>2, <2>3, LinesOf
<1>12. \A i \in 1..n : Stop(i) = places[i] + Len(TextAt(i))
  BY DEF Stop
<1> HIDE DEF n, m, size, last, W, T, t
<1>13. ASSUME NEW i \in 1..n
       PROVE  \A k \in 1..T(i) : texts[i][k] = symbols[places[i] + k - 1]
  <2> DEFINE a == places[i]
             b == TagPlace(i)
  <2>1. /\ a \in Nat \ {0} /\ T(i) \in Nat /\ b = a + T(i) /\ b <= size + 1 /\ size \in Nat
        /\ SubSeq(symbols, a, b - 1) = texts[i]
    BY <1>3, <1>5, <1>6
  <2> HIDE DEF a, b
  <2>2. a \in 1..(size + 1) /\ b \in a..(size + 1) /\ b - a = T(i)
    BY <2>1
  <2>3. \A k \in 1..(b - a) : SubSeq(symbols, a, b - 1)[k] = symbols[a + k - 1]
    BY <1>8, <2>2
  <2>4. \A k \in 1..T(i) : texts[i][k] = symbols[a + k - 1]
    BY <2>1, <2>2, <2>3
  <2>5. QED
    BY <2>4 DEF a
<1>14. ASSUME NEW i \in 1..m
       PROVE  /\ \A k \in 1..W(i) : Spelled(tags[i])[k] = symbols[TagPlace(i) + k - 1]
              /\ TagPlace(i) + W(i) <= places[n] /\ TagPlace(i) \in Nat \ {0}
  <2> DEFINE a == TagPlace(i)
             b == places[i + 1]
  <2>1. /\ i \in 1..n /\ i + 1 \in 1..n /\ b <= places[n] /\ places[n] <= TagPlace(n)
        /\ TagPlace(n) = size + 1 /\ n \in 1..n
    BY <1>5
  <2>2. b = a + W(i) /\ W(i) \in Nat /\ size \in Nat
    BY <1>3, <1>6, <1>7
  <2>9. SubSeq(symbols, a, b - 1) = Spelled(tags[i])
    BY <1>3
  <2>3. places[i] \in Nat \ {0} /\ T(i) \in Nat /\ a = places[i] + T(i) /\ places[n] \in Nat /\ b \in Nat
    BY <1>5, <2>1
  <2> HIDE DEF a, b
  <2> DEFINE p == places[i]
             r == places[n]
             e == TagPlace(n)
  <2>0. a \in Nat \ {0} /\ b <= size + 1
    <3> DEFINE y == T(i)
    <3>1. p \in Nat \ {0} /\ a = p + y /\ y \in Nat
      BY <2>3
    <3>2. r \in Nat /\ b <= r /\ r <= e /\ e = size + 1 /\ b \in Nat /\ size \in Nat
      BY <2>1, <2>2, <2>3
    <3> HIDE DEF p, r, e, y
    <3>3. a \in Nat \ {0}
      BY <3>1
    <3>4. b <= size + 1
      BY <3>2
    <3>5. QED
      BY <3>3, <3>4
  <2>4. a \in 1..(size + 1) /\ b \in a..(size + 1) /\ b - a = W(i) /\ a \in Nat \ {0}
    <3> DEFINE y == W(i)
    <3>1. a \in Nat \ {0} /\ b <= size + 1 /\ b = a + y /\ y \in Nat /\ size \in Nat
      BY <2>0, <2>2
    <3> HIDE DEF y
    <3>2. a \in 1..(size + 1) /\ b \in a..(size + 1) /\ b - a = y /\ a \in Nat \ {0}
      BY <3>1
    <3>3. QED
      BY <3>2 DEF y
  <2>5. \A k \in 1..(b - a) : SubSeq(symbols, a, b - 1)[k] = symbols[a + k - 1]
    BY <1>8, <2>4
  <2>6. \A k \in 1..W(i) : Spelled(tags[i])[k] = symbols[a + k - 1]
    BY <2>9, <2>4, <2>5
  <2>7. a + W(i) <= places[n]
    BY <2>1, <2>2
  <2>8. QED
    BY <2>4, <2>6, <2>7 DEF a
<1>15. places[n] \in Nat \ {0} /\ T(n) \in Nat /\ TagPlace(n) = places[n] + T(n) /\ size = places[n] + T(n) - 1
  <2>1. places[n] \in Nat \ {0} /\ T(n) \in Nat /\ TagPlace(n) = places[n] + T(n) /\ TagPlace(n) = size + 1
    BY <1>5
  <2>2. QED
    BY <1>6, <2>1
<1>16. places[n] + t = last + 1
  <2>1. CASE T(n) # 0
    <3>1. T(n) \in 1..T(n) /\ size # 0 /\ places[n] + T(n) - 1 = size
      BY <1>6, <1>15, <2>1
    <3>2. texts[n][T(n)] = symbols[size]
      BY <1>5, <1>13, <3>1
    <3>3. texts[n] # <<>> /\ symbols # <<>>
      <4>1. Len(<<>>) = 0
        OBVIOUS
      <4>2. QED
        BY <1>6, <2>1, <3>1, <4>1 DEF T
    <3>4. last = size - 1 <=> t = T(n) - 1
      BY <1>9, <1>11, <3>2, <3>3, Zenon
    <3>5. last \in {size, size - 1} /\ t \in {T(n), T(n) - 1}
      BY <1>9, <1>11
    <3> DEFINE p == places[n]
    <3>6. p \in Nat /\ T(n) \in Nat /\ size \in Nat /\ p + T(n) - 1 = size
      BY <1>6, <1>15, <3>1
    <3> HIDE DEF p
    <3>7. p + t = last + 1
      BY <3>4, <3>5, <3>6
    <3>8. QED
      BY <3>7 DEF p
  <2>2. CASE T(n) = 0
    <3>1. t = 0 /\ places[n] = size + 1
      <4>1. texts[n] = <<>> /\ Len(<<>>) = 0
        BY <1>5, <1>6, <2>2
      <4>2. QED
        BY <1>6, <1>11, <1>15, <2>2, <4>1 DEF t
    <3>2. CASE n = 1
      <4>0. places[n] = 1
        BY <1>3, <3>2, Zenon
      <4>1. size = 0
        BY <1>6, <3>1, <4>0
      <4>2. QED
        BY <1>9, <1>6, <3>1, <4>1
    <3>3. CASE n # 1
      <4> DEFINE w == Spelled(tags[m])
      <4>1. m \in 1..m /\ m + 1 = n
        BY <1>6, <3>3
      <4>2. tags[m] \in Tag /\ W(m) \in Nat /\ W(m) > 0
        BY <1>7, <4>1
      <4>3. w[W(m)] = Close(tags[m])[2]
        BY <4>2, SpelledOf DEF W, Parts
      <4>4. TagPlace(m) \in Nat /\ places[n] = TagPlace(m) + W(m)
        BY <1>3, <1>14, <4>1
      <4>5. W(m) \in 1..W(m) /\ TagPlace(m) + W(m) - 1 = size
        BY <1>6, <3>1, <4>2, <4>4
      <4>6. w[W(m)] = symbols[size]
        BY <1>14, <4>1, <4>5
      <4>7. symbols[size] # "nl"
        BY <4>2, <4>3, <4>6, CloseEnds
      <4>8. last = size
        BY <1>9, <4>7
      <4>9. QED
        BY <1>6, <3>1, <4>8
    <3>4. QED
      BY <3>2, <3>3
  <2>3. QED
    BY <2>1, <2>2
<1>17. ASSUME NEW i \in 1..n
       PROVE  /\ TextAt(i) \in Seq(Symbols) /\ Stop(i) <= TagPlace(i)
              /\ Stop(i) \in places[i]..(last + 1)
              /\ \A k \in 1..Len(TextAt(i)) : source[places[i] + k - 1] = TextAt(i)[k]
  <2>1. CASE i = n
    <3>1. /\ places[n] \in Nat \ {0} /\ T(n) \in Nat /\ TagPlace(n) = places[n] + T(n)
          /\ t \in {T(n), T(n) - 1} /\ t \in Nat /\ places[n] + t = last + 1 /\ Stop(n) = places[n] + t
          /\ last \in Nat
      BY <1>9, <1>11, <1>12, <1>15, <1>16, <2>1 DEF t
    <3>2. Stop(n) <= TagPlace(n) /\ Stop(n) \in places[n]..(last + 1)
      BY <3>1
    <3>3. ASSUME NEW k \in 1..t PROVE source[places[n] + k - 1] = TextAt(n)[k]
      <4> DEFINE p == places[n]
      <4>0. p \in Nat \ {0} /\ T(n) \in Nat /\ t \in Nat /\ t <= T(n) /\ p + t = last + 1 /\ last \in Nat
        BY <3>1
      <4> HIDE DEF p
      <4>1. k \in 1..T(n) /\ p + k - 1 \in 1..last
        BY <4>0
      <4> USE DEF p
      <4>2. TextAt(n)[k] = texts[n][k] /\ texts[n][k] = symbols[places[n] + k - 1]
        BY <1>11, <1>13, <2>1, <4>1
      <4>3. source[places[n] + k - 1] = symbols[places[n] + k - 1]
        BY <1>9, <4>1
      <4>4. QED
        BY <4>2, <4>3
    <3>4. QED
      BY <1>11, <2>1, <3>2, <3>3 DEF t
  <2>2. CASE i \in 1..m
    <3>1. TextAt(i) = texts[i] /\ Stop(i) = places[i] + T(i) /\ texts[i] \in Seq(Symbols)
      BY <1>6, <1>10, <1>12, <2>2 DEF T
    <3>2. /\ places[i] \in Nat \ {0} /\ T(i) \in Nat /\ TagPlace(i) = places[i] + T(i)
          /\ TagPlace(i) + W(i) <= places[n] /\ W(i) \in Nat
      BY <1>5, <1>7, <1>14, <2>2
    <3>3. places[n] <= last + 1 /\ last \in Nat /\ places[n] \in Nat
      BY <1>9, <1>11, <1>15, <1>16, SMTT(40)
    <3>4. Stop(i) <= TagPlace(i) /\ Stop(i) \in places[i]..(last + 1)
      BY <3>1, <3>2, <3>3
    <3>5. ASSUME NEW k \in 1..T(i) PROVE source[places[i] + k - 1] = TextAt(i)[k]
      <4>1. places[i] + k - 1 \in 1..last
        BY <3>2, <3>3, SMTT(40)
      <4>2. source[places[i] + k - 1] = symbols[places[i] + k - 1] /\ texts[i][k] = symbols[places[i] + k - 1]
        BY <1>9, <1>13, <4>1
      <4>3. QED
        BY <3>1, <4>2
    <3>6. QED
      BY <3>1, <3>4, <3>5 DEF T
  <2>3. QED
    BY <1>5, <2>1, <2>2
<1>18. ASSUME NEW i \in 1..m
       PROVE  /\ Stop(i) = TagPlace(i) /\ TextAt(i) = texts[i]
              /\ places[i + 1] = Stop(i) + W(i)
              /\ places[i + 1] <= last + 1
              /\ \A k \in 1..W(i) : source[Stop(i) + k - 1] = Spelled(tags[i])[k]
  <2>1. TextAt(i) = texts[i] /\ Stop(i) = places[i] + T(i) /\ TagPlace(i) = places[i] + T(i)
    BY <1>5, <1>10, <1>12 DEF T
  <2>2. places[i + 1] = TagPlace(i) + W(i) /\ TagPlace(i) + W(i) <= places[n] /\ TagPlace(i) \in Nat \ {0}
        /\ W(i) \in Nat
    BY <1>3, <1>7, <1>14
  <2>3. places[n] <= last + 1 /\ last \in Nat /\ places[n] \in Nat
    BY <1>9, <1>11, <1>15, <1>16
  <2>4. places[i + 1] <= last + 1
    BY <2>2, <2>3
  <2>5. ASSUME NEW k \in 1..W(i) PROVE source[TagPlace(i) + k - 1] = Spelled(tags[i])[k]
    <3>1. TagPlace(i) + k - 1 \in 1..last
      BY <2>2, <2>3
    <3>2. QED
      BY <1>9, <1>14, <3>1
  <2>6. QED
    BY <2>1, <2>2, <2>4, <2>5
<1>19. Stop(n) = last + 1
  BY <1>5, <1>12, <1>16 DEF t
<1>20. QED
  BY <1>2, <1>3, <1>9, <1>17, <1>18, <1>19 DEF Laid, n, m, last, W

-----------------------------------------------------------------------------
(* Characters of the source                                                *)

LEMMA AfterIs ==
    ASSUME source \in Seq(Symbols), NEW p \in 1..(Len(source) + 1), NEW q \in p..(Len(source) + 1), NEW C,
           \A r \in p..(q - 1) : source[r] \in C, q <= Len(source) => source[q] \notin C
    PROVE  After(p, C) = q
<1>0. Len(source) \in Nat /\ p \in Nat \ {0} /\ p <= Len(source) + 1
  BY Sizes
<1>1. CASE p > Len(source)
  BY <1>0, <1>1 DEF After
<1>2. CASE ~ (p > Len(source))
  <2> DEFINE I == {r \in p..(Len(source) + 1) : r > Len(source) \/ source[r] \notin C}
  <2>1. q \in I /\ I \in SUBSET Nat
    BY <1>0
  <2>2. Min(I) \in I /\ \A r \in I : Min(I) <= r
    BY <2>1, MinIn
  <2>3. After(p, C) = Min(I)
    BY <1>2 DEF After
  <2> DEFINE m == Min(I)
  <2>4. m \in p..(Len(source) + 1) /\ (m > Len(source) \/ source[m] \notin C) /\ m <= q
    BY <2>1, <2>2
  <2> HIDE DEF m
  <2>5. m \notin p..(q - 1)
    BY <1>0, <2>4
  <2>6. m = q
    BY <1>0, <2>4, <2>5
  <2>7. QED
    BY <2>3, <2>6 DEF m
<1>3. QED
  BY <1>1, <1>2

LEMMA AfterStops ==
    ASSUME source \in Seq(Symbols), NEW p \in 1..(Len(source) + 1), NEW C
    PROVE  /\ \A r \in p..(After(p, C) - 1) : source[r] \in C
           /\ After(p, C) <= Len(source) => source[After(p, C)] \notin C
<1>0. Len(source) \in Nat /\ p \in Nat \ {0} /\ p <= Len(source) + 1
  BY Sizes
<1>1. CASE p > Len(source)
  <2>1. After(p, C) = p
    BY <1>1 DEF After
  <2>2. QED
    BY <1>0, <1>1, <2>1
<1>2. CASE ~ (p > Len(source))
  <2> DEFINE I == {r \in p..(Len(source) + 1) : r > Len(source) \/ source[r] \notin C}
  <2>1. Len(source) + 1 \in I /\ I \in SUBSET Nat
    BY <1>0
  <2>2. Min(I) \in I /\ \A r \in I : Min(I) <= r
    BY <2>1, MinIn
  <2>3. After(p, C) = Min(I)
    BY <1>2 DEF After
  <2> DEFINE m == Min(I)
  <2>4. m \in p..(Len(source) + 1) /\ (m > Len(source) \/ source[m] \notin C)
    BY <2>2
  <2>5. ASSUME NEW r \in p..(m - 1) PROVE source[r] \in C
    <3>1. r \in p..(Len(source) + 1) /\ ~ (m <= r) /\ r <= Len(source)
      <4> HIDE DEF m
      <4>1. QED
        BY <1>0, <2>4
    <3>2. r \notin I
      BY <2>2, <3>1
    <3>3. QED
      BY <1>0, <3>1, <3>2
  <2> HIDE DEF m
  <2>6. QED
    BY <1>0, <2>3, <2>4, <2>5 DEF m
<1>3. QED
  BY <1>1, <1>2

LEMMA CharAt ==
    ASSUME source \in Seq(Symbols), NEW p \in 1..Len(source)
    PROVE  Char(p) = source[p] /\ Char(p) # None
  BY DEF Char, Symbols

LEMMA NoChar ==
    ASSUME source \in Seq(Symbols), NEW p \in Nat, p > Len(source)
    PROVE  Char(p) = None
  BY DEF Char

LEMMA HasTwo ==
    ASSUME NEW p \in Nat, NEW a, NEW b
    PROVE  Has(p, <<a, b>>) <=> Char(p) = a /\ Char(p + 1) = b
<1> DEFINE w == <<a, b>>
<1>1. Len(w) = 2 /\ w[1] = a /\ w[2] = b
  OBVIOUS
<1> HIDE DEF w
<1>2. Has(p, w) <=> \A i \in 1..2 : Char(p + i - 1) = w[i]
  BY <1>1 DEF Has
<1>3. p + 1 - 1 = p /\ p + 2 - 1 = p + 1
  OBVIOUS
<1>4. 1 \in 1..2 /\ 2 \in 1..2 /\ \A i \in 1..2 : i = 1 \/ i = 2
  OBVIOUS
<1>5. Has(p, w) <=> Char(p + 1 - 1) = w[1] /\ Char(p + 2 - 1) = w[2]
  BY <1>2, <1>4, Zenon
<1>6. QED
  BY <1>1, <1>3, <1>5 DEF w

LEMMA ThreeOf ==
    ASSUME NEW s, NEW a, NEW b
    PROVE  LET w == <<s>> \o <<a, b>> IN Len(w) = 3 /\ w[1] = s /\ w[2] = a /\ w[3] = b
<1> DEFINE S == {s, a, b}
           x == <<s>>
           y == <<a, b>>
<1>1. x \in Seq(S) /\ Len(x) = 1 /\ x[1] = s
  OBVIOUS
<1>2. y \in Seq(S) /\ Len(y) = 2 /\ y[1] = a /\ y[2] = b
  OBVIOUS
<1> HIDE DEF S, x, y
<1>3. /\ Len(x \o y) = Len(x) + Len(y)
      /\ \A i \in 1 .. Len(x) + Len(y) :
             (x \o y)[i] = IF i <= Len(x) THEN x[i] ELSE y[i - Len(x)]
  BY <1>1, <1>2, ConcatProperties
<1>4. Len(x \o y) = 3 /\ (x \o y)[1] = s /\ (x \o y)[2] = a /\ (x \o y)[3] = b
  BY <1>1, <1>2, <1>3
<1>5. QED
  BY <1>4 DEF x, y

LEMMA HasThree ==
    ASSUME NEW p \in Nat, NEW s, NEW a, NEW b
    PROVE  Has(p, <<s>> \o <<a, b>>) <=> Char(p) = s /\ Char(p + 1) = a /\ Char(p + 2) = b
<1> DEFINE w == <<s>> \o <<a, b>>
<1>1. Len(w) = 3 /\ w[1] = s /\ w[2] = a /\ w[3] = b
  BY ThreeOf
<1> HIDE DEF w
<1>2. Has(p, w) <=> \A i \in 1..3 : Char(p + i - 1) = w[i]
  BY <1>1 DEF Has
<1>3. p + 1 - 1 = p /\ p + 2 - 1 = p + 1 /\ p + 3 - 1 = p + 2
  OBVIOUS
<1>4. 1 \in 1..3 /\ 2 \in 1..3 /\ 3 \in 1..3 /\ \A i \in 1..3 : i = 1 \/ i = 2 \/ i = 3
  OBVIOUS
<1>5. Has(p, w) <=> Char(p + 1 - 1) = w[1] /\ Char(p + 2 - 1) = w[2] /\ Char(p + 3 - 1) = w[3]
  BY <1>2, <1>4, Zenon
<1>6. QED
  BY <1>1, <1>3, <1>5 DEF w

(* Where an end delimiter is, and where it takes the lexer to.             *)
LEMMA HasEnds ==
    ASSUME NEW p \in Nat, NEW x, NEW y
    PROVE  /\ Has(p, <<"+">> \o <<x, y>>) => Char(p) = "+"
           /\ Has(p, <<"-">> \o <<x, y>>) => Char(p) = "-"
           /\ Has(p, <<x, y>>) => Char(p) = x
           /\ Char(p) = "+" /\ Char(p + 1) = x /\ Char(p + 2) = y => Has(p, <<"+">> \o <<x, y>>)
           /\ Char(p) = "-" /\ Char(p + 1) = x /\ Char(p + 2) = y => Has(p, <<"-">> \o <<x, y>>)
           /\ Char(p) = x /\ Char(p + 1) = y => Has(p, <<x, y>>)
<1>1. Has(p, <<"+">> \o <<x, y>>) <=> Char(p) = "+" /\ Char(p + 1) = x /\ Char(p + 2) = y
  BY HasThree
<1>2. Has(p, <<"-">> \o <<x, y>>) <=> Char(p) = "-" /\ Char(p + 1) = x /\ Char(p + 2) = y
  BY HasThree
<1>3. Has(p, <<x, y>>) <=> Char(p) = x /\ Char(p + 1) = y
  BY HasTwo
<1>4. QED
  BY <1>1, <1>2, <1>3

LEMMA NoEnd ==
    ASSUME NEW p \in Nat, NEW x, NEW y, NEW plus, NEW trim, Char(p) \notin {"+", "-"}, Char(p) # x
    PROVE  AfterEnd(p, <<x, y>>, plus, trim) = 0
<1>1. Char(p) # "+" /\ Char(p) # "-"
  BY Zenon
<1>2. ~ Has(p, <<"+">> \o <<x, y>>) /\ ~ Has(p, <<"-">> \o <<x, y>>) /\ ~ Has(p, <<x, y>>)
  BY <1>1, HasEnds
<1>3. QED
  BY <1>2 DEF AfterEnd

LEMMA PlainEnd ==
    ASSUME NEW p \in Nat, NEW x, NEW y, NEW plus, NEW trim, x \notin {"+", "-"},
           Char(p) = x, Char(p + 1) = y
    PROVE  AfterEnd(p, <<x, y>>, plus, trim) = IF trim /\ Char(p + 2) = "nl" THEN p + 3 ELSE p + 2
<1>1. Char(p) # "+" /\ Char(p) # "-"
  BY Zenon
<1>2. ~ Has(p, <<"+">> \o <<x, y>>) /\ ~ Has(p, <<"-">> \o <<x, y>>) /\ Has(p, <<x, y>>)
  BY <1>1, HasEnds
<1>3. AfterEnd(p, <<x, y>>, plus, trim) = p + (IF trim /\ Char(p + 2) = "nl" THEN 3 ELSE 2)
  BY <1>2 DEF AfterEnd
<1>4. QED
  BY <1>3

LEMMA MinusEnd ==
    ASSUME NEW p \in Nat, NEW x, NEW y, NEW plus, NEW trim, x \notin {"+", "-"},
           Char(p) = "-", Char(p + 1) = x, Char(p + 2) = y
    PROVE  AfterEnd(p, <<x, y>>, plus, trim) = After(p + 3, Space)
<1>1. Char(p) # "+" /\ Char(p) # x
  BY Zenon
<1>2. ~ Has(p, <<"+">> \o <<x, y>>) /\ Has(p, <<"-">> \o <<x, y>>) /\ ~ Has(p, <<x, y>>)
  BY <1>1, HasEnds
<1>3. QED
  BY <1>2 DEF AfterEnd

LEMMA PlusEnd ==
    ASSUME NEW p \in Nat, NEW x, NEW y, NEW plus, plus, NEW trim, x \notin {"+", "-"},
           Char(p) = "+", Char(p + 1) = x, Char(p + 2) = y
    PROVE  AfterEnd(p, <<x, y>>, plus, trim) = p + 3
<1>1. Char(p) # "-" /\ Char(p) # x
  BY Zenon
<1>2. Has(p, <<"+">> \o <<x, y>>) /\ ~ Has(p, <<"-">> \o <<x, y>>) /\ ~ Has(p, <<x, y>>)
  BY <1>1, HasEnds
<1>3. QED
  BY <1>2 DEF AfterEnd

-----------------------------------------------------------------------------
(* The characters of texts and tags                                        *)

NamePlace(i) == Stop(i) + OpenSize(tags[i])
EndPlace(i)  == NamePlace(i) + Len(Name(tags[i]))

LEMMA TextPlaces ==
    ASSUME Laid, NEW i \in 1..Len(texts)
    PROVE  /\ places[i] \in Nat \ {0} /\ Stop(i) \in Nat \ {0} /\ places[i] <= Stop(i)
           /\ Len(source) \in Nat /\ Stop(i) <= Len(source) + 1
           /\ TagPlace(i) \in Nat /\ Stop(i) <= TagPlace(i)
           /\ TextAt(i) \in Seq(Symbols) /\ Len(TextAt(i)) = Stop(i) - places[i]
<1>1. /\ source \in Seq(Symbols) /\ places[i] \in Nat \ {0}
      /\ TextAt(i) \in Seq(Symbols) /\ Stop(i) <= TagPlace(i) /\ Stop(i) \in places[i]..(Len(source) + 1)
      /\ Template
  BY DEF Laid
<1>2. Len(source) \in Nat
  BY <1>1
<1>3. TagPlace(i) = places[i] + Len(texts[i]) /\ Len(texts[i]) \in Nat
  BY <1>1, SizeOfTemplate DEF TagPlace
<1>4. Stop(i) = places[i] + Len(TextAt(i)) /\ Len(TextAt(i)) \in Nat
  BY <1>1 DEF Stop
<1> DEFINE a == places[i]
           t == Len(TextAt(i))
           u == Len(texts[i])
           n == Len(source)
<1>5. a \in Nat \ {0} /\ t \in Nat /\ u \in Nat /\ n \in Nat /\ Stop(i) = a + t /\ TagPlace(i) = a + u
      /\ Stop(i) \in a..(n + 1)
  BY <1>1, <1>2, <1>3, <1>4
<1> HIDE DEF a, t, u, n
<1>6. a + t \in Nat \ {0} /\ a <= a + t /\ a + t <= n + 1 /\ a + u \in Nat /\ t = a + t - a
  BY <1>5
<1>7. places[i] = a /\ Len(TextAt(i)) = t /\ Len(source) = n
  BY DEF a, t, n
<1>8. Len(TextAt(i)) = Stop(i) - places[i]
  BY <1>5, <1>6, <1>7
<1>9. QED
  BY <1>1, <1>5, <1>6, <1>7, <1>8

LEMMA TextChars ==
    ASSUME Laid, NEW i \in 1..Len(texts), NEW p \in places[i]..(Stop(i) - 1)
    PROVE  /\ p \in 1..Len(source) /\ p - places[i] + 1 \in 1..Len(TextAt(i))
           /\ Char(p) = source[p] /\ source[p] = TextAt(i)[p - places[i] + 1]
<1> DEFINE a == places[i]
           z == Stop(i)
           n == Len(source)
           t == Len(TextAt(i))
<1>1. /\ a \in Nat \ {0} /\ z \in Nat \ {0} /\ n \in Nat /\ z <= n + 1 /\ t = z - a
      /\ p \in a..(z - 1)
  BY TextPlaces
<1>2. source \in Seq(Symbols) /\ \A k \in 1..t : source[a + k - 1] = TextAt(i)[k]
  BY DEF Laid
<1> HIDE DEF a, z, n, t
<1>3. p \in 1..n /\ p - a + 1 \in 1..t /\ a + (p - a + 1) - 1 = p
  BY <1>1
<1>4. source[p] = TextAt(i)[p - a + 1]
  BY <1>2, <1>3
<1>5. Char(p) = source[p]
  BY <1>2, <1>3, CharAt DEF n
<1>6. QED
  BY <1>3, <1>4, <1>5 DEF a, n, t

LEMMA TagPlaces ==
    ASSUME Laid, NEW i \in 1..Len(tags)
    PROVE  /\ tags[i] \in Tag /\ i \in 1..Len(texts) /\ i + 1 \in 1..Len(texts) /\ i # Len(texts)
           /\ Stop(i) \in Nat \ {0} /\ Stop(i) = TagPlace(i) /\ TextAt(i) = texts[i]
           /\ NamePlace(i) \in {Stop(i) + 2, Stop(i) + 3} /\ Len(Name(tags[i])) \in 1..3
           /\ EndPlace(i) = NamePlace(i) + Len(Name(tags[i]))
           /\ NamePlace(i) = Stop(i) + (IF NoSign(tags[i].open) THEN 2 ELSE 3)
           /\ places[i + 1] = EndPlace(i) + (IF NoSign(tags[i].close) THEN 2 ELSE 3)
           /\ places[i + 1] \in Nat \ {0} /\ Len(source) \in Nat /\ places[i + 1] <= Len(source) + 1
<1>0. Template /\ Len(tags) \in Nat /\ Len(texts) = Len(tags) + 1
  BY SizeOfTemplate DEF Laid
<1>1. tags[i] \in Tag /\ i \in 1..Len(texts) /\ i + 1 \in 1..Len(texts) /\ i # Len(texts)
  <2>1. tags[i] \in Tag
    BY <1>0, SizeOfTemplate
  <2> DEFINE m == Len(tags)
             n == Len(texts)
  <2>2. m \in Nat /\ n = m + 1 /\ i \in 1..m
    BY <1>0
  <2> HIDE DEF m, n
  <2>3. i \in 1..n /\ i + 1 \in 1..n /\ i # n
    BY <2>2
  <2>4. QED
    BY <2>1, <2>3 DEF n
<1>2. Stop(i) \in Nat \ {0} /\ places[i + 1] \in Nat \ {0} /\ Len(source) \in Nat
  BY <1>1, TextPlaces
<1>3. /\ Stop(i) = TagPlace(i) /\ TextAt(i) = texts[i]
      /\ places[i + 1] = Stop(i) + Len(Spelled(tags[i])) /\ places[i + 1] <= Len(source) + 1
  BY DEF Laid
<1> DEFINE o == OpenSize(tags[i])
           l == Len(Name(tags[i]))
           c == CloseSize(tags[i])
<1>4. /\ Len(Spelled(tags[i])) = o + l + c /\ o \in {2, 3} /\ c \in {2, 3}
  BY <1>1, SpelledOf DEF Parts
<1>5. l \in 1..3
  BY <1>1, DelimiterSizes
<1>6. o = (IF NoSign(tags[i].open) THEN 2 ELSE 3) /\ c = (IF NoSign(tags[i].close) THEN 2 ELSE 3)
  BY DEF OpenSize, CloseSize
<1>7. NamePlace(i) = Stop(i) + o /\ EndPlace(i) = NamePlace(i) + l
  BY DEF NamePlace, EndPlace
<1> HIDE DEF o, l, c
<1> DEFINE r == places[i + 1]
<1>8. r = Stop(i) + (o + l + c)
  BY <1>3, <1>4
<1> HIDE DEF r
<1>9. r = EndPlace(i) + c /\ NamePlace(i) \in {Stop(i) + 2, Stop(i) + 3}
  BY <1>2, <1>4, <1>5, <1>7, <1>8, SMTT(40)
<1>10. QED
  BY <1>1, <1>2, <1>3, <1>5, <1>6, <1>7, <1>9 DEF r, l

LEMMA TagChars ==
    ASSUME Laid, NEW i \in 1..Len(tags)
    PROVE  /\ Char(Stop(i)) = Open(tags[i])[1] /\ Char(Stop(i) + 1) = Open(tags[i])[2]
           /\ ~ NoSign(tags[i].open) => Char(Stop(i) + 2) = tags[i].open
           /\ \A k \in 1..Len(Name(tags[i])) : Char(NamePlace(i) + k - 1) = Name(tags[i])[k]
           /\ NoSign(tags[i].close) =>
                  Char(EndPlace(i)) = Close(tags[i])[1] /\ Char(EndPlace(i) + 1) = Close(tags[i])[2]
           /\ ~ NoSign(tags[i].close) =>
                  /\ Char(EndPlace(i)) = tags[i].close
                  /\ Char(EndPlace(i) + 1) = Close(tags[i])[1] /\ Char(EndPlace(i) + 2) = Close(tags[i])[2]
<1> DEFINE tag == tags[i]
           w == Spelled(tag)
           z == Len(w)
           s == Stop(i)
           o == OpenSize(tag)
           l == Len(Name(tag))
           c == CloseSize(tag)
           n == Len(source)
<1>1. /\ s \in Nat \ {0} /\ n \in Nat /\ l \in 1..3 /\ tag \in Tag
      /\ NamePlace(i) = s + o /\ EndPlace(i) = NamePlace(i) + l
  BY TagPlaces DEF NamePlace, EndPlace
<1>2. /\ source \in Seq(Symbols)
      /\ places[i + 1] = s + z /\ places[i + 1] <= n + 1
      /\ \A k \in 1..z : source[s + k - 1] = w[k]
  BY DEF Laid
<1>3. /\ z = o + l + c /\ o \in {2, 3} /\ c \in {2, 3}
      /\ w[1] = Open(tag)[1] /\ w[2] = Open(tag)[2]
      /\ ~ NoSign(tag.open) => w[3] = tag.open
      /\ \A k \in 1..l : w[o + k] = Name(tag)[k]
      /\ ~ NoSign(tag.close) => w[o + l + 1] = tag.close
      /\ w[o + l + c - 1] = Close(tag)[1] /\ w[o + l + c] = Close(tag)[2]
  <2>1. Parts(w, tag, o, l, c)
    BY <1>1, SpelledOf
  <2> HIDE DEF tag, w, o, l, c
  <2>2. QED
    BY <2>1 DEF Parts, z
<1>4. /\ NoSign(tag.close) => c = 2
      /\ ~ NoSign(tag.close) => c = 3
  BY DEF CloseSize
<1> HIDE DEF tag, w, z, s, o, l, c, n
<1>5. s + z <= n + 1
  BY <1>2
<1>6. ASSUME NEW k \in 1..z PROVE Char(s + k - 1) = w[k]
  <2>1. s + k - 1 \in 1..n
    BY <1>1, <1>3, <1>5
  <2>2. Char(s + k - 1) = source[s + k - 1]
    BY <1>2, <2>1, CharAt DEF n
  <2>3. QED
    BY <1>2, <2>2
<1>7. /\ 1 \in 1..z /\ 2 \in 1..z /\ 3 \in 1..z /\ \A k \in 1..l : o + k \in 1..z
      /\ o + l + 1 \in 1..z /\ o + l + c - 1 \in 1..z /\ o + l + c \in 1..z
  BY <1>1, <1>3
<1>8. /\ s + 1 - 1 = s /\ s + 2 - 1 = s + 1 /\ s + 3 - 1 = s + 2
      /\ \A k \in 1..l : s + (o + k) - 1 = NamePlace(i) + k - 1
      /\ s + (o + l + 1) - 1 = EndPlace(i)
      /\ c = 2 => s + (o + l + c - 1) - 1 = EndPlace(i) /\ s + (o + l + c) - 1 = EndPlace(i) + 1
      /\ c = 3 => s + (o + l + c - 1) - 1 = EndPlace(i) + 1 /\ s + (o + l + c) - 1 = EndPlace(i) + 2
  BY <1>1, <1>3
<1>9. Char(s) = w[1] /\ Char(s + 1) = w[2] /\ Char(s + 2) = w[3]
  <2>1. Char(s + 1 - 1) = w[1] /\ Char(s + 2 - 1) = w[2] /\ Char(s + 3 - 1) = w[3]
    BY <1>6, <1>7, Zenon
  <2>2. QED
    BY <1>8, <2>1
<1>10. ASSUME NEW k \in 1..l PROVE Char(NamePlace(i) + k - 1) = w[o + k]
  <2>1. Char(s + (o + k) - 1) = w[o + k]
    BY <1>6, <1>7, Zenon
  <2>2. s + (o + k) - 1 = NamePlace(i) + k - 1
    BY <1>8
  <2>3. QED
    BY <2>1, <2>2
<1>11. Char(EndPlace(i)) = w[o + l + 1]
  <2>1. Char(s + (o + l + 1) - 1) = w[o + l + 1]
    BY <1>6, <1>7, Zenon
  <2>2. QED
    BY <1>8, <2>1
<1>12. /\ c = 2 => Char(EndPlace(i)) = w[o + l + c - 1] /\ Char(EndPlace(i) + 1) = w[o + l + c]
       /\ c = 3 => Char(EndPlace(i) + 1) = w[o + l + c - 1] /\ Char(EndPlace(i) + 2) = w[o + l + c]
  <2>1. Char(s + (o + l + c - 1) - 1) = w[o + l + c - 1] /\ Char(s + (o + l + c) - 1) = w[o + l + c]
    BY <1>6, <1>7, Zenon
  <2>2. QED
    BY <1>8, <2>1
<1>13. QED
  BY <1>3, <1>4, <1>9, <1>10, <1>11, <1>12 DEF tag, s, l

-----------------------------------------------------------------------------
(* What tags start with, hold and end with                                 *)

Words == {" ", "nl", "x", "raw", "endraw"}

LEMMA WordsApart ==
    /\ \A w \in Words : w \notin {"+", "-"} /\ w # "%" /\ w # "}" /\ w # "#"
    /\ \A w \in {"%", "}", "#"} : w \notin {"+", "-"} /\ w \notin Space /\ w \notin Letters
    /\ \A w \in {"+", "-"} : w \notin Space /\ w \notin Letters
    /\ "{" \notin Space /\ "{" \notin Blank /\ None \notin Space /\ None \notin Blank
<1>1. \A w \in Words : w \notin {"+", "-"} /\ w # "%" /\ w # "}" /\ w # "#"
  BY Zenon DEF Words
<1>2. \A w \in {"%", "}", "#"} : w \notin {"+", "-"} /\ w \notin Space /\ w \notin Letters
  BY Zenon DEF Space, Blank, Letters
<1>3. \A w \in {"+", "-"} : w \notin Space /\ w \notin Letters
  BY Zenon DEF Space, Blank, Letters
<1>4. "{" \notin Space /\ "{" \notin Blank /\ None \notin Space /\ None \notin Blank
  BY Zenon DEF Space, Blank, None
<1>5. QED
  BY <1>1, <1>2, <1>3, <1>4

LEMMA Pairs ==
    ASSUME NEW tag \in Tag
    PROVE  /\ Open(tag) = <<Open(tag)[1], Open(tag)[2]>> /\ Open(tag)[1] = "{"
           /\ Open(tag)[2] \in {"{", "#", "%"}
           /\ Close(tag) = <<Close(tag)[1], Close(tag)[2]>> /\ Close(tag)[1] \in {"%", "}", "#"}
<1>1. \A w, x, y : w = <<x, y>> => w[1] = x /\ w[2] = y
  OBVIOUS
<1>2. \E y \in {"{", "#", "%"} : Open(tag) = <<"{", y>>
  BY DelimitersOf, Zenon
<1>3. \E x \in {"%", "}", "#"} : \E z : Close(tag) = <<x, z>>
  BY DelimitersOf, Zenon
<1>4. PICK y \in {"{", "#", "%"} : Open(tag) = <<"{", y>>
  BY <1>2
<1>5. Open(tag)[1] = "{" /\ Open(tag)[2] = y
  BY <1>1, <1>4, Zenon
<1>6. PICK u \in {"%", "}", "#"} : \E z : Close(tag) = <<u, z>>
  BY <1>3
<1>7. PICK v : Close(tag) = <<u, v>>
  BY <1>6
<1>8. Close(tag)[1] = u /\ Close(tag)[2] = v
  BY <1>1, <1>7, Zenon
<1>9. QED
  BY <1>4, <1>5, <1>7, <1>8, Zenon

LEMMA NameWords ==
    ASSUME NEW tag \in Tag, NEW k \in 1..Len(Name(tag))
    PROVE  Name(tag)[k] \in Words
<1>1. " " \in Words /\ "nl" \in Words /\ "x" \in Words /\ "raw" \in Words /\ "endraw" \in Words
  BY Zenon DEF Words
<1>2. Name(tag) \in Seq(Words)
  <2>1. /\ \A x \in Words : <<x>> \in Seq(Words)
        /\ \A x, y \in Words : <<x, y>> \in Seq(Words)
        /\ \A x, y, z \in Words : <<x, y, z>> \in Seq(Words)
    OBVIOUS
  <2>2. \/ Name(tag) = <<" ", "x", " ">> \/ Name(tag) = <<" ", "nl">> \/ Name(tag) = <<"x">>
        \/ Name(tag) = <<" ", "raw">> \/ Name(tag) = <<"endraw", " ">>
    BY DelimitersOf, Zenon
  <2>3. CASE Name(tag) = <<" ", "x", " ">>
    BY <1>1, <2>1, <2>3, Zenon
  <2>4. CASE Name(tag) = <<" ", "nl">>
    BY <1>1, <2>1, <2>4, Zenon
  <2>5. CASE Name(tag) = <<"x">>
    BY <1>1, <2>1, <2>5, Zenon
  <2>6. CASE Name(tag) = <<" ", "raw">>
    BY <1>1, <2>1, <2>6, Zenon
  <2>7. CASE Name(tag) = <<"endraw", " ">>
    BY <1>1, <2>1, <2>7, Zenon
  <2>8. QED
    BY <2>2, <2>3, <2>4, <2>5, <2>6, <2>7
<1>3. QED
  BY <1>2

(* The end of a tag takes the lexer to where the next text is read from.   *)
Trims == {"block", "comment", "endraw"}
Minus(i) == TagAt(i - 1).close = "-"
Takes(i) == options.trim_blocks /\ TagAt(i - 1).close # "+" /\ TagAt(i - 1).kind \in Trims
Entry(i) ==
    IF Minus(i) THEN After(places[i], Space)
    ELSE IF Takes(i) /\ Char(places[i]) = "nl" THEN places[i] + 1 ELSE places[i]

LEMMA TagBefore ==
    ASSUME Laid, NEW i \in 1..Len(tags)
    PROVE  TagAt(i) = tags[i] /\ TagAt(i + 1 - 1) = tags[i]
<1>1. DOMAIN tags = 1..Len(tags) /\ i + 1 - 1 = i
  BY SizeOfTemplate DEF Laid
<1>2. QED
  BY <1>1 DEF TagAt

LEMMA SignIs ==
    ASSUME NEW s \in Signs
    PROVE  /\ NoSign(s) => s # "-" /\ s # "+"
           /\ NoSign(s) \/ s = "-" \/ s = "+"
           /\ s = "-" => ~ NoSign(s) /\ s # "+"
           /\ s = "+" => ~ NoSign(s) /\ s # "-"
<1>1. NoSign(s) => s # "-" /\ s # "+"
  BY Zenon DEF NoSign
<1>2. NoSign(s) \/ s = "-" \/ s = "+"
  BY Zenon DEF NoSign, Signs
<1>3. "-" # "+"
  BY Zenon
<1>4. QED
  BY <1>1, <1>2, <1>3, Zenon

LEMMA EndHere ==
    ASSUME Laid, NEW i \in 1..Len(tags), NEW plus, NEW trim,
           \/ plus /\ trim = options.trim_blocks /\ tags[i].kind \in Trims
           \/ trim = FALSE /\ tags[i].kind \notin Trims
    PROVE  AfterEnd(EndPlace(i), Close(tags[i]), plus, trim) = Entry(i + 1)
<1> DEFINE tag == tags[i]
           p == EndPlace(i)
           x == Close(tag)[1]
           y == Close(tag)[2]
           r == places[i + 1]
<1>1. /\ tag \in Tag /\ r = p + (IF NoSign(tag.close) THEN 2 ELSE 3) /\ p \in Nat
  <2>1. /\ tag \in Tag /\ r = p + (IF NoSign(tag.close) THEN 2 ELSE 3)
        /\ Stop(i) \in Nat /\ NamePlace(i) \in {Stop(i) + 2, Stop(i) + 3} /\ Len(Name(tag)) \in 1..3
        /\ p = NamePlace(i) + Len(Name(tag))
    BY TagPlaces
  <2>2. p \in Nat
    <3> DEFINE l == Len(Name(tag))
    <3> HIDE DEF l, p
    <3>1. QED
      BY <2>1 DEF l
  <2>3. QED
    BY <2>1, <2>2
<1>2. Close(tag) = <<x, y>> /\ x \in {"%", "}", "#"}
  BY <1>1, Pairs
<1>3. x \notin {"+", "-"}
  BY <1>2, WordsApart
<1>4. /\ NoSign(tag.close) => Char(p) = x /\ Char(p + 1) = y
      /\ ~ NoSign(tag.close) => Char(p) = tag.close /\ Char(p + 1) = x /\ Char(p + 2) = y
  BY TagChars
<1>5. Entry(i + 1) =
        IF tag.close = "-" THEN After(r, Space)
        ELSE IF options.trim_blocks /\ tag.close # "+" /\ tag.kind \in Trims /\ Char(r) = "nl"
             THEN r + 1 ELSE r
  BY TagBefore DEF Entry, Minus, Takes
<1>6. tag.close \in Signs /\ (tag.kind \notin Trims => tag.close # "+")
  <2>1. tag.close \in Signs /\ tag.kind \in {"block", "comment", "endraw", "variable", "raw"}
        /\ (tag.kind \in {"variable", "raw"} => tag.close # "+")
    BY <1>1, DelimitersOf
  <2>2. QED
    BY <2>1, Zenon DEF Trims
<1> HIDE DEF tag, p, x, y, r
<1>7. CASE tag.close = "-"
  <2>1. r = p + 3 /\ Char(p) = "-" /\ Char(p + 1) = x /\ Char(p + 2) = y
    BY <1>1, <1>4, <1>6, <1>7, SignIs
  <2>2. AfterEnd(p, <<x, y>>, plus, trim) = After(p + 3, Space)
    BY <1>1, <1>3, <2>1, MinusEnd
  <2>3. QED
    BY <1>2, <1>5, <1>7, <2>1, <2>2 DEF tag, p
<1>8. CASE tag.close = "+"
  <2>1. tag.close # "-" /\ ~ NoSign(tag.close)
    BY <1>6, <1>8, SignIs
  <2>2. r = p + 3 /\ Char(p) = "+" /\ Char(p + 1) = x /\ Char(p + 2) = y
    BY <1>1, <1>4, <1>8, <2>1
  <2>3. plus
    BY <1>6, <1>8 DEF tag
  <2>4. AfterEnd(p, <<x, y>>, plus, trim) = p + 3
    BY <1>1, <1>3, <2>2, <2>3, PlusEnd
  <2>5. QED
    BY <1>2, <1>5, <1>8, <2>1, <2>2, <2>4 DEF tag, p
<1>9. CASE NoSign(tag.close)
  <2>1. tag.close # "-" /\ tag.close # "+"
    BY <1>6, <1>9, SignIs
  <2>2. r = p + 2 /\ Char(p) = x /\ Char(p + 1) = y
    BY <1>1, <1>4, <1>9
  <2>3. AfterEnd(p, <<x, y>>, plus, trim) = IF trim /\ Char(p + 2) = "nl" THEN p + 3 ELSE p + 2
    BY <1>1, <1>3, <2>2, PlainEnd
  <2>4. p + 2 + 1 = p + 3
    BY <1>1
  <2>5. trim <=> options.trim_blocks /\ tag.kind \in Trims
    BY DEF tag
  <2>6. Entry(i + 1) = IF trim /\ Char(p + 2) = "nl" THEN p + 3 ELSE p + 2
    BY <1>5, <2>1, <2>2, <2>4, <2>5
  <2>7. QED
    BY <1>2, <2>3, <2>6 DEF tag, p
<1>10. QED
  BY <1>6, <1>7, <1>8, <1>9, SignIs

-----------------------------------------------------------------------------
(* Where texts end                                                         *)

Brace == "{"

LEMMA StopChar ==
    ASSUME Laid, NEW i \in 1..Len(texts)
    PROVE  \/ i \in 1..Len(tags) /\ Stop(i) \in 1..Len(source) /\ Char(Stop(i)) = Brace
           \/ i = Len(texts) /\ i \notin 1..Len(tags) /\ Stop(i) = Len(source) + 1 /\ Char(Stop(i)) = None
<1>1. Len(tags) \in Nat /\ Len(texts) = Len(tags) + 1
  BY SizeOfTemplate DEF Laid
<1>2. i \in 1..Len(tags) \/ (i = Len(texts) /\ i \notin 1..Len(tags))
  <2> DEFINE m == Len(tags)
             n == Len(texts)
  <2>1. m \in Nat /\ n = m + 1 /\ i \in 1..n
    BY <1>1
  <2> HIDE DEF m, n
  <2>2. i \in 1..m \/ (i = n /\ i \notin 1..m)
    BY <2>1
  <2>3. QED
    BY <2>2 DEF m, n
<1>3. CASE i \in 1..Len(tags)
  <2>1. Char(Stop(i)) = Open(tags[i])[1] /\ tags[i] \in Tag
    BY <1>3, TagChars, TagPlaces
  <2>2. Char(Stop(i)) = Brace
    BY <2>1, Pairs, Zenon DEF Brace
  <2>3. Brace # None
    BY Zenon DEF Brace, None
  <2>4. Stop(i) \in 1..Len(source)
    BY <2>2, <2>3, CharIn
  <2>5. QED
    BY <1>3, <2>2, <2>4
<1>4. CASE i = Len(texts) /\ i \notin 1..Len(tags)
  <2>1. Stop(i) = Len(source) + 1 /\ source \in Seq(Symbols)
    BY <1>4 DEF Laid
  <2>2. Len(source) \in Nat
    BY <2>1
  <2>3. Stop(i) \in Nat /\ Stop(i) > Len(source)
    BY <2>1, <2>2
  <2>4. Char(Stop(i)) = None
    BY <2>1, <2>3, NoChar
  <2>5. QED
    BY <1>4, <2>1, <2>4
<1>5. QED
  BY <1>2, <1>3, <1>4

LEMMA AfterWithin ==
    ASSUME Laid, NEW i \in 1..Len(texts), NEW p \in places[i]..Stop(i), NEW C, Brace \notin C
    PROVE  /\ After(p, C) \in p..Stop(i)
           /\ \A r \in p..(After(p, C) - 1) : source[r] \in C
           /\ After(p, C) # Stop(i) => source[After(p, C)] \notin C
<1> DEFINE n == Len(source)
           a == After(p, C)
           z == Stop(i)
           b == places[i]
<1>1. b \in Nat \ {0} /\ z \in Nat \ {0} /\ b <= z /\ n \in Nat /\ z <= n + 1 /\ p \in b..z
  BY TextPlaces
<1>2. source \in Seq(Symbols)
  BY DEF Laid
<1>3. p \in 1..(n + 1)
  <2> HIDE DEF n, z, b
  <2>1. b \in Nat \ {0} /\ n \in Nat /\ z \in Nat /\ z <= n + 1 /\ p \in b..z
    BY <1>1
  <2>2. QED
    BY <2>1
<1>4. a \in p..(n + 1)
  BY <1>2, <1>3, AfterIn
<1>5. (\A r \in p..(a - 1) : source[r] \in C) /\ (a <= n => source[a] \notin C)
  BY <1>2, <1>3, AfterStops
<1>6. z = n + 1 \/ (z \in 1..n /\ source[z] = Brace)
  <2>1. z \in 1..n => Char(z) = source[z]
    BY <1>2, CharAt
  <2>2. QED
    BY <2>1, StopChar
<1> HIDE DEF n, a, z, b
<1>10. /\ p \in Nat /\ z \in Nat /\ n \in Nat /\ p <= z /\ p >= b /\ b \in Nat /\ z <= n + 1
       /\ a \in Nat /\ a >= p /\ a <= n + 1
  <2>1. b \in Nat /\ z \in Nat /\ p \in b..z /\ n \in Nat /\ z <= n + 1
    BY <1>1
  <2>2. p \in Nat /\ p >= b /\ p <= z
    BY <2>1
  <2>3. QED
    BY <1>4, <2>1, <2>2
<1>7. a \in p..z
  <2>1. CASE z = n + 1
    BY <1>10, <2>1
  <2>2. CASE z \in 1..n /\ source[z] = Brace
    <3>1. z \notin p..(a - 1)
      BY <1>5, <2>2
    <3>2. QED
      BY <1>10, <3>1
  <2>3. QED
    BY <1>6, <2>1, <2>2
<1>8. a # z => a <= n
  BY <1>10, <1>7
<1>9. QED
  BY <1>5, <1>7, <1>8 DEF a, z

-----------------------------------------------------------------------------
(* What stripping leaves                                                   *)

LEMMA LStripIs ==
    ASSUME NEW S, NEW s \in Seq(S), NEW C, NEW n \in 1..(Len(s) + 1),
           \A k \in 1..(n - 1) : s[k] \in C, n <= Len(s) => s[n] \notin C
    PROVE  lstrip(s, C) = SubSeq(s, n, Len(s))
<1> DEFINE keep == {k \in 1..Len(s) : s[k] \notin C} \cup {Len(s) + 1}
           m == Min(keep)
<1>1. Len(s) \in Nat
  OBVIOUS
<1>2. keep \in SUBSET Nat /\ n \in keep
  BY <1>1
<1>3. m \in keep /\ \A k \in keep : m <= k
  BY <1>2, MinIn
<1>4. m <= n
  BY <1>2, <1>3
<1>5. m \in 1..(Len(s) + 1) /\ (m <= Len(s) => s[m] \notin C)
  BY <1>1, <1>3
<1>6. lstrip(s, C) = SubSeq(s, m, Len(s))
  BY DEF lstrip
<1> HIDE DEF keep, m
<1>7. m = n
  BY <1>1, <1>4, <1>5
<1>8. QED
  BY <1>6, <1>7

LEMMA RStripIs ==
    ASSUME NEW S, NEW s \in Seq(S), NEW C, NEW n \in 0..Len(s),
           \A k \in (n + 1)..Len(s) : s[k] \in C, n # 0 => s[n] \notin C
    PROVE  rstrip(s, C) = SubSeq(s, 1, n)
<1> DEFINE keep == {k \in 1..Len(s) : s[k] \notin C} \cup {0}
           m == Max(keep)
<1>1. Len(s) \in Nat
  OBVIOUS
<1>2. keep \in SUBSET (0..Len(s)) /\ n \in keep /\ keep # {}
  BY <1>1
<1>3. m \in keep /\ \A k \in keep : k <= m
  BY <1>1, <1>2, MaxIn
<1>4. n <= m
  BY <1>2, <1>3
<1>5. m \in 0..Len(s) /\ (m # 0 => s[m] \notin C)
  BY <1>1, <1>3
<1>6. rstrip(s, C) = SubSeq(s, 1, m)
  BY DEF rstrip
<1> HIDE DEF keep, m
<1>7. m = n
  BY <1>1, <1>4, <1>5
<1>8. QED
  BY <1>6, <1>7

(* How much of a sequence is left.                                         *)
LEMMA RStripTo ==
    ASSUME NEW S, NEW s \in Seq(S), NEW C
    PROVE  \E n \in 0..Len(s) : (\A k \in (n + 1)..Len(s) : s[k] \in C) /\ (n # 0 => s[n] \notin C)
<1> DEFINE keep == {k \in 1..Len(s) : s[k] \notin C} \cup {0}
           m == Max(keep)
<1>1. Len(s) \in Nat /\ keep \in SUBSET (0..Len(s)) /\ keep # {}
  OBVIOUS
<1>2. m \in keep /\ \A k \in keep : k <= m
  BY <1>1, MaxIn
<1>3. m \in 0..Len(s) /\ (m # 0 => s[m] \notin C)
  BY <1>1, <1>2
<1>4. ASSUME NEW k \in (m + 1)..Len(s) PROVE s[k] \in C
  <2>1. ~ (k <= m) /\ k \in 1..Len(s)
    <3> HIDE DEF m
    <3>1. QED
      BY <1>1, <1>3
  <2>2. k \notin keep
    BY <1>2, <2>1
  <2>3. QED
    BY <2>1, <2>2
<1> HIDE DEF m
<1>5. QED
  BY <1>3, <1>4

(* Part of a part.                                                         *)
LEMMA PartsEqual ==
    ASSUME NEW S, NEW s \in Seq(S), NEW t \in Seq(S), NEW d \in Nat, d + Len(t) <= Len(s),
           \A k \in 1..Len(t) : s[d + k] = t[k],
           NEW a \in 1..(Len(t) + 1), NEW b \in a..(Len(t) + 1)
    PROVE  SubSeq(t, a, b - 1) = SubSeq(s, d + a, d + b - 1)
<1> DEFINE n == Len(s)
           m == Len(t)
           u == SubSeq(t, a, b - 1)
           v == SubSeq(s, d + a, d + b - 1)
<1>1. n \in Nat /\ m \in Nat
  OBVIOUS
<1>2. u \in Seq(S) /\ Len(u) = b - a /\ \A i \in 1..(b - a) : u[i] = t[a + i - 1]
  BY Part
<1> HIDE DEF n, m, u, v
<1>3. /\ a \in Nat \ {0} /\ b \in Nat /\ a <= b /\ b <= m + 1 /\ d + m <= n
  <2>1. a \in 1..(m + 1) /\ b \in a..(m + 1) /\ d + m <= n
    BY DEF m, n
  <2>2. QED
    BY <1>1, <2>1
<1>4. d + a \in 1..(n + 1) /\ d + b \in (d + a)..(n + 1) /\ d + b - (d + a) = b - a
  BY <1>1, <1>3
<1>5. v \in Seq(S) /\ Len(v) = d + b - (d + a) /\ \A i \in 1..(d + b - (d + a)) : v[i] = s[d + a + i - 1]
  BY <1>4, Part DEF v, n
<1>6. ASSUME NEW i \in 1..(b - a) PROVE u[i] = v[i]
  <2>1. a + i - 1 \in 1..m /\ d + (a + i - 1) = d + a + i - 1
    BY <1>1, <1>3
  <2>2. u[i] = t[a + i - 1] /\ v[i] = s[d + a + i - 1]
    BY <1>2, <1>4, <1>5
  <2>3. s[d + (a + i - 1)] = t[a + i - 1]
    BY <2>1 DEF m
  <2>4. QED
    BY <2>1, <2>2, <2>3
<1>7. Len(u) = Len(v) /\ Len(u) = b - a
  BY <1>2, <1>4, <1>5
<1>8. u = v
  BY <1>2, <1>5, <1>6, <1>7, SeqEqual
<1>9. QED
  BY <1>8 DEF u, v

LEMMA TextPart ==
    ASSUME Laid, NEW i \in 1..Len(texts), NEW p \in places[i]..Stop(i), NEW q \in p..Stop(i)
    PROVE  SubSeq(source, p, q - 1) = SubSeq(TextAt(i), p - places[i] + 1, q - places[i])
<1> DEFINE r == places[i]
           z == Stop(i)
           n == Len(source)
           t == TextAt(i)
           m == Len(t)
<1>1. /\ source \in Seq(Symbols) /\ t \in Seq(Symbols)
      /\ \A k \in 1..m : source[r + k - 1] = t[k]
  BY DEF Laid
<1>2. /\ r \in Nat \ {0} /\ z \in Nat /\ r <= z /\ n \in Nat /\ z <= n + 1 /\ m = z - r
  BY TextPlaces
<1> HIDE DEF r, z, n, m
<1>3. p \in r..z /\ q \in p..z
  BY DEF r, z
<1> DEFINE d == r - 1
           a == p - r + 1
           b == q - r + 1
<1>4. d \in Nat /\ d + m <= n /\ a \in 1..(m + 1) /\ b \in a..(m + 1)
  BY <1>2, <1>3
<1>5. \A k \in 1..m : r + k - 1 = d + k
  BY <1>2
<1>6. \A k \in 1..m : source[d + k] = t[k]
  BY <1>1, <1>5
<1>7. d + a = p /\ d + b - 1 = q - 1 /\ b - 1 = q - r
  BY <1>2, <1>3
<1> HIDE DEF a, b, d
<1>8. SubSeq(t, a, b - 1) = SubSeq(source, d + a, d + b - 1)
  BY <1>1, <1>4, <1>6, PartsEqual DEF n, m
<1>9. SubSeq(t, a, q - r) = SubSeq(source, p, q - 1)
  BY <1>7, <1>8
<1>10. QED
  BY <1>9 DEF a, r, t

-----------------------------------------------------------------------------
(* What the end of the tag before a text leaves of it                      *)

Trimmed(i) ==
    LET text == TextAt(i)
    IN  IF Minus(i) THEN lstrip(text, Space)
        ELSE IF Takes(i) /\ text # <<>> /\ Head(text) = "nl" THEN Tail(text) ELSE text

LEMMA TailIs ==
    ASSUME NEW S, NEW s \in Seq(S), s # <<>>
    PROVE  Tail(s) = SubSeq(s, 2, Len(s)) /\ Head(s) = s[1] /\ Len(s) \in Nat \ {0}
  OBVIOUS

LEMMA EntryIn ==
    ASSUME Laid, NEW i \in 1..Len(texts)
    PROVE  /\ Entry(i) \in places[i]..Stop(i)
           /\ SubSeq(source, Entry(i), Stop(i) - 1) = Trimmed(i)
           /\ \A p \in places[i]..(Entry(i) - 1) : source[p] \in Space
           /\ \/ Entry(i) = places[i]
              \/ Entry(i) = places[i] + 1 /\ source[places[i]] = "nl"
              \/ Entry(i) # Stop(i) => source[Entry(i)] \notin Space
<1> DEFINE r == places[i]
           z == Stop(i)
           t == TextAt(i)
           m == Len(t)
<1>1. /\ r \in Nat \ {0} /\ z \in Nat /\ r <= z /\ t \in Seq(Symbols) /\ m = z - r
      /\ m \in Nat /\ source \in Seq(Symbols)
  <2>1. source \in Seq(Symbols)
    BY DEF Laid
  <2>2. QED
    BY <2>1, TextPlaces
<1>2. /\ \A p \in r..(z - 1) : p \in 1..Len(source) /\ source[p] = t[p - r + 1] /\ Char(p) = source[p]
  BY TextChars
<1>3. ASSUME NEW p \in r..z
      PROVE  SubSeq(source, p, z - 1) = SubSeq(t, p - r + 1, m)
  <2>1. z \in p..z
    <3> HIDE DEF z, r
    <3>1. QED
      BY <1>1
  <2>2. QED
    BY <1>1, <2>1, TextPart
<1>4. Entry(i) = IF Minus(i) THEN After(r, Space)
                 ELSE IF Takes(i) /\ Char(r) = "nl" THEN r + 1 ELSE r
  BY DEF Entry
<1>5. Trimmed(i) = IF Minus(i) THEN lstrip(t, Space)
                   ELSE IF Takes(i) /\ t # <<>> /\ Head(t) = "nl" THEN Tail(t) ELSE t
  BY DEF Trimmed
<1>6. "nl" \in Space
  BY Zenon DEF Space
<1>7. CASE Minus(i)
  <2> DEFINE a == After(r, Space)
  <2>1. Entry(i) = a /\ Trimmed(i) = lstrip(t, Space)
    BY <1>4, <1>5, <1>7
  <2>2. Brace \notin Space
    BY WordsApart DEF Brace
  <2>3. /\ a \in r..z /\ (\A p \in r..(a - 1) : source[p] \in Space)
        /\ (a # z => source[a] \notin Space)
    <3>1. r \in r..z
      BY <1>1
    <3>2. QED
      BY <2>2, <3>1, AfterWithin
  <2> HIDE DEF a, r, z, t, m
  <2>4. a - r + 1 \in 1..(m + 1)
    BY <1>1, <2>3
  <2> DEFINE n == a - r + 1
  <2>10. n = a - r + 1
    OBVIOUS
  <2> HIDE DEF n
  <2>5. ASSUME NEW k \in 1..(n - 1) PROVE t[k] \in Space
    <3> DEFINE p == r + k - 1
    <3>1. p \in r..(a - 1) /\ p \in r..(z - 1) /\ p - r + 1 = k
      BY <1>1, <2>3, <2>10
    <3> HIDE DEF p
    <3>2. source[p] \in Space /\ source[p] = t[p - r + 1]
      BY <1>2, <2>3, <3>1
    <3>3. QED
      BY <3>1, <3>2
  <2>6. ASSUME a - r + 1 <= m PROVE t[a - r + 1] \notin Space
    <3>1. a \in r..(z - 1) /\ a # z
      BY <1>1, <2>3, <2>6
    <3>2. QED
      BY <1>2, <2>3, <3>1
  <2>7. lstrip(t, Space) = SubSeq(t, a - r + 1, m)
    <3>1. n \in 1..(Len(t) + 1) /\ (\A k \in 1..(n - 1) : t[k] \in Space) /\ (n <= Len(t) => t[n] \notin Space)
      BY <2>4, <2>5, <2>6, <2>10 DEF m
    <3>2. lstrip(t, Space) = SubSeq(t, n, Len(t))
      BY <1>1, <3>1, LStripIs
    <3>3. QED
      BY <3>2 DEF n, m
  <2>8. SubSeq(source, a, z - 1) = SubSeq(t, a - r + 1, m)
    BY <1>3, <2>3
  <2>9. QED
    BY <2>1, <2>3, <2>7, <2>8 DEF r, z
<1>8. CASE ~ Minus(i) /\ Takes(i) /\ t # <<>> /\ Head(t) = "nl"
  <2>1. Tail(t) = SubSeq(t, 2, m) /\ t[1] = "nl" /\ m # 0
    BY <1>1, <1>8, TailIs
  <2> HIDE DEF r, z, t, m
  <2>2. r \in r..(z - 1) /\ r - r + 1 = 1
    BY <1>1, <2>1
  <2>3. source[r] = "nl" /\ Char(r) = "nl"
    BY <1>2, <2>1, <2>2
  <2>4. Entry(i) = r + 1 /\ Trimmed(i) = Tail(t)
    BY <1>4, <1>5, <1>8, <2>3
  <2> DEFINE q == r + 1
  <2>5. q \in r..z /\ q - r + 1 = 2 /\ \A p \in r..(q - 1) : p = r
    BY <1>1, <2>2
  <2>7. Entry(i) = q
    BY <2>4
  <2> HIDE DEF q
  <2>6. SubSeq(source, q, z - 1) = SubSeq(t, q - r + 1, m)
    BY <1>3, <2>5
  <2>8. SubSeq(source, q, z - 1) = Trimmed(i)
    BY <2>1, <2>4, <2>5, <2>6, Zenon
  <2>9. \A p \in r..(q - 1) : source[p] \in Space
    BY <1>6, <2>3, <2>5
  <2>10. /\ Entry(i) \in r..z
         /\ SubSeq(source, Entry(i), z - 1) = Trimmed(i)
         /\ \A p \in r..(Entry(i) - 1) : source[p] \in Space
         /\ Entry(i) = r + 1 /\ source[r] = "nl"
    BY <2>3, <2>4, <2>5, <2>7, <2>8, <2>9
  <2>11. QED
    BY <2>10 DEF r, z
<1>9. CASE ~ Minus(i) /\ ~ (Takes(i) /\ t # <<>> /\ Head(t) = "nl")
  <2>1. Entry(i) = r /\ Trimmed(i) = t
    <3>1. CASE ~ Takes(i)
      BY <1>4, <1>5, <1>9, <3>1
    <3>2. CASE Takes(i) /\ t = <<>>
      <4>1. m = 0
        BY <3>2
      <4>2. r = z
        <5> HIDE DEF r, z, m
        <5>1. QED
          BY <1>1, <4>1
      <4>3. Char(r) # "nl"
        <5>1. "nl" # None /\ "nl" # Brace
          BY Zenon DEF None, Brace
        <5>2. QED
          BY <4>2, <5>1, StopChar
      <4>4. QED
        BY <1>4, <1>5, <1>9, <3>2, <4>3
    <3>3. CASE Takes(i) /\ t # <<>> /\ Head(t) # "nl"
      <4>1. t[1] # "nl" /\ m # 0
        BY <1>1, <3>3, TailIs
      <4>2. Char(r) # "nl"
        <5> HIDE DEF r, z, m, t
        <5>1. r \in r..(z - 1) /\ r - r + 1 = 1
          BY <1>1, <4>1
        <5>2. QED
          BY <1>2, <4>1, <5>1
      <4>3. QED
        BY <1>4, <1>5, <1>9, <3>3, <4>2
    <3>4. QED
      BY <1>9, <3>1, <3>2, <3>3
  <2>2. r \in r..z /\ r - r + 1 = 1 /\ \A p \in r..(r - 1) : FALSE
    <3> HIDE DEF r, z
    <3>1. QED
      BY <1>1
  <2>3. SubSeq(source, r, z - 1) = SubSeq(t, 1, m)
    BY <1>3, <2>2
  <2>4. SubSeq(t, 1, m) = t
    BY <1>1, SubSeqFull
  <2>5. QED
    BY <2>1, <2>2, <2>3, <2>4
<1>10. QED
  BY <1>7, <1>8, <1>9

-----------------------------------------------------------------------------
(* The text before a tag, stripped by the lexer and by the documentation   *)

LEMMA Beginning ==
    ASSUME NEW S, NEW s \in Seq(S), NEW n \in 0..Len(s)
    PROVE  /\ n = 0 => SubSeq(s, 1, n) = <<>>
           /\ n # 0 => SubSeq(s, 1, n) # <<>> /\ Last(SubSeq(s, 1, n)) = s[n]
<1> DEFINE b == n + 1
           u == SubSeq(s, 1, n)
<1>1. Len(s) \in Nat
  OBVIOUS
<1>2. 1 \in 1..(Len(s) + 1) /\ b \in 1..(Len(s) + 1) /\ b - 1 = n
  BY <1>1
<1> HIDE DEF b
<1>3. SubSeq(s, 1, b - 1) \in Seq(S) /\ Len(SubSeq(s, 1, b - 1)) = b - 1
      /\ \A i \in 1..(b - 1) : SubSeq(s, 1, b - 1)[i] = s[1 + i - 1]
  BY <1>2, Part
<1>4. u \in Seq(S) /\ Len(u) = n /\ \A i \in 1..n : u[i] = s[1 + i - 1]
  BY <1>2, <1>3
<1> HIDE DEF u
<1>5. n = 0 => u = <<>>
  BY <1>4
<1>6. n # 0 => u # <<>> /\ Last(u) = s[n]
  <2>1. n # 0 => n \in 1..n /\ 1 + n - 1 = n
    BY <1>1
  <2>2. n # 0 => u[n] = s[n]
    BY <1>4, <2>1
  <2>3. Len(<<>>) = 0
    OBVIOUS
  <2>4. QED
    BY <1>4, <2>2, <2>3 DEF Last
<1>7. QED
  BY <1>5, <1>6 DEF u

(* The character before a text behind a tag ends the tag.                  *)
LEMMA BeforeText ==
    ASSUME Laid, NEW i \in 1..Len(texts), i # 1
    PROVE  i - 1 \in 1..Len(tags) /\ i - 1 + 1 = i /\ source[places[i] - 1] # "nl"
           /\ places[i] - 1 \in 1..Len(source)
<1>1. Len(tags) \in Nat /\ Len(texts) = Len(tags) + 1 /\ source \in Seq(Symbols)
  BY SizeOfTemplate DEF Laid
<1> DEFINE j == i - 1
           m == Len(tags)
           n == Len(texts)
<1>2. m \in Nat /\ n = m + 1 /\ i \in 1..n
  BY <1>1
<1> HIDE DEF m, n
<1>3. j \in 1..m /\ j + 1 = i
  BY <1>2
<1> HIDE DEF j
<1> DEFINE p == EndPlace(j)
           tag == tags[j]
<1>4. /\ tag \in Tag /\ places[j + 1] = p + (IF NoSign(tag.close) THEN 2 ELSE 3)
      /\ Stop(j) \in Nat /\ NamePlace(j) \in {Stop(j) + 2, Stop(j) + 3} /\ Len(Name(tag)) \in 1..3
      /\ p = NamePlace(j) + Len(Name(tag))
      /\ NoSign(tag.close) => Char(p + 1) = Close(tag)[2]
      /\ ~ NoSign(tag.close) => Char(p + 2) = Close(tag)[2]
  BY <1>3, TagPlaces, TagChars DEF m
<1>5. Close(tag)[2] # "nl" /\ Close(tag)[2] # None
  BY <1>4, CloseEnds
<1>6. p \in Nat
  <2> DEFINE l == Len(Name(tag))
  <2>1. Stop(j) \in Nat /\ NamePlace(j) \in {Stop(j) + 2, Stop(j) + 3} /\ l \in 1..3 /\ p = NamePlace(j) + l
    BY <1>4
  <2> HIDE DEF l, p
  <2>2. QED
    BY <2>1
<1> DEFINE r == places[i]
<1>7. /\ NoSign(tag.close) => r = p + 2
      /\ ~ NoSign(tag.close) => r = p + 3
  BY <1>3, <1>4
<1> HIDE DEF p, r, tag
<1>8. Char(r - 1) = Close(tag)[2]
  <2>1. CASE NoSign(tag.close)
    <3>1. r - 1 = p + 1
      BY <1>6, <1>7, <2>1
    <3>2. QED
      BY <1>4, <2>1, <3>1
  <2>2. CASE ~ NoSign(tag.close)
    <3>1. r - 1 = p + 2
      BY <1>6, <1>7, <2>2
    <3>2. QED
      BY <1>4, <2>2, <3>1
  <2>3. QED
    BY <2>1, <2>2
<1>9. r - 1 \in 1..Len(source) /\ Char(r - 1) = source[r - 1]
  BY <1>5, <1>8, CharIn
<1>10. source[r - 1] # "nl"
  BY <1>5, <1>8, <1>9
<1>11. QED
  BY <1>3, <1>9, <1>10 DEF j, r, m

(* The text is read from the start of a line.                              *)
Starts(i) == i = 1 \/ source[Entry(i) - 1] = "nl"

(* lstrip_blocks looks at the start of a line, and so does the lexer: when *)
(* the two differ nothing is left to be stripped.                          *)
LEMMA LineStarts ==
    ASSUME Laid, NEW i \in 1..Len(texts)
    PROVE  LET read == rstrip(Trimmed(i), Blank)
               said == rstrip(TextAt(i), Blank)
           IN  \/ read = Trimmed(i)
               \/ /\ IF read = <<>> THEN Starts(i) ELSE Last(read) = "nl"
                  /\ IF said = <<>> THEN i = 1 ELSE Last(said) = "nl"
               \/ /\ ~ (IF read = <<>> THEN Starts(i) ELSE Last(read) = "nl")
                  /\ ~ (IF said = <<>> THEN i = 1 ELSE Last(said) = "nl")
<1> DEFINE r == places[i]
           e == Entry(i)
           z == Stop(i)
           t == TextAt(i)
           u == Trimmed(i)
           read == rstrip(u, Blank)
           said == rstrip(t, Blank)
<1>1. /\ r \in Nat \ {0} /\ z \in Nat /\ r <= z /\ t \in Seq(Symbols) /\ Len(t) = z - r
      /\ source \in Seq(Symbols) /\ Len(source) \in Nat /\ z <= Len(source) + 1
  <2>1. source \in Seq(Symbols)
    BY DEF Laid
  <2>2. QED
    BY <2>1, TextPlaces
<1>2. \A p \in r..(z - 1) : source[p] = t[p - r + 1]
  BY TextChars
<1>3. /\ e \in r..z /\ SubSeq(source, e, z - 1) = u
      /\ \/ e = r
         \/ e = r + 1 /\ source[r] = "nl"
         \/ e # z => source[e] \notin Space
  BY EntryIn
<1>4. i # 1 => source[r - 1] # "nl"
  BY BeforeText
<1>5. Starts(i) <=> i = 1 \/ source[e - 1] = "nl"
  BY DEF Starts
<1> HIDE DEF r, e, z, t, u
<1>6. u \in Seq(Symbols) /\ Len(u) = z - e /\ \A k \in 1..(z - e) : u[k] = source[e + k - 1]
  <2>1. e \in 1..(Len(source) + 1) /\ z \in e..(Len(source) + 1)
    BY <1>1, <1>3
  <2>2. QED
    <3>1. /\ SubSeq(source, e, z - 1) \in Seq(Symbols) /\ Len(SubSeq(source, e, z - 1)) = z - e
          /\ \A k \in 1..(z - e) : SubSeq(source, e, z - 1)[k] = source[e + k - 1]
      BY <1>1, <2>1, Part, SMTT(40)
    <3>2. SubSeq(source, e, z - 1) = u
      BY <1>3
    <3>3. QED
      BY <3>1, <3>2, Zenon
<1>7. PICK n \in 0..Len(u) : (\A k \in (n + 1)..Len(u) : u[k] \in Blank) /\ (n # 0 => u[n] \notin Blank)
  BY <1>6, RStripTo
<1>8. read = SubSeq(u, 1, n)
  BY <1>6, <1>7, RStripIs
<1>9. CASE n # 0
  <2> DEFINE N == n + (e - r)
  <2>1. n \in 1..(z - e) /\ N \in 1..Len(t) /\ N \in 0..Len(t) /\ N # 0
    BY <1>1, <1>3, <1>6, <1>7, <1>9
  <2>2. ASSUME NEW k \in 1..(z - e) PROVE t[k + (e - r)] = u[k] /\ k + (e - r) \in 1..Len(t)
    <3> DEFINE p == e + k - 1
    <3>1. p \in r..(z - 1) /\ p - r + 1 = k + (e - r) /\ k + (e - r) \in 1..Len(t)
      BY <1>1, <1>3
    <3>2. source[p] = t[p - r + 1] /\ u[k] = source[p]
      BY <1>2, <1>6, <3>1
    <3> HIDE DEF p
    <3>3. QED
      BY <3>1, <3>2
  <2>3. t[N] = u[n] /\ t[N] \notin Blank
    BY <1>7, <1>9, <2>1, <2>2
  <2>4. ASSUME NEW k \in (N + 1)..Len(t) PROVE t[k] \in Blank
    <3> DEFINE q == k - (e - r)
    <3>1. q \in (n + 1)..(z - e) /\ q \in 1..(z - e) /\ q + (e - r) = k
      BY <1>1, <1>3, <2>1
    <3> HIDE DEF q
    <3>2. u[q] \in Blank /\ t[q + (e - r)] = u[q]
      BY <1>6, <1>7, <2>2, <3>1
    <3>3. QED
      BY <3>1, <3>2
  <2> HIDE DEF N
  <2>5. said = SubSeq(t, 1, N)
    BY <1>1, <2>1, <2>3, <2>4, RStripIs
  <2>6. said # <<>> /\ Last(said) = t[N]
    BY <1>1, <2>1, <2>5, Beginning
  <2>7. read # <<>> /\ Last(read) = u[n]
    BY <1>6, <1>7, <1>8, <1>9, Beginning
  <2> HIDE DEF read, said
  <2>8. QED
    BY <2>3, <2>6, <2>7 DEF read, said, t, u
<1>10. CASE n = 0
  <2>1. read = <<>>
    BY <1>6, <1>7, <1>8, <1>10, Beginning
  <2>2. \A p \in e..(z - 1) : source[p] \in Blank
    <3>1. ASSUME NEW p \in e..(z - 1) PROVE source[p] \in Blank
      <4> DEFINE k == p - e + 1
      <4>1. k \in (n + 1)..Len(u) /\ k \in 1..(z - e) /\ e + k - 1 = p
        BY <1>1, <1>3, <1>6, <1>10
      <4> HIDE DEF k
      <4>2. u[k] \in Blank /\ u[k] = source[e + k - 1]
        BY <1>6, <1>7, <4>1
      <4>3. QED
        BY <4>1, <4>2
    <3>2. QED
      BY <3>1
  <2>3. CASE e = r
    <3>1. ASSUME NEW k \in (0 + 1)..Len(t) PROVE t[k] \in Blank
      <4> DEFINE p == r + k - 1
      <4>1. p \in r..(z - 1) /\ p - r + 1 = k
        BY <1>1
      <4> HIDE DEF p
      <4>2. source[p] \in Blank /\ source[p] = t[p - r + 1]
        BY <1>2, <2>2, <2>3, <4>1
      <4>3. QED
        BY <4>1, <4>2
    <3>2. 0 \in 0..Len(t)
      BY <1>1
    <3>3. said = SubSeq(t, 1, 0)
      BY <1>1, <3>1, <3>2, RStripIs
    <3>4. said = <<>>
      BY <1>1, <3>2, <3>3, Beginning
    <3>5. Starts(i) <=> i = 1
      BY <1>4, <1>5, <2>3
    <3> HIDE DEF read, said
    <3>6. QED
      BY <2>1, <3>4, <3>5 DEF read, said, t, u
  <2>4. CASE e = r + 1 /\ source[r] = "nl"
    <3>1. r \in r..(z - 1) /\ r - r + 1 = 1 /\ 1 \in 0..Len(t) /\ e - 1 = r
      BY <1>1, <1>3, <2>4
    <3>2. t[1] = "nl"
      <4>1. source[r] = t[r - r + 1]
        BY <1>2, <3>1
      <4>2. QED
        BY <2>4, <3>1, <4>1
    <3>3. "nl" \notin Blank
      BY Zenon DEF Blank
    <3>4. ASSUME NEW k \in (1 + 1)..Len(t) PROVE t[k] \in Blank
      <4> DEFINE p == r + k - 1
      <4>1. p \in r..(z - 1) /\ p \in e..(z - 1) /\ p - r + 1 = k
        BY <1>1, <2>4
      <4> HIDE DEF p
      <4>2. source[p] \in Blank /\ source[p] = t[p - r + 1]
        BY <1>2, <2>2, <4>1
      <4>3. QED
        BY <4>1, <4>2
    <3>5. said = SubSeq(t, 1, 1)
      BY <1>1, <3>1, <3>2, <3>3, <3>4, RStripIs
    <3>6. said # <<>> /\ Last(said) = "nl"
      BY <1>1, <3>1, <3>2, <3>5, Beginning
    <3>7. Starts(i)
      BY <1>5, <2>4, <3>1
    <3> HIDE DEF read, said
    <3>8. QED
      BY <2>1, <3>6, <3>7 DEF read, said, t, u
  <2>5. CASE e # z => source[e] \notin Space
    <3>1. e = z
      <4>1. e # z => e \in e..(z - 1)
        BY <1>1, <1>3
      <4>2. QED
        BY <2>2, <2>5, <4>1 DEF Space
    <3>2. Len(u) = 0
      BY <1>1, <1>6, <3>1
    <3>3. u = <<>>
      BY <1>6, <3>2
    <3>4. read = u
      BY <2>1, <3>3
    <3> HIDE DEF read
    <3>5. QED
      BY <3>4 DEF read, u
  <2>6. QED
    BY <1>3, <2>3, <2>4, <2>5
<1>11. QED
  BY <1>9, <1>10

(* The tag behind the text strips the blanks before it, when the line of   *)
(* the source, or what is read of it, has nothing else.                    *)
Strips(i) == options.lstrip_blocks /\ TagAt(i).open # "+" /\ TagAt(i).kind \in {"block", "comment", "raw", "endraw"}
OnLine(i) == LET said == rstrip(TextAt(i), Blank) IN IF said = <<>> THEN i = 1 ELSE Last(said) = "nl"
ReadOnLine(i) == LET read == rstrip(Trimmed(i), Blank) IN IF read = <<>> THEN Starts(i) ELSE Last(read) = "nl"

LEMMA ControlledIs ==
    ASSUME NEW i
    PROVE  Controlled(i) =
               IF TagAt(i).open = "-" THEN rstrip(Trimmed(i), Space)
               ELSE IF Strips(i) /\ OnLine(i) THEN rstrip(Trimmed(i), Blank) ELSE Trimmed(i)
<1> DEFINE text == IF i = Len(texts) THEN Lines(texts[i]) ELSE texts[i]
           trimmed ==
             IF TagAt(i - 1).close = "-" THEN lstrip(text, Space)
             ELSE IF /\ options.trim_blocks /\ TagAt(i - 1).close # "+"
                     /\ TagAt(i - 1).kind \in {"block", "comment", "endraw"}
                     /\ text # <<>> /\ Head(text) = "nl"
                  THEN Tail(text) ELSE text
<1>1. text = TextAt(i)
  BY DEF TextAt
<1> HIDE DEF text
<1>2. trimmed = Trimmed(i)
  BY <1>1, Zenon DEF Trimmed, Minus, Takes, Trims
<1> HIDE DEF trimmed
<1>3. Controlled(i) =
        IF TagAt(i).open = "-" THEN rstrip(trimmed, Space)
        ELSE IF /\ options.lstrip_blocks /\ TagAt(i).open # "+"
                /\ TagAt(i).kind \in {"block", "comment", "raw", "endraw"}
                /\ IF rstrip(text, Blank) = <<>> THEN i = 1 ELSE Last(rstrip(text, Blank)) = "nl"
             THEN rstrip(trimmed, Blank) ELSE trimmed
  BY Zenon DEF Controlled, text, trimmed
<1>4. QED
  BY <1>1, <1>2, <1>3, Zenon DEF Strips, OnLine

-----------------------------------------------------------------------------
(* The lexer and the documentation strip the same                          *)

LEMMA StripAgrees ==
    ASSUME Laid, NEW i \in 1..Len(tags), line_starting <=> Starts(i),
           NEW sign, sign = "-" <=> tags[i].open = "-", sign = "+" <=> tags[i].open = "+",
           NEW variable, variable <=> tags[i].kind = "variable"
    PROVE  OptionalLStrip(Trimmed(i), sign, variable) = Controlled(i)
<1> DEFINE t == Trimmed(i)
           read == rstrip(Trimmed(i), Blank)
           on == IF read = <<>> THEN line_starting ELSE Last(read) = "nl"
           strips == sign # "+" /\ options.lstrip_blocks /\ ~ variable
<1>1. TagAt(i) = tags[i] /\ tags[i] \in Tag /\ i \in 1..Len(texts)
  BY TagBefore, TagPlaces
<1>2. Strips(i) <=> strips
  <2>1. tags[i].kind \in {"block", "comment", "raw", "endraw"} <=> tags[i].kind # "variable"
    BY <1>1, DelimitersOf, Zenon
  <2>2. QED
    BY <1>1, <2>1, Zenon DEF Strips
<1>3. ReadOnLine(i) <=> on
  BY Zenon DEF ReadOnLine
<1>4. \/ read = t
      \/ ReadOnLine(i) /\ OnLine(i)
      \/ ~ ReadOnLine(i) /\ ~ OnLine(i)
  BY <1>1, LineStarts, Zenon DEF ReadOnLine, OnLine
<1>5. OptionalLStrip(t, sign, variable) =
          IF sign = "-" THEN rstrip(t, Space) ELSE IF strips /\ on THEN read ELSE t
  BY Zenon DEF OptionalLStrip
<1>6. Controlled(i) =
          IF tags[i].open = "-" THEN rstrip(t, Space)
          ELSE IF Strips(i) /\ OnLine(i) THEN read ELSE t
  BY <1>1, ControlledIs, Zenon
<1> HIDE DEF t, read, on, strips
<1>7. CASE sign = "-"
  <2>1. OptionalLStrip(t, sign, variable) = Controlled(i)
    BY <1>5, <1>6, <1>7, Zenon
  <2>2. QED
    BY <2>1 DEF t
<1>8. CASE sign # "-"
  <2>1. OptionalLStrip(t, sign, variable) = IF strips /\ on THEN read ELSE t
    BY <1>5, <1>8, Zenon
  <2>2. Controlled(i) = IF Strips(i) /\ OnLine(i) THEN read ELSE t
    BY <1>6, <1>8, Zenon
  <2>3. OptionalLStrip(t, sign, variable) = Controlled(i)
    <3>1. CASE read = t
      BY <2>1, <2>2, <3>1, Zenon
    <3>2. CASE read # t
      <4>1. on <=> OnLine(i)
        BY <1>3, <1>4, <3>2, Zenon
      <4>2. QED
        BY <1>2, <2>1, <2>2, <4>1, Zenon
    <3>3. QED
      BY <3>1, <3>2, Zenon
  <2>4. QED
    BY <2>3 DEF t
<1>9. QED
  BY <1>7, <1>8, Zenon

(* Nothing is behind the last text.                                        *)
LEMMA LastText ==
    ASSUME Laid
    PROVE  /\ Controlled(Len(texts)) = Trimmed(Len(texts))
           /\ Len(texts) \in 1..Len(texts)
           /\ \A i \in 1..Len(texts) : i # Len(texts) => i \in 1..Len(tags)
<1> DEFINE m == Len(tags)
           n == Len(texts)
<1>1. m \in Nat /\ n = m + 1 /\ DOMAIN tags = 1..m
  BY SizeOfTemplate DEF Laid
<1>2. n \notin DOMAIN tags
  <2> HIDE DEF m, n
  <2>1. QED
    BY <1>1
<1>3. n \in 1..n /\ \A i \in 1..n : i # n => i \in 1..m
  <2> HIDE DEF m, n
  <2>1. QED
    BY <1>1
<1>4. TagAt(n) = NoTag
  BY <1>2 DEF TagAt
<1>5. NoTag.open # "-" /\ NoTag.kind \notin {"block", "comment", "raw", "endraw"}
  BY Zenon DEF NoTag
<1>6. Controlled(n) = Trimmed(n)
  BY <1>4, <1>5, ControlledIs, Zenon DEF Strips
<1>7. QED
  BY <1>3, <1>6

(* The sign at the start of a tag.                                         *)
LEMMA SignHere ==
    ASSUME Laid, NEW i \in 1..Len(tags)
    PROVE  /\ AfterSign(Stop(i) + 2) = NamePlace(i)
           /\ SignAt(Stop(i) + 2) = "-" <=> tags[i].open = "-"
           /\ SignAt(Stop(i) + 2) = "+" <=> tags[i].open = "+"
<1> DEFINE p == Stop(i) + 2
<1>1. /\ tags[i] \in Tag /\ Stop(i) \in Nat
      /\ NamePlace(i) = Stop(i) + (IF NoSign(tags[i].open) THEN 2 ELSE 3)
      /\ Len(Name(tags[i])) \in 1..3
  BY TagPlaces
<1>2. /\ ~ NoSign(tags[i].open) => Char(p) = tags[i].open
      /\ \A k \in 1..Len(Name(tags[i])) : Char(NamePlace(i) + k - 1) = Name(tags[i])[k]
  BY TagChars
<1>3. tags[i].open \in Signs
  BY <1>1, DelimitersOf
<1>4. None # "-" /\ None # "+"
  BY Zenon DEF None
<1>5. CASE NoSign(tags[i].open)
  <2>1. NamePlace(i) = p /\ p + 1 - 1 = p
    BY <1>1, <1>5
  <2>2. 1 \in 1..Len(Name(tags[i]))
    <3>1. \A l \in 1..3 : 1 \in 1..l
      OBVIOUS
    <3>2. QED
      BY <1>1, <3>1, Zenon
  <2>3. Char(p) \in Words
    BY <1>1, <1>2, <2>1, <2>2, NameWords
  <2>4. Char(p) \notin {"-", "+"}
    BY <2>3, WordsApart, Zenon
  <2>5. SignAt(p) = None
    BY <2>4, Zenon DEF SignAt
  <2>6. AfterSign(p) = p
    BY <2>5, Zenon DEF AfterSign
  <2>7. tags[i].open # "-" /\ tags[i].open # "+"
    BY <1>3, <1>5, SignIs, Zenon
  <2>8. QED
    BY <1>4, <2>1, <2>5, <2>6, <2>7, Zenon
<1>6. CASE ~ NoSign(tags[i].open)
  <2>1. tags[i].open \in {"-", "+"}
    BY <1>3, <1>6, SignIs, Zenon
  <2>2. SignAt(p) = tags[i].open
    BY <1>2, <1>6, <2>1, Zenon DEF SignAt
  <2>3. SignAt(p) # None
    BY <1>4, <2>1, <2>2, Zenon
  <2>4. AfterSign(p) = p + 1
    BY <2>3, Zenon DEF AfterSign
  <2>5. p + 1 = NamePlace(i)
    BY <1>1, <1>6
  <2>6. QED
    BY <2>2, <2>4, <2>5, Zenon
<1>7. QED
  BY <1>5, <1>6, Zenon

-----------------------------------------------------------------------------
(* The directive at a tag                                                  *)

LEMMA NameClass ==
    ASSUME NEW tag \in Tag
    PROVE  /\ tag.kind = "variable" => /\ Len(Name(tag)) = 3 /\ Name(tag)[1] \in Space
                                       /\ Name(tag)[2] = "x" /\ Name(tag)[3] \in Space
           /\ tag.kind = "comment" => Len(Name(tag)) = 2 /\ Name(tag)[1] \in Space /\ Name(tag)[2] \in Space
           /\ tag.kind = "block" => Len(Name(tag)) = 1 /\ Name(tag)[1] = "x"
           /\ tag.kind = "raw" => Len(Name(tag)) = 2 /\ Name(tag)[1] \in Space /\ Name(tag)[2] = "raw"
           /\ tag.kind = "endraw" => Len(Name(tag)) = 2 /\ Name(tag)[1] = "endraw" /\ Name(tag)[2] \in Space
<1>1. " " \in Space /\ "nl" \in Space
  BY Zenon DEF Space, Blank
<1>3. \A w, x, y : w = <<x, y>> => Len(w) = 2 /\ w[1] = x /\ w[2] = y
  OBVIOUS
<1>4. \A w, x : w = <<x>> => Len(w) = 1 /\ w[1] = x
  OBVIOUS
<1>5. CASE tag.kind = "variable"
  <2>1. Name(tag) = <<" ", "x", " ">>
    BY <1>5, DelimitersOf, Zenon
  <2> DEFINE x == " "
             y == "x"
  <2>2. Name(tag) = <<x, y, x>>
    BY <2>1, Zenon
  <2> HIDE DEF x, y
  <2>3. Len(Name(tag)) = 3 /\ Name(tag)[1] = x /\ Name(tag)[2] = y /\ Name(tag)[3] = x
    BY <2>2
  <2>4. QED
    BY <1>1, <1>5, <2>3, Zenon DEF x, y
<1>6. CASE tag.kind = "comment"
  <2>1. Name(tag) = <<" ", "nl">>
    BY <1>6, DelimitersOf, Zenon
  <2>2. Len(Name(tag)) = 2 /\ Name(tag)[1] = " " /\ Name(tag)[2] = "nl"
    BY <1>3, <2>1, Zenon
  <2>3. QED
    BY <1>1, <1>6, <2>2, Zenon
<1>7. CASE tag.kind = "block"
  <2>1. Name(tag) = <<"x">>
    BY <1>7, DelimitersOf, Zenon
  <2>2. Len(Name(tag)) = 1 /\ Name(tag)[1] = "x"
    BY <1>4, <2>1, Zenon
  <2>3. QED
    BY <1>7, <2>2, Zenon
<1>8. CASE tag.kind = "raw"
  <2>1. Name(tag) = <<" ", "raw">>
    BY <1>8, DelimitersOf, Zenon
  <2>2. Len(Name(tag)) = 2 /\ Name(tag)[1] = " " /\ Name(tag)[2] = "raw"
    BY <1>3, <2>1, Zenon
  <2>3. QED
    BY <1>1, <1>8, <2>2, Zenon
<1>9. CASE tag.kind = "endraw"
  <2>1. Name(tag) = <<"endraw", " ">>
    BY <1>9, DelimitersOf, Zenon
  <2>2. Len(Name(tag)) = 2 /\ Name(tag)[1] = "endraw" /\ Name(tag)[2] = " "
    BY <1>3, <2>1, Zenon
  <2>3. QED
    BY <1>1, <1>9, <2>2, Zenon
<1>10. tag.kind \in {"block", "comment", "endraw", "variable", "raw"}
  BY DelimitersOf
<1>11. QED
  BY <1>5, <1>6, <1>7, <1>8, <1>9, <1>10

LEMMA EndChar ==
    ASSUME Laid, NEW i \in 1..Len(tags)
    PROVE  EndPlace(i) \in 1..Len(source) /\ Char(EndPlace(i)) \notin Space /\ Char(EndPlace(i)) \notin Letters
<1> DEFINE c == Char(EndPlace(i))
<1>1. /\ tags[i] \in Tag
      /\ NoSign(tags[i].close) => c = Close(tags[i])[1]
      /\ ~ NoSign(tags[i].close) => c = tags[i].close
  BY TagPlaces, TagChars
<1>2. c \in {"%", "}", "#", "+", "-"}
  <2>1. Close(tags[i])[1] \in {"%", "}", "#"}
    BY <1>1, Pairs
  <2>2. tags[i].close \in Signs
    BY <1>1, DelimitersOf
  <2>3. NoSign(tags[i].close) \/ tags[i].close \in {"+", "-"}
    BY <2>2, SignIs, Zenon
  <2>4. QED
    BY <1>1, <2>1, <2>3, Zenon
<1>3. c \notin Space /\ c \notin Letters /\ c # None
  BY <1>2, WordsApart, Zenon DEF None
<1>4. EndPlace(i) \in 1..Len(source)
  BY <1>3, CharIn
<1>5. QED
  BY <1>3, <1>4

(* Behind the blanks of a name.                                            *)
LEMMA NameAfter ==
    ASSUME Laid, NEW i \in 1..Len(tags), NEW k \in 1..(Len(Name(tags[i])) + 1), NEW l \in k..(Len(Name(tags[i])) + 1),
           NEW C, \A j \in k..(l - 1) : Name(tags[i])[j] \in C,
           l <= Len(Name(tags[i])) => Name(tags[i])[l] \notin C,
           Char(EndPlace(i)) \notin C
    PROVE  After(NamePlace(i) + k - 1, C) = NamePlace(i) + l - 1
<1> DEFINE p == NamePlace(i)
           w == Len(Name(tags[i]))
           e == EndPlace(i)
           n == Len(source)
           a == p + k - 1
           b == p + l - 1
<1>1. /\ Stop(i) \in Nat \ {0} /\ p \in {Stop(i) + 2, Stop(i) + 3} /\ w \in 1..3 /\ e = p + w /\ n \in Nat
      /\ e \in 1..n /\ source \in Seq(Symbols)
  <2>1. source \in Seq(Symbols)
    BY DEF Laid
  <2>2. QED
    BY <2>1, TagPlaces, EndChar
<1>2. \A j \in 1..w : Char(p + j - 1) = Name(tags[i])[j]
  BY TagChars
<1>3. k \in 1..(w + 1) /\ l \in k..(w + 1) /\ (l <= w => Name(tags[i])[l] \notin C) /\ Char(e) \notin C
      /\ \A j \in k..(l - 1) : Name(tags[i])[j] \in C
  OBVIOUS
<1> HIDE DEF p, w, e, n
<1>4. p \in Nat \ {0}
  BY <1>1
<1>5. a \in 1..(n + 1) /\ b \in a..(n + 1) /\ b <= n /\ b \in 1..n /\ k \in Int /\ l \in Int
  BY <1>1, <1>3, <1>4
<1>6. \A r \in a..(b - 1) : source[r] \in C
  <2>1. ASSUME NEW r \in a..(b - 1) PROVE source[r] \in C
    <3> DEFINE j == r - p + 1
    <3>1. j \in k..(l - 1) /\ j \in 1..w /\ p + j - 1 = r /\ r \in 1..n
      BY <1>1, <1>3, <1>4, <1>5
    <3> HIDE DEF j
    <3>2. Char(r) = Name(tags[i])[j] /\ Name(tags[i])[j] \in C
      BY <1>2, <1>3, <3>1
    <3>3. Char(r) = source[r]
      BY <1>1, <3>1, CharAt DEF n
    <3>4. QED
      BY <3>2, <3>3
  <2>2. QED
    BY <2>1
<1>7. source[b] \notin C
  <2>1. Char(b) = source[b]
    BY <1>1, <1>5, CharAt DEF n
  <2>2. CASE l <= w
    <3>1. l \in 1..w
      BY <1>1, <1>3, <2>2
    <3>2. Char(b) = Name(tags[i])[l]
      BY <1>2, <3>1
    <3>3. QED
      BY <1>3, <2>1, <2>2, <3>2
  <2>3. CASE ~ (l <= w)
    <3>1. b = e
      BY <1>1, <1>3, <1>4, <2>3
    <3>2. QED
      BY <1>3, <2>1, <3>1
  <2>4. QED
    BY <2>2, <2>3
<1> HIDE DEF a, b
<1>8. After(a, C) = b
  BY <1>1, <1>5, <1>6, <1>7, AfterIs DEF n
<1>9. QED
  BY <1>8 DEF a, b, p

-----------------------------------------------------------------------------
(* What starts at a tag                                                    *)

LEMMA StartHere ==
    ASSUME Laid, NEW i \in 1..Len(tags)
    PROVE  /\ Has(Stop(i), block_start_string) <=> tags[i].kind \in {"block", "raw", "endraw"}
           /\ Has(Stop(i), variable_start_string) <=> tags[i].kind = "variable"
           /\ Has(Stop(i), comment_start_string) <=> tags[i].kind = "comment"
<1> DEFINE p == Stop(i)
           kind == tags[i].kind
           c == Char(p + 1)
<1>1. /\ tags[i] \in Tag /\ p \in Nat
      /\ Char(p) = Open(tags[i])[1] /\ c = Open(tags[i])[2]
  BY TagPlaces, TagChars
<1>2. Char(p) = "{"
  BY <1>1, Pairs, Zenon
<1>3. kind \in {"block", "comment", "endraw", "variable", "raw"}
  BY <1>1, DelimitersOf
<1>4. /\ kind = "variable" => Open(tags[i]) = <<"{", "{">>
      /\ kind = "comment" => Open(tags[i]) = <<"{", "#">>
      /\ kind \in {"block", "raw", "endraw"} => Open(tags[i]) = <<"{", "%">>
  BY <1>1, DelimitersOf, Zenon
<1>5. \A w, x, y : w = <<x, y>> => w[2] = y
  OBVIOUS
<1>6. kind = "variable" => c = "{"
  BY <1>1, <1>4, <1>5, Zenon
<1>7. kind = "comment" => c = "#"
  BY <1>1, <1>4, <1>5, Zenon
<1>8. kind \in {"block", "raw", "endraw"} => c = "%"
  BY <1>1, <1>4, <1>5, Zenon
<1>9. \A a, b : Has(p, <<a, b>>) <=> Char(p) = a /\ c = b
  BY <1>1, HasTwo
<1>10. /\ Has(p, block_start_string) <=> c = "%"
       /\ Has(p, variable_start_string) <=> c = "{"
       /\ Has(p, comment_start_string) <=> c = "#"
  BY <1>2, <1>9, Zenon DEF block_start_string, variable_start_string, comment_start_string
<1> HIDE DEF p, kind, c
<1>11. /\ c = "%" <=> kind \in {"block", "raw", "endraw"}
       /\ c = "{" <=> kind = "variable"
       /\ c = "#" <=> kind = "comment"
  <2>1. "%" # "{" /\ "%" # "#" /\ "{" # "#"
    BY Zenon
  <2>2. "variable" # "comment" /\ "variable" \notin {"block", "raw", "endraw"} /\ "comment" \notin {"block", "raw", "endraw"}
    BY Zenon
  <2>3. CASE kind = "variable"
    BY <1>6, <2>1, <2>2, <2>3, Zenon
  <2>4. CASE kind = "comment"
    BY <1>7, <2>1, <2>2, <2>4, Zenon
  <2>5. CASE kind \in {"block", "raw", "endraw"}
    BY <1>8, <2>1, <2>2, <2>5, Zenon
  <2>6. QED
    BY <1>3, <2>3, <2>4, <2>5, Zenon
<1>12. QED
  BY <1>10, <1>11, Zenon DEF p, kind, c

LEMMA SpaceApart ==
    "x" \notin Space /\ "raw" \notin Space /\ "endraw" \notin Space
  BY Zenon DEF Space, Blank

(* The word of a block, and the tags that have one of their own.           *)
LEMMA WordHere ==
    ASSUME Laid, NEW i \in 1..Len(tags)
    PROVE  /\ RawBeginAt(Stop(i)) = IF tags[i].kind = "raw" THEN Entry(i + 1) ELSE 0
           /\ RawEndAt(Stop(i)) = IF tags[i].kind = "endraw" THEN Entry(i + 1) ELSE 0
<1> DEFINE p == Stop(i)
           tag == tags[i]
           q == NamePlace(i)
           w == Len(Name(tag))
           word == After(AfterSign(p + 2), Space)
<1>1. /\ tag \in Tag /\ p \in Nat \ {0} /\ q \in {p + 2, p + 3} /\ w \in 1..3 /\ EndPlace(i) = q + w
      /\ \A k \in 1..w : Char(q + k - 1) = Name(tag)[k]
  BY TagPlaces, TagChars
<1>2. AfterSign(p + 2) = q
  BY SignHere
<1>3. Char(EndPlace(i)) \notin Space
  BY EndChar
<1>4. q \in Nat /\ q + 1 - 1 = q /\ q + 2 - 1 = q + 1
  <2> HIDE DEF p, q, w
  <2>1. QED
    BY <1>1
<1>5. Has(p, block_start_string) <=> tag.kind \in {"block", "raw", "endraw"}
  BY StartHere
<1>6. CASE tag.kind = "raw"
  <2>1. w = 2 /\ Name(tag)[1] \in Space /\ Name(tag)[2] = "raw"
    BY <1>1, <1>6, NameClass
  <2>2. After(q + 1 - 1, Space) = q + 2 - 1
    <3>1. 1 \in 1..(w + 1) /\ 2 \in 1..(w + 1) /\ \A j \in 1..(2 - 1) : Name(tag)[j] \in Space
      BY <2>1
    <3>2. Name(tag)[2] \notin Space
      BY <2>1, SpaceApart
    <3>3. QED
      BY <1>3, <3>1, <3>2, NameAfter
  <2>3. word = q + 1
    BY <1>2, <1>4, <2>2
  <2>4. Char(word) = "raw"
    <3>1. 2 \in 1..w
      BY <2>1
    <3>2. QED
      BY <1>1, <1>4, <2>1, <2>3, <3>1
  <2>5. After(q + 3 - 1, Space) = q + 3 - 1
    <3>1. 3 \in 1..(w + 1) /\ 3 \in 3..(w + 1) /\ (\A j \in 3..(3 - 1) : Name(tag)[j] \in Space) /\ ~ (3 <= w)
      BY <2>1
    <3>2. QED
      BY <1>3, <3>1, NameAfter
  <2>6. After(word + 1, Space) = EndPlace(i)
    <3>1. word + 1 = q + 3 - 1 /\ q + 3 - 1 = EndPlace(i)
      <4> HIDE DEF q, word, w
      <4>1. QED
        BY <1>1, <1>4, <2>1, <2>3
    <3>2. QED
      BY <2>5, <3>1
  <2>7. Close(tag) = block_end_string /\ tag.kind \notin Trims
    <3>1. Close(tag) = <<"%", "}">>
      BY <1>1, <1>6, DelimitersOf, Zenon
    <3>2. QED
      BY <1>6, <3>1, Zenon DEF block_end_string, Trims
  <2>8. AfterEnd(EndPlace(i), block_end_string, FALSE, FALSE) = Entry(i + 1)
    BY <2>7, EndHere
  <2>9. RawBeginAt(p) = Entry(i + 1)
    <3>1. Has(p, block_start_string)
      BY <1>5, <1>6, Zenon
    <3>2. QED
      BY <2>4, <2>6, <2>8, <3>1, Zenon DEF RawBeginAt
  <2>10. RawEndAt(p) = 0
    <3>1. "raw" # "endraw"
      OBVIOUS
    <3>2. QED
      BY <2>4, <3>1, Zenon DEF RawEndAt
  <2>11. tag.kind # "endraw"
    BY <1>6
  <2>12. QED
    BY <1>6, <2>9, <2>10, <2>11
<1>7. CASE tag.kind = "endraw"
  <2>1. w = 2 /\ Name(tag)[1] = "endraw" /\ Name(tag)[2] \in Space
    BY <1>1, <1>7, NameClass
  <2>2. After(q + 1 - 1, Space) = q + 1 - 1
    <3>1. 1 \in 1..(w + 1) /\ 1 \in 1..(w + 1) /\ \A j \in 1..(1 - 1) : Name(tag)[j] \in Space
      BY <2>1
    <3>2. Name(tag)[1] \notin Space
      BY <2>1, SpaceApart
    <3>3. QED
      BY <1>3, <3>1, <3>2, NameAfter
  <2>3. word = q
    BY <1>2, <1>4, <2>2
  <2>4. Char(word) = "endraw"
    <3>1. 1 \in 1..w
      BY <2>1
    <3>2. QED
      BY <1>1, <1>4, <2>1, <2>3, <3>1
  <2>5. After(q + 2 - 1, Space) = q + 3 - 1
    <3>1. 2 \in 1..(w + 1) /\ 3 \in 2..(w + 1) /\ ~ (3 <= w)
      BY <2>1
    <3>2. \A j \in 2..(3 - 1) : Name(tag)[j] \in Space
      <4>1. \A j \in 2..(3 - 1) : j = 2
        OBVIOUS
      <4>2. QED
        BY <2>1, <4>1
    <3>3. QED
      BY <1>3, <3>1, <3>2, NameAfter
  <2>6. After(word + 1, Space) = EndPlace(i)
    <3>1. word + 1 = q + 2 - 1 /\ q + 3 - 1 = EndPlace(i)
      <4> HIDE DEF q, word, w
      <4>1. QED
        BY <1>1, <1>4, <2>1, <2>3
    <3>2. QED
      BY <2>5, <3>1
  <2>7. Close(tag) = block_end_string /\ tag.kind \in Trims
    <3>1. Close(tag) = <<"%", "}">>
      BY <1>1, <1>7, DelimitersOf, Zenon
    <3>2. QED
      BY <1>7, <3>1, Zenon DEF block_end_string, Trims
  <2>8. AfterEnd(EndPlace(i), block_end_string, TRUE, options.trim_blocks) = Entry(i + 1)
    BY <2>7, EndHere
  <2>9. RawEndAt(p) = Entry(i + 1)
    <3>1. Has(p, block_start_string)
      BY <1>5, <1>7, Zenon
    <3>2. QED
      BY <2>4, <2>6, <2>8, <3>1, Zenon DEF RawEndAt, BlockEndAt
  <2>10. RawBeginAt(p) = 0
    <3>1. "raw" # "endraw"
      OBVIOUS
    <3>2. QED
      BY <2>4, <3>1, Zenon DEF RawBeginAt
  <2>11. tag.kind # "raw"
    BY <1>7
  <2>12. QED
    BY <1>7, <2>9, <2>10, <2>11
<1>8. CASE tag.kind = "block"
  <2>1. w = 1 /\ Name(tag)[1] = "x"
    BY <1>1, <1>8, NameClass
  <2>2. After(q + 1 - 1, Space) = q + 1 - 1
    <3>1. 1 \in 1..(w + 1) /\ 1 \in 1..(w + 1) /\ \A j \in 1..(1 - 1) : Name(tag)[j] \in Space
      BY <2>1
    <3>2. Name(tag)[1] \notin Space
      BY <2>1, SpaceApart
    <3>3. QED
      BY <1>3, <3>1, <3>2, NameAfter
  <2>3. word = q
    BY <1>2, <1>4, <2>2
  <2>4. Char(word) = "x"
    <3>1. 1 \in 1..w
      BY <2>1
    <3>2. QED
      BY <1>1, <1>4, <2>1, <2>3, <3>1
  <2>5. "x" # "raw" /\ "x" # "endraw"
    OBVIOUS
  <2>6. RawBeginAt(p) = 0 /\ RawEndAt(p) = 0
    BY <2>4, <2>5, Zenon DEF RawBeginAt, RawEndAt
  <2>7. tag.kind # "raw" /\ tag.kind # "endraw"
    BY <1>8
  <2>8. QED
    BY <2>6, <2>7
<1>9. CASE tag.kind \in {"variable", "comment"}
  <2>1. tag.kind # "raw" /\ tag.kind # "endraw" /\ tag.kind \notin {"block", "raw", "endraw"}
    BY <1>9, Zenon
  <2>2. RawBeginAt(p) = 0 /\ RawEndAt(p) = 0
    BY <1>5, <2>1, Zenon DEF RawBeginAt, RawEndAt
  <2>3. QED
    BY <2>1, <2>2
<1>10. tag.kind \in {"block", "comment", "endraw", "variable", "raw"}
  BY <1>1, DelimitersOf
<1>11. QED
  BY <1>6, <1>7, <1>8, <1>9, <1>10

-----------------------------------------------------------------------------
(* The directives at a place: only what starts with a brace, or a line     *)
(* prefix behind blanks, is one.                                           *)
Rule(kind, start) == [kind |-> kind, sign |-> SignAt(start), end |-> AfterSign(start)]
RawRule(p) == [kind |-> "raw_begin", sign |-> SignAt(p + 2), end |-> RawBeginAt(p)]

LEMMA RulesAt ==
    ASSUME NEW p
    PROVE  LET prefix == After(p, Blank) IN
           \/ RawBeginAt(p) # 0 /\ compile_rules(p) = <<RawRule(p)>>
           \/ RawBeginAt(p) = 0 /\ Has(p, block_start_string) /\ compile_rules(p) = <<Rule("block_begin", p + 2)>>
           \/ Has(p, variable_start_string) /\ compile_rules(p) = <<Rule("variable_begin", p + 2)>>
           \/ Has(p, comment_start_string) /\ compile_rules(p) = <<Rule("comment_begin", p + 2)>>
           \/ Char(prefix) \in {"$", "@"}
           \/ /\ RawBeginAt(p) = 0 /\ ~ Has(p, block_start_string) /\ ~ Has(p, variable_start_string)
              /\ ~ Has(p, comment_start_string) /\ compile_rules(p) = <<>>
  BY DEF compile_rules, Rule, RawRule

LEMMA RawsHave ==
    ASSUME NEW p
    PROVE  /\ RawBeginAt(p) # 0 => Has(p, block_start_string)
           /\ RawEndAt(p) # 0 => Has(p, block_start_string)
  BY DEF RawBeginAt, RawEndAt

(* The lexing state a tag is in, and what takes the lexer there.           *)
Begin(kind) == CASE kind = "variable" -> "variable_begin"
                 [] kind = "comment" -> "comment_begin"
                 [] kind = "block" -> "block_begin"
                 [] kind = "raw" -> "raw_begin"

LEMMA RuleHere ==
    ASSUME Laid, NEW i \in 1..Len(tags), tags[i].kind # "endraw"
    PROVE  LET p == Stop(i) IN
           /\ p \in 1..Len(source)
           /\ compile_rules(p) =
                  IF tags[i].kind = "raw" THEN <<RawRule(p)>> ELSE <<Rule(Begin(tags[i].kind), p + 2)>>
           /\ compile_rules(p) # <<>>
<1> DEFINE p == Stop(i)
           kind == tags[i].kind
           prefix == After(p, Blank)
<1>1. tags[i] \in Tag /\ i \in 1..Len(texts) /\ source \in Seq(Symbols)
  BY TagPlaces DEF Laid
<1>2. p \in 1..Len(source) /\ Char(p) = Brace
  BY <1>1, StopChar
<1>3. Brace \notin Blank /\ Brace \notin {"$", "@"}
  BY WordsApart, Zenon DEF Brace
<1>4. prefix = p
  <2>1. source[p] \notin Blank
    BY <1>1, <1>2, <1>3, CharAt
  <2>2. p \in 1..(Len(source) + 1) /\ p \in p..(Len(source) + 1) /\ \A r \in p..(p - 1) : source[r] \in Blank
    <3> DEFINE n == Len(source)
    <3>1. n \in Nat /\ p \in 1..n
      BY <1>1, <1>2
    <3> HIDE DEF n, p
    <3>2. p \in 1..(n + 1) /\ p \in p..(n + 1) /\ \A r \in p..(p - 1) : FALSE
      BY <3>1
    <3>3. QED
      BY <3>2 DEF n
  <2>3. QED
    BY <1>1, <2>1, <2>2, AfterIs
<1>5. Char(prefix) \notin {"$", "@"}
  BY <1>2, <1>3, <1>4
<1>6. /\ Has(p, block_start_string) <=> kind \in {"block", "raw", "endraw"}
      /\ Has(p, variable_start_string) <=> kind = "variable"
      /\ Has(p, comment_start_string) <=> kind = "comment"
  BY StartHere
<1>7. RawBeginAt(p) = IF kind = "raw" THEN Entry(i + 1) ELSE 0
  BY WordHere
<1>8. Entry(i + 1) # 0
  <2>1. i + 1 \in 1..Len(texts)
    BY TagPlaces
  <2>2. Entry(i + 1) \in places[i + 1]..Stop(i + 1) /\ places[i + 1] \in Nat \ {0} /\ Stop(i + 1) \in Nat
    BY <2>1, EntryIn, TextPlaces
  <2> DEFINE e == Entry(i + 1)
             a == places[i + 1]
             b == Stop(i + 1)
  <2>3. e \in a..b /\ a \in Nat \ {0} /\ b \in Nat
    BY <2>2
  <2> HIDE DEF e, a, b
  <2>4. e # 0
    BY <2>3
  <2>5. QED
    BY <2>4 DEF e
<1>9. kind \in {"block", "comment", "variable", "raw"}
  <2>1. kind \in {"block", "comment", "endraw", "variable", "raw"}
    BY <1>1, DelimitersOf
  <2>2. QED
    BY <2>1
<1>10. \/ RawBeginAt(p) # 0 /\ compile_rules(p) = <<RawRule(p)>>
       \/ RawBeginAt(p) = 0 /\ Has(p, block_start_string) /\ compile_rules(p) = <<Rule("block_begin", p + 2)>>
       \/ Has(p, variable_start_string) /\ compile_rules(p) = <<Rule("variable_begin", p + 2)>>
       \/ Has(p, comment_start_string) /\ compile_rules(p) = <<Rule("comment_begin", p + 2)>>
       \/ /\ RawBeginAt(p) = 0 /\ ~ Has(p, block_start_string) /\ ~ Has(p, variable_start_string)
          /\ ~ Has(p, comment_start_string) /\ compile_rules(p) = <<>>
  BY <1>5, RulesAt
<1>11. \A x : <<x>> # <<>>
  OBVIOUS
<1>12. /\ Begin("variable") = "variable_begin" /\ Begin("comment") = "comment_begin"
       /\ Begin("block") = "block_begin"
  BY DEF Begin
<1> HIDE DEF p, kind, prefix
<1>13. compile_rules(p) = IF kind = "raw" THEN <<RawRule(p)>> ELSE <<Rule(Begin(kind), p + 2)>>
  <2>1. CASE kind = "raw"
    BY <1>6, <1>7, <1>8, <1>10, <2>1, SMTT(30)
  <2>2. CASE kind = "block"
    BY <1>6, <1>7, <1>10, <1>12, <2>2, SMTT(30)
  <2>3. CASE kind = "variable"
    BY <1>6, <1>7, <1>10, <1>12, <2>3, SMTT(30)
  <2>4. CASE kind = "comment"
    BY <1>6, <1>7, <1>10, <1>12, <2>4, SMTT(30)
  <2>5. QED
    BY <1>9, <2>1, <2>2, <2>3, <2>4
<1>14. compile_rules(p) # <<>>
  BY <1>11, <1>13
<1>15. QED
  BY <1>2, <1>13, <1>14 DEF p, kind

(* A text outside of a raw block has no directive.                         *)
LEMMA NoRule ==
    ASSUME Laid, NEW i \in 1..Len(texts), TagAt(i - 1).kind # "raw", NEW p \in places[i]..(Stop(i) - 1)
    PROVE  compile_rules(p) = <<>>
<1> DEFINE prefix == After(p, Blank)
           t == TextAt(i)
<1>1. /\ places[i] \in Nat \ {0} /\ Stop(i) \in Nat /\ places[i] <= Stop(i)
      /\ p \in places[i]..Stop(i) /\ p \in Nat
  <2> DEFINE a == places[i]
             b == Stop(i)
  <2>1. a \in Nat \ {0} /\ b \in Nat /\ a <= b /\ p \in a..(b - 1)
    BY TextPlaces
  <2> HIDE DEF a, b
  <2>2. p \in a..b /\ p \in Nat
    BY <2>1
  <2>3. QED
    BY <2>1, <2>2 DEF a, b
<1>2. \A q \in places[i]..(Stop(i) - 1) : Char(q) \notin {Brace, "$", "@"}
  <2>1. ASSUME NEW q \in places[i]..(Stop(i) - 1) PROVE Char(q) \notin {Brace, "$", "@"}
    <3> DEFINE k == q - places[i] + 1
    <3>1. k \in 1..Len(t) /\ Char(q) = t[k]
      BY TextChars
    <3> HIDE DEF k
    <3>2. Plain(texts[i])
      BY DEF Laid, Template
    <3>3. k \in 1..Len(texts[i]) /\ t[k] = texts[i][k] /\ texts[i] \in Seq(Symbols)
      <4>1. texts[i] \in Seq(Symbols) /\ Len(texts[i]) \in Nat
        BY SizeOfTemplate DEF Laid
      <4>2. CASE i = Len(texts)
        <5>1. t = Lines(texts[i])
          BY <4>2 DEF TextAt
        <5>2. /\ Len(Lines(texts[i])) \in {Len(texts[i]), Len(texts[i]) - 1}
              /\ \A j \in 1..Len(Lines(texts[i])) : Lines(texts[i])[j] = texts[i][j]
          BY <4>1, LinesOf
        <5> DEFINE n == Len(texts[i])
        <5>3. Len(t) \in {n, n - 1} /\ n \in Nat /\ t[k] = texts[i][k]
          BY <3>1, <4>1, <5>1, <5>2
        <5> HIDE DEF n, t
        <5>4. k \in 1..n
          BY <3>1, <5>3
        <5>5. QED
          BY <4>1, <5>3, <5>4 DEF n
      <4>3. CASE i # Len(texts)
        <5>1. t = texts[i]
          BY <4>3 DEF TextAt
        <5>2. QED
          BY <3>1, <4>1, <5>1
      <4>4. QED
        BY <4>2, <4>3
    <3>4. texts[i][k] \notin {Brace, "$", "@"}
      <4>1. k \in DOMAIN texts[i]
        BY <3>3
      <4>2. QED
        BY <3>2, <4>1, Zenon DEF Plain, Brace
    <3>5. QED
      BY <3>1, <3>3, <3>4
  <2>2. QED
    BY <2>1
<1>3. Char(prefix) \notin {"$", "@"}
  <2>1. prefix \in p..Stop(i)
    <3>1. Brace \notin Blank
      BY WordsApart, Zenon DEF Brace
    <3>2. QED
      BY <1>1, <3>1, AfterWithin
  <2>2. CASE prefix = Stop(i)
    <3>1. Char(prefix) \in {Brace, None}
      BY <2>2, StopChar
    <3>2. Brace \notin {"$", "@"} /\ None \notin {"$", "@"}
      BY Zenon DEF Brace, None
    <3>3. QED
      BY <3>1, <3>2, Zenon
  <2>3. CASE prefix # Stop(i)
    <3> HIDE DEF prefix
    <3>1. prefix \in places[i]..(Stop(i) - 1)
      <4> DEFINE a == places[i]
                 b == Stop(i)
      <4>1. a \in Nat /\ b \in Nat /\ p \in a..b /\ prefix \in p..b /\ prefix # b
        BY <1>1, <2>1, <2>3
      <4> HIDE DEF a, b
      <4>2. prefix \in a..(b - 1)
        BY <4>1
      <4>3. QED
        BY <4>2 DEF a, b
    <3>2. QED
      BY <1>2, <3>1, Zenon
  <2>4. QED
    BY <2>2, <2>3
<1>4. Char(p) # Brace
  BY <1>2
<1>5. \A a, b : Has(p, <<a, b>>) => Char(p) = a
  BY <1>1, HasTwo
<1>6. ~ Has(p, block_start_string) /\ ~ Has(p, variable_start_string) /\ ~ Has(p, comment_start_string)
  BY <1>4, <1>5, Zenon DEF Brace, block_start_string, variable_start_string, comment_start_string
<1>7. RawBeginAt(p) = 0
  BY <1>6, RawsHave
<1>8. QED
  BY <1>3, <1>6, <1>7, RulesAt

-----------------------------------------------------------------------------
(* What the lexer finds ahead                                              *)

LEMMA FirstIs ==
    ASSUME NEW I \in SUBSET (Nat \ {0}), NEW p \in I, \A q \in I : p <= q
    PROVE  First(I) = p
<1>1. I # {} /\ I \in SUBSET Nat
  OBVIOUS
<1>2. Min(I) \in I /\ \A k \in I : Min(I) <= k
  BY <1>1, MinIn
<1>3. Min(I) = p
  <2> DEFINE m == Min(I)
  <2>1. m <= p /\ p <= m /\ m \in Nat /\ p \in Nat
    BY <1>2
  <2> HIDE DEF m
  <2>2. m = p
    BY <2>1
  <2>3. QED
    BY <2>2 DEF m
<1>4. QED
  BY <1>1, <1>3 DEF First

(* The tags around a text.                                                 *)
LEMMA KindAt ==
    ASSUME Laid, NEW i \in 1..Len(texts)
    PROVE  /\ TagAt(i - 1).kind = "raw" <=> i \in 1..Len(tags) /\ tags[i].kind = "endraw"
           /\ i = Len(texts) \/ i \in 1..Len(tags)
<1>1. TagAt(i).kind = "endraw" <=> TagAt(i - 1).kind = "raw"
  BY DEF Laid, Template
<1>2. DOMAIN tags = 1..Len(tags)
  BY SizeOfTemplate DEF Laid
<1>3. NoTag.kind # "endraw"
  BY Zenon DEF NoTag
<1>4. TagAt(i).kind = "endraw" <=> i \in 1..Len(tags) /\ tags[i].kind = "endraw"
  <2>1. CASE i \in 1..Len(tags)
    BY <1>2, <2>1 DEF TagAt
  <2>2. CASE i \notin 1..Len(tags)
    <3>1. TagAt(i) = NoTag
      BY <1>2, <2>2 DEF TagAt
    <3>2. QED
      BY <1>3, <2>2, <3>1
  <2>3. QED
    BY <2>1, <2>2
<1>5. i = Len(texts) \/ i \in 1..Len(tags)
  BY LastText
<1>6. QED
  BY <1>1, <1>4, <1>5

(* The places from the entry of a text to the one it stops at.             *)
LEMMA AheadOf ==
    ASSUME Laid, NEW i \in 1..Len(texts), pos = Entry(i)
    PROVE  /\ pos \in Nat \ {0} /\ Stop(i) \in Nat \ {0} /\ pos <= Stop(i) /\ Len(source) \in Nat
           /\ Ahead \subseteq Nat \ {0}
           /\ i \in 1..Len(tags) => Stop(i) \in Ahead
           /\ \A q \in Ahead : q < Stop(i) => q \in places[i]..(Stop(i) - 1)
           /\ i = Len(texts) => Stop(i) = Len(source) + 1 /\ \A q \in Ahead : q \in places[i]..(Stop(i) - 1)
<1> DEFINE a == places[i]
           b == Stop(i)
           n == Len(source)
<1>1. a \in Nat \ {0} /\ b \in Nat \ {0} /\ a <= b /\ n \in Nat
  BY TextPlaces
<1>2. pos \in a..b
  BY EntryIn
<1>3. i \in 1..Len(tags) => b \in 1..n
  <2>1. i \in 1..Len(tags) => i # Len(texts)
    BY TagPlaces
  <2>2. QED
    BY <2>1, StopChar
<1>4. i = Len(texts) => b = n + 1
  BY DEF Laid
<1>5. Ahead = pos..n
  BY DEF Ahead
<1> HIDE DEF a, b, n
<1>6. pos \in Nat \ {0} /\ pos <= b
  BY <1>1, <1>2
<1>7. \A q \in pos..n : q \in Nat \ {0} /\ (q < b => q \in a..(b - 1))
  BY <1>1, <1>2
<1>8. i = Len(texts) => \A q \in pos..n : q < b
  BY <1>1, <1>4, <1>6
<1>9. i \in 1..Len(tags) => b \in pos..n
  BY <1>1, <1>3, <1>6
<1>10. QED
  BY <1>1, <1>4, <1>5, <1>6, <1>7, <1>8, <1>9 DEF a, b, n

LEMMA DirectiveIs ==
    ASSUME Laid, NEW i \in 1..Len(texts), TagAt(i - 1).kind # "raw", pos = Entry(i)
    PROVE  /\ i \in 1..Len(tags) => directive = Stop(i)
           /\ i = Len(texts) => directive = 0
<1> DEFINE I == {p \in Ahead : compile_rules(p) # <<>>}
<1>1. /\ Stop(i) \in Nat \ {0} /\ Ahead \subseteq Nat \ {0}
      /\ i \in 1..Len(tags) => Stop(i) \in Ahead
      /\ \A q \in Ahead : q < Stop(i) => q \in places[i]..(Stop(i) - 1)
      /\ i = Len(texts) => \A q \in Ahead : q \in places[i]..(Stop(i) - 1)
  BY AheadOf
<1>2. \A q \in places[i]..(Stop(i) - 1) : compile_rules(q) = <<>>
  BY NoRule
<1>3. directive = First(I)
  BY DEF directive
<1>4. ASSUME i \in 1..Len(tags) PROVE directive = Stop(i)
  <2>1. tags[i].kind # "endraw"
    BY <1>4, KindAt
  <2>2. compile_rules(Stop(i)) # <<>>
    BY <1>4, <2>1, RuleHere
  <2>3. I \in SUBSET (Nat \ {0}) /\ Stop(i) \in I
    BY <1>1, <1>4, <2>2
  <2>4. \A q \in I : Stop(i) <= q
    <3>1. ASSUME NEW q \in I PROVE Stop(i) <= q
      <4>1. ~ (q < Stop(i))
        BY <1>1, <1>2
      <4>2. q \in Nat
        BY <2>3
      <4>3. QED
        BY <1>1, <4>1, <4>2
    <3>2. QED
      BY <3>1
  <2> HIDE DEF I
  <2>5. QED
    BY <1>3, <2>3, <2>4, FirstIs
<1>5. ASSUME i = Len(texts) PROVE directive = 0
  <2>1. I = {}
    BY <1>1, <1>2, <1>5
  <2> HIDE DEF I
  <2>2. QED
    BY <1>3, <2>1 DEF First
<1>6. QED
  BY <1>4, <1>5

(* A raw block ends at its end tag.                                        *)
LEMMA NoRawEnd ==
    ASSUME Laid, NEW i \in 1..Len(tags), TagAt(i - 1).kind = "raw", NEW p \in places[i]..(Stop(i) - 1)
    PROVE  RawEndAt(p) = 0
<1> DEFINE t == texts[i]
           a == places[i]
           b == Stop(i)
           l == Len(t)
<1>1. i \in 1..Len(texts) /\ t = TextAt(i)
  BY TagPlaces
<1>2. a \in Nat \ {0} /\ b \in Nat /\ a <= b /\ l = b - a /\ p \in a..(b - 1)
  BY <1>1, TextPlaces
<1>3. \A q \in a..(b - 1) : Char(q) = t[q - a + 1]
  BY <1>1, TextChars
<1>4. Char(b) \in {Brace, None}
  BY <1>1, StopChar
<1>5. \A k \in 1..(l - 1) : <<t[k], t[k + 1]>> # block_start_string
  <2>1. Raw(t)
    BY <1>1 DEF Laid, Template
  <2>2. QED
    BY <2>1 DEF Raw
<1>6. "%" \notin {Brace, None}
  BY Zenon DEF Brace, None
<1>7. \A x, y : Has(p, <<x, y>>) => Char(p) = x /\ Char(p + 1) = y
  <2>1. p \in Nat
    <3> HIDE DEF a, b
    <3>1. QED
      BY <1>2
  <2>2. QED
    BY <2>1, HasTwo
<1>8. ~ Has(p, block_start_string)
  <2>1. CASE p + 1 = b
    <3>1. Has(p, <<"{", "%">>) => Char(p + 1) = "%"
      BY <1>7
    <3>2. QED
      BY <1>4, <1>6, <2>1, <3>1, Zenon DEF block_start_string
  <2>2. CASE p + 1 # b
    <3> DEFINE k == p - a + 1
    <3> HIDE DEF a, b, l
    <3>1. p + 1 \in a..(b - 1) /\ k \in 1..(l - 1) /\ p + 1 - a + 1 = k + 1
      BY <1>2, <2>2
    <3> HIDE DEF k, t
    <3>2. Char(p) = t[k] /\ Char(p + 1) = t[k + 1]
      <4>1. Char(p) = t[p - a + 1] /\ Char(p + 1) = t[p + 1 - a + 1]
        BY <1>2, <1>3, <3>1
      <4>2. QED
        BY <3>1, <4>1 DEF k
    <3>3. <<Char(p), Char(p + 1)>> # block_start_string
      BY <1>5, <3>1, <3>2
    <3>4. Has(p, <<"{", "%">>) => Char(p) = "{" /\ Char(p + 1) = "%"
      BY <1>7, Zenon
    <3>5. QED
      BY <3>3, <3>4, Zenon DEF block_start_string
  <2>3. QED
    BY <2>1, <2>2
<1>9. QED
  BY <1>8, RawsHave

LEMMA RawEndIs ==
    ASSUME Laid, NEW i \in 1..Len(texts), TagAt(i - 1).kind = "raw", pos = Entry(i)
    PROVE  /\ i \in 1..Len(tags) /\ tags[i].kind = "endraw"
           /\ First({q \in Ahead : RawEndAt(q) # 0}) = Stop(i)
           /\ RawEndAt(Stop(i)) = Entry(i + 1) /\ Stop(i) # 0
<1> DEFINE I == {q \in Ahead : RawEndAt(q) # 0}
<1>1. i \in 1..Len(tags) /\ tags[i].kind = "endraw"
  BY KindAt
<1>2. /\ Stop(i) \in Nat \ {0} /\ Ahead \subseteq Nat \ {0} /\ Stop(i) \in Ahead
      /\ \A q \in Ahead : q < Stop(i) => q \in places[i]..(Stop(i) - 1)
  BY <1>1, AheadOf
<1>3. RawEndAt(Stop(i)) = Entry(i + 1)
  BY <1>1, WordHere
<1>4. Entry(i + 1) # 0
  <2>1. i + 1 \in 1..Len(texts)
    BY <1>1, TagPlaces
  <2>2. Entry(i + 1) \in places[i + 1]..Stop(i + 1) /\ places[i + 1] \in Nat \ {0} /\ Stop(i + 1) \in Nat
    BY <2>1, EntryIn, TextPlaces
  <2> DEFINE e == Entry(i + 1)
             a == places[i + 1]
             b == Stop(i + 1)
  <2>3. e \in a..b /\ a \in Nat \ {0} /\ b \in Nat
    BY <2>2
  <2> HIDE DEF e, a, b
  <2>4. e # 0
    BY <2>3
  <2>5. QED
    BY <2>4 DEF e
<1>5. I \in SUBSET (Nat \ {0}) /\ Stop(i) \in I
  BY <1>2, <1>3, <1>4
<1>6. \A q \in I : Stop(i) <= q
  <2>1. ASSUME NEW q \in I PROVE Stop(i) <= q
    <3>1. ~ (q < Stop(i))
      BY <1>1, <1>2, NoRawEnd
    <3>2. q \in Nat
      BY <1>5
    <3>3. QED
      BY <1>2, <3>1, <3>2
  <2>2. QED
    BY <2>1
<1> HIDE DEF I
<1>7. First(I) = Stop(i)
  BY <1>5, <1>6, FirstIs
<1>8. QED
  BY <1>1, <1>2, <1>3, <1>7 DEF I

-----------------------------------------------------------------------------
(* Inside of a tag                                                         *)

LEMMA EntryPositive ==
    ASSUME Laid, NEW i \in 1..Len(texts)
    PROVE  Entry(i) \in Nat \ {0} /\ Entry(i) <= Len(source) + 1 /\ Entry(i) >= places[i]
<1> DEFINE e == Entry(i)
           a == places[i]
           b == Stop(i)
           n == Len(source)
<1>1. e \in a..b /\ a \in Nat \ {0} /\ b \in Nat /\ n \in Nat /\ b <= n + 1
  BY EntryIn, TextPlaces
<1> HIDE DEF e, a, b, n
<1>2. e \in Nat \ {0} /\ e <= n + 1 /\ e >= a
  BY <1>1
<1>3. QED
  BY <1>2 DEF e, a, n

LEMMA NameChars ==
    ASSUME Laid, NEW i \in 1..Len(tags), NEW q \in NamePlace(i)..(EndPlace(i) - 1)
    PROVE  /\ q \in Nat \ {0} /\ Char(q) \in Words /\ q \in 1..Len(source)
           /\ q - NamePlace(i) + 1 \in 1..Len(Name(tags[i]))
           /\ Char(q) = Name(tags[i])[q - NamePlace(i) + 1]
           /\ NamePlace(i) \in Nat \ {0} /\ EndPlace(i) \in Nat \ {0} /\ EndPlace(i) = NamePlace(i) + Len(Name(tags[i]))
<1> DEFINE p == NamePlace(i)
           e == EndPlace(i)
           w == Len(Name(tags[i]))
           k == q - p + 1
<1>1. /\ tags[i] \in Tag /\ Stop(i) \in Nat \ {0} /\ p \in {Stop(i) + 2, Stop(i) + 3} /\ w \in 1..3
      /\ e = p + w /\ q \in p..(e - 1)
  BY TagPlaces
<1>2. \A j \in 1..w : Char(p + j - 1) = Name(tags[i])[j]
  BY TagChars
<1> HIDE DEF p, e, w
<1>3. p \in Nat \ {0} /\ e \in Nat \ {0} /\ q \in Nat \ {0} /\ k \in 1..w /\ p + k - 1 = q
  BY <1>1
<1> HIDE DEF k
<1>4. Char(q) = Name(tags[i])[k]
  BY <1>2, <1>3
<1>5. Char(q) \in Words
  BY <1>1, <1>3, <1>4, NameWords DEF w
<1>6. None \notin Words
  BY Zenon DEF None, Words
<1>7. q \in 1..Len(source)
  BY <1>5, <1>6, CharIn
<1>8. QED
  BY <1>1, <1>3, <1>4, <1>5, <1>7 DEF p, e, w, k

LEMMA NameNoEnd ==
    ASSUME Laid, NEW i \in 1..Len(tags), NEW q \in NamePlace(i)..(EndPlace(i) - 1), NEW plus, NEW trim
    PROVE  AfterEnd(q, Close(tags[i]), plus, trim) = 0
<1>1. q \in Nat /\ Char(q) \in Words /\ tags[i] \in Tag
  BY NameChars, TagPlaces
<1> DEFINE x == Close(tags[i])[1]
           y == Close(tags[i])[2]
<1>2. Close(tags[i]) = <<x, y>> /\ x \in {"%", "}", "#"}
  BY <1>1, Pairs
<1> HIDE DEF x, y
<1>3. Char(q) \notin {"+", "-"} /\ Char(q) # x
  BY <1>1, <1>2, WordsApart, Zenon
<1>4. AfterEnd(q, <<x, y>>, plus, trim) = 0
  BY <1>1, <1>3, NoEnd
<1>5. QED
  BY <1>2, <1>4, Zenon

(* A comment ends at its end tag.                                          *)
LEMMA CommentIs ==
    ASSUME Laid, NEW i \in 1..Len(tags), tags[i].kind = "comment", pos = NamePlace(i)
    PROVE  /\ First({q \in Ahead : CommentEndAt(q) # 0}) = EndPlace(i) /\ EndPlace(i) # 0
           /\ CommentEndAt(EndPlace(i)) = Entry(i + 1)
<1> DEFINE I == {q \in Ahead : CommentEndAt(q) # 0}
           p == NamePlace(i)
           e == EndPlace(i)
           n == Len(source)
<1>1. tags[i] \in Tag /\ i + 1 \in 1..Len(texts)
  BY TagPlaces
<1>2. Close(tags[i]) = comment_end_string /\ tags[i].kind \in Trims
  <2>1. Close(tags[i]) = <<"#", "}">>
    BY <1>1, DelimitersOf, Zenon
  <2>2. QED
    BY <2>1, Zenon DEF comment_end_string, Trims
<1>3. CommentEndAt(e) = Entry(i + 1)
  <2>1. AfterEnd(e, Close(tags[i]), TRUE, options.trim_blocks) = Entry(i + 1)
    BY <1>2, EndHere
  <2>2. QED
    BY <1>2, <2>1, Zenon DEF CommentEndAt
<1>4. Entry(i + 1) # 0
  BY <1>1, EntryPositive
<1>5. \A q \in p..(e - 1) : CommentEndAt(q) = 0
  <2>1. ASSUME NEW q \in p..(e - 1) PROVE CommentEndAt(q) = 0
    <3>1. AfterEnd(q, Close(tags[i]), TRUE, options.trim_blocks) = 0
      BY NameNoEnd
    <3>2. QED
      BY <1>2, <3>1, Zenon DEF CommentEndAt
  <2>2. QED
    BY <2>1
<1>6. /\ Stop(i) \in Nat \ {0} /\ p \in {Stop(i) + 2, Stop(i) + 3} /\ Len(Name(tags[i])) \in 1..3
      /\ e = p + Len(Name(tags[i])) /\ n \in Nat /\ e \in 1..n
  BY TagPlaces, EndChar
<1>7. Ahead = p..n
  BY DEF Ahead
<1> HIDE DEF p, e, n
<1>8. p \in Nat \ {0} /\ p <= e
  <2> DEFINE w == Len(Name(tags[i]))
  <2>1. Stop(i) \in Nat /\ p \in {Stop(i) + 2, Stop(i) + 3} /\ w \in 1..3 /\ e = p + w
    BY <1>6
  <2> HIDE DEF w
  <2>2. QED
    BY <2>1
<1>9. I \in SUBSET (Nat \ {0}) /\ e \in I
  BY <1>3, <1>4, <1>6, <1>7, <1>8
<1>10. \A q \in I : e <= q
  <2>1. ASSUME NEW q \in I PROVE e <= q
    <3>1. q \in p..n /\ q \notin p..(e - 1)
      BY <1>5, <1>7
    <3>2. QED
      BY <1>6, <1>8, <3>1
  <2>2. QED
    BY <2>1
<1> HIDE DEF I
<1>11. First(I) = e
  BY <1>9, <1>10, FirstIs
<1>12. QED
  BY <1>3, <1>6, <1>11 DEF I, e, n

(* A block and an expression end there too, and nowhere before.            *)
LEMMA EndInside ==
    ASSUME Laid, NEW i \in 1..Len(tags), tags[i].kind \in {"block", "variable"},
           stack = <<"root", Begin(tags[i].kind)>>
    PROVE  /\ InTag /\ EndAt(EndPlace(i)) = Entry(i + 1) /\ EndAt(EndPlace(i)) # 0
           /\ \A q \in NamePlace(i)..(EndPlace(i) - 1) : EndAt(q) = 0
<1> DEFINE e == EndPlace(i)
           tag == tags[i]
<1>1. tag \in Tag /\ i + 1 \in 1..Len(texts)
  BY TagPlaces
<1>2. Entry(i + 1) # 0
  BY <1>1, EntryPositive
<1>3. Last(stack) = Begin(tag.kind) /\ stack # <<>>
  <2>1. \A x, y : Last(<<x, y>>) = y /\ <<x, y>> # <<>>
    BY Shapes
  <2>2. QED
    BY <2>1, Zenon
<1>4. \A plus, trim : \A q \in NamePlace(i)..(e - 1) : AfterEnd(q, Close(tag), plus, trim) = 0
  BY NameNoEnd
<1>5. CASE tag.kind = "block"
  <2>1. In("block_begin")
    BY <1>3, <1>5 DEF In, Begin
  <2>2. Close(tag) = block_end_string /\ tag.kind \in Trims
    <3>1. Close(tag) = <<"%", "}">>
      BY <1>1, <1>5, DelimitersOf, Zenon
    <3>2. QED
      BY <1>5, <3>1, Zenon DEF block_end_string, Trims
  <2>3. AfterEnd(e, Close(tag), TRUE, options.trim_blocks) = Entry(i + 1)
    BY <2>2, EndHere
  <2>4. \A q : EndAt(q) = AfterEnd(q, Close(tag), TRUE, options.trim_blocks)
    BY <2>1, <2>2, Zenon DEF EndAt, BlockEndAt
  <2>5. QED
    BY <1>2, <1>4, <2>1, <2>3, <2>4, Zenon DEF InTag
<1>6. CASE tag.kind = "variable"
  <2>1. In("variable_begin") /\ ~ In("block_begin")
    BY <1>3, <1>6 DEF In, Begin
  <2>2. Close(tag) = variable_end_string /\ tag.kind \notin Trims
    <3>1. Close(tag) = <<"}", "}">>
      BY <1>1, <1>6, DelimitersOf, Zenon
    <3>2. QED
      BY <1>6, <3>1, Zenon DEF variable_end_string, Trims
  <2>3. AfterEnd(e, Close(tag), FALSE, FALSE) = Entry(i + 1)
    BY <2>2, EndHere
  <2>4. \A q : EndAt(q) = AfterEnd(q, Close(tag), FALSE, FALSE)
    BY <2>1, <2>2, Zenon DEF EndAt, VariableEndAt
  <2>5. QED
    BY <1>2, <1>4, <2>1, <2>3, <2>4, Zenon DEF InTag
<1>7. QED
  BY <1>5, <1>6

(* What is in a tag is read a symbol at a time.                            *)
LEMMA LexemeHere ==
    ASSUME Laid, NEW i \in 1..Len(tags), tags[i].kind \in {"block", "variable"},
           NEW q \in NamePlace(i)..(EndPlace(i) - 1)
    PROVE  /\ Lexeme(q) # <<>> /\ Head(Lexeme(q)).end = q + 1
           /\ Head(Lexeme(q)).kind \in {"whitespace", "name"}
<1> DEFINE p == NamePlace(i)
           k == q - p + 1
           tag == tags[i]
           w == Len(Name(tag))
           lexeme(kind, end) == <<[kind |-> kind, end |-> end]>>
<1>1. /\ q \in Nat \ {0} /\ k \in 1..w /\ Char(q) = Name(tag)[k] /\ p \in Nat \ {0}
      /\ EndPlace(i) = p + w /\ tag \in Tag
  BY NameChars, TagPlaces
<1>2. \/ w = 1 /\ Name(tag)[1] = "x"
      \/ w = 3 /\ Name(tag)[1] \in Space /\ Name(tag)[2] = "x" /\ Name(tag)[3] \in Space
  BY <1>1, NameClass
<1>3. "x" \in Letters \ {"1"} /\ "x" \notin Space /\ \A c \in Space : c \notin Letters
  BY Zenon DEF Letters, Space, Blank
<1>4. Char(EndPlace(i)) \notin Space /\ Char(EndPlace(i)) \notin Letters
  BY EndChar
<1>5. k \in 1..(w + 1) /\ k + 1 \in k..(w + 1) /\ p + k - 1 = q /\ p + (k + 1) - 1 = q + 1
      /\ \A j \in k..((k + 1) - 1) : j = k
  <2>0. w \in Nat
    BY <1>2
  <2> DEFINE l == w
  <2>1. l \in Nat /\ k \in 1..l /\ k = q - p + 1 /\ p \in Nat /\ q \in Nat
    BY <1>1, <2>0
  <2> HIDE DEF l, p, k
  <2>2. k \in 1..(l + 1) /\ k + 1 \in k..(l + 1) /\ p + k - 1 = q /\ p + (k + 1) - 1 = q + 1
        /\ \A j \in k..((k + 1) - 1) : j = k
    BY <2>1
  <2>3. QED
    BY <2>2 DEF l
<1>6. \A x : Head(<<x>>) = x /\ <<x>> # <<>>
  OBVIOUS
<1>7. \A kind, end : lexeme(kind, end) # <<>> /\ Head(lexeme(kind, end)).kind = kind
                     /\ Head(lexeme(kind, end)).end = end
  OBVIOUS
<1> HIDE DEF p, k, w, tag
<1>8. \/ k = 1 /\ w = 1 /\ Name(tag)[k] = "x"
      \/ k \in {1, 3} /\ w = 3 /\ Name(tag)[k] \in Space
      \/ k = 2 /\ w = 3 /\ Name(tag)[k] = "x"
  BY <1>1, <1>2
<1>9. CASE Name(tag)[k] \in Space
  <2>1. k + 1 <= w => Name(tag)[k + 1] \notin Space
    BY <1>2, <1>3, <1>8, <1>9
  <2>2. \A j \in k..((k + 1) - 1) : Name(tag)[j] \in Space
    BY <1>5, <1>9
  <2>3. After(q, Space) = q + 1
    BY <1>4, <1>5, <2>1, <2>2, NameAfter DEF p, w, tag
  <2>4. Lexeme(q) = lexeme("whitespace", After(q, Space))
    <3>1. Char(q) \in Space /\ Char(q) \notin Letters
      BY <1>1, <1>3, <1>9
    <3>2. "'" \notin Space /\ "1" \notin Space
      BY Zenon DEF Space, Blank
    <3>3. QED
      BY <3>1, <3>2 DEF Lexeme
  <2> HIDE DEF lexeme
  <2>5. QED
    BY <1>7, <2>3, <2>4, Zenon
<1>10. CASE Name(tag)[k] = "x"
  <2>1. k + 1 <= w => Name(tag)[k + 1] \notin Letters
    BY <1>2, <1>3, <1>8, <1>10
  <2>2. \A j \in k..((k + 1) - 1) : Name(tag)[j] \in Letters
    BY <1>3, <1>5, <1>10
  <2>3. After(q, Letters) = q + 1
    BY <1>4, <1>5, <2>1, <2>2, NameAfter DEF p, w, tag
  <2>4. Lexeme(q) = lexeme("name", After(q, Letters))
    <3>1. Char(q) = "x" /\ Char(q) \in Letters \ {"1"} /\ Char(q) \notin Space
      BY <1>1, <1>3, <1>10
    <3>2. "x" # "'" /\ "x" # "1"
      BY Zenon
    <3>3. QED
      BY <3>1, <3>2 DEF Lexeme
  <2> HIDE DEF lexeme
  <2>5. QED
    BY <1>7, <2>3, <2>4, Zenon
<1>11. QED
  BY <1>8, <1>9, <1>10

-----------------------------------------------------------------------------
(* What has been said of the texts                                         *)

LEMMA Order ==
    ASSUME Laid, NEW i \in 1..Len(texts), NEW j \in 1..Len(texts), i < j
    PROVE  TagPlace(i) < places[j] /\ TagPlace(i) \in Nat /\ places[j] \in Nat
<1> DEFINE n == Len(texts)
           m == Len(tags)
<1>1. m \in Nat /\ n = m + 1
  BY SizeOfTemplate DEF Laid
<1>2. \A k \in 1..n : places[k] \in Nat /\ TagPlace(k) \in Nat /\ places[k] <= TagPlace(k)
  <2>1. ASSUME NEW k \in 1..n PROVE places[k] \in Nat /\ TagPlace(k) \in Nat /\ places[k] <= TagPlace(k)
    <3>1. /\ places[k] \in Nat \ {0} /\ Stop(k) \in Nat \ {0} /\ places[k] <= Stop(k)
          /\ TagPlace(k) \in Nat /\ Stop(k) <= TagPlace(k)
      BY TextPlaces
    <3>2. QED
      BY <3>1
  <2>2. QED
    BY <2>1
<1>3. \A k \in 1..m : TagPlace(k) < places[k + 1]
  <2>1. ASSUME NEW k \in 1..m PROVE TagPlace(k) < places[k + 1]
    <3>1. Template /\ places[k + 1] = Stop(k) + Len(Spelled(tags[k])) /\ Stop(k) = TagPlace(k)
      BY DEF Laid
    <3>2. Len(Spelled(tags[k])) \in Nat /\ Len(Spelled(tags[k])) > 0
      BY <3>1, SpelledSize
    <3>3. TagPlace(k) \in Nat
      <4>1. k \in 1..n
        BY TagPlaces
      <4>2. QED
        BY <1>2, <4>1
    <3>4. QED
      BY <3>1, <3>2, <3>3
  <2>2. QED
    BY <2>1
<1>4. \A k \in 1..n : k + 1 <= n => k \in 1..m /\ k + 1 \in 1..n
  <2> HIDE DEF m, n
  <2>1. QED
    BY <1>1
<1>5. \A k \in 1..n : k + 1 <= n => places[k] <= places[k + 1]
  <2>1. ASSUME NEW k \in 1..n, k + 1 <= n PROVE places[k] <= places[k + 1]
    <3>1. /\ places[k] \in Nat /\ TagPlace(k) \in Nat /\ places[k + 1] \in Nat
          /\ places[k] <= TagPlace(k) /\ TagPlace(k) < places[k + 1]
      BY <1>2, <1>3, <1>4, <2>1
    <3>2. QED
      BY <3>1
  <2>2. QED
    BY <2>1
<1>6. n \in Nat
  <2> HIDE DEF m, n
  <2>1. QED
    BY <1>1
<1>7. \A k, l \in 1..n : k <= l => places[k] <= places[l]
  BY <1>2, <1>5, <1>6, Ascending
<1>8. i \in 1..n /\ j \in 1..n
  OBVIOUS
<1>9. i + 1 <= j /\ i + 1 <= n /\ i + 1 \in 1..n
  <2> HIDE DEF m, n
  <2>1. QED
    BY <1>6, <1>8
<1>10. places[i + 1] <= places[j] /\ TagPlace(i) < places[i + 1] /\ TagPlace(i) \in Nat
       /\ places[i + 1] \in Nat /\ places[j] \in Nat
  BY <1>2, <1>3, <1>4, <1>7, <1>8, <1>9
<1>11. QED
  BY <1>10

(* The data tokens of text i, as DataOf has them.                          *)
DataIn(toks, i) ==
    {k \in 1..Len(toks) : toks[k].kind = "data" /\ toks[k].at \in places[i]..(TagPlace(i) - 1)}

(* The texts before text n, and no others, are said as they should be.     *)
Said(toks, n) ==
    /\ \A k \in 1..Len(toks) : toks[k].kind = "data" => \E i \in 1..Len(texts) : i < n /\ k \in DataIn(toks, i)
    /\ \A i \in 1..Len(texts) : i < n =>
           /\ \A j, k \in DataIn(toks, i) : j = k /\ toks[k].text = Controlled(i)
           /\ Controlled(i) # <<>> => DataIn(toks, i) # {}

LEMMA NotYet ==
    ASSUME Laid, NEW toks, NEW n \in Nat, Said(toks, n), NEW i \in 1..Len(texts), n <= i
    PROVE  DataIn(toks, i) = {}
<1>1. SUFFICES ASSUME NEW k \in DataIn(toks, i) PROVE FALSE
  OBVIOUS
<1>2. k \in 1..Len(toks) /\ toks[k].kind = "data" /\ toks[k].at \in places[i]..(TagPlace(i) - 1)
  BY DEF DataIn
<1>3. PICK j \in 1..Len(texts) : j < n /\ k \in DataIn(toks, j)
  BY <1>2 DEF Said
<1>4. toks[k].at \in places[j]..(TagPlace(j) - 1)
  BY <1>3 DEF DataIn
<1>5. j < i
  <2>1. j \in Nat /\ i \in Nat
    OBVIOUS
  <2>2. QED
    BY <1>3, <2>1
<1>6. TagPlace(j) < places[i] /\ TagPlace(j) \in Nat /\ places[i] \in Nat
  BY <1>5, Order
<1> DEFINE a == toks[k].at
<1>7. a \in Int /\ a >= places[i] /\ a <= TagPlace(j) - 1
  BY <1>2, <1>4
<1> HIDE DEF a
<1>8. QED
  BY <1>6, <1>7

LEMMA SaidEmpty ==
    ASSUME Laid, NEW toks, NEW n \in 1..Len(texts), Said(toks, n), Controlled(n) = <<>>
    PROVE  Said(toks, n + 1)
<1>1. n \in Nat /\ \A i \in 1..Len(texts) : (i < n + 1 => i < n \/ i = n) /\ (i < n => i < n + 1)
  OBVIOUS
<1>2. DataIn(toks, n) = {}
  BY <1>1, NotYet
<1>3. \A k \in 1..Len(toks) :
          toks[k].kind = "data" => \E i \in 1..Len(texts) : i < n + 1 /\ k \in DataIn(toks, i)
  BY <1>1 DEF Said
<1>4. ASSUME NEW i \in 1..Len(texts), i < n + 1
      PROVE  /\ \A j, k \in DataIn(toks, i) : j = k /\ toks[k].text = Controlled(i)
             /\ Controlled(i) # <<>> => DataIn(toks, i) # {}
  <2>1. CASE i < n
    BY <2>1, Zenon DEF Said
  <2>2. CASE i = n
    BY <1>2, <2>2
  <2>3. QED
    BY <1>1, <1>4, <2>1, <2>2
<1>5. QED
  BY <1>3, <1>4 DEF Said

(* One token more.                                                         *)
LEMMA OneMore ==
    ASSUME NEW S, NEW toks \in Seq(S), NEW t \in S
    PROVE  LET new == toks \o <<t>> IN
           /\ Len(toks) \in Nat /\ Len(new) = Len(toks) + 1 /\ new[Len(toks) + 1] = t
           /\ \A k \in 1..Len(toks) : new[k] = toks[k]
           /\ \A i : t.kind # "data" => DataIn(new, i) = DataIn(toks, i)
           /\ \A i : t.at \notin places[i]..(TagPlace(i) - 1) => DataIn(new, i) = DataIn(toks, i)
           /\ \A i : t.kind = "data" /\ t.at \in places[i]..(TagPlace(i) - 1) =>
                         DataIn(new, i) = DataIn(toks, i) \cup {Len(toks) + 1}
<1> DEFINE new == toks \o <<t>>
           l == Len(toks)
<1>1. l \in Nat /\ Len(new) = l + 1 /\ new[l + 1] = t /\ \A k \in 1..l : new[k] = toks[k]
  OBVIOUS
<1> HIDE DEF new, l
<1>2. 1..(l + 1) = (1..l) \cup {l + 1}
  BY <1>1
<1> DEFINE Of(u, i) == u.kind = "data" /\ u.at \in places[i]..(TagPlace(i) - 1)
<1>3. \A i : DataIn(new, i) = {k \in 1..(l + 1) : Of(new[k], i)}
  BY <1>1 DEF DataIn
<1>4. \A i : DataIn(toks, i) = {k \in 1..l : Of(toks[k], i)}
  BY <1>1 DEF DataIn, l
<1>5. ASSUME NEW i, t.kind # "data" \/ t.at \notin places[i]..(TagPlace(i) - 1)
      PROVE  DataIn(new, i) = DataIn(toks, i)
  <2>1. ~ Of(t, i)
    BY <1>5
  <2> HIDE DEF Of
  <2>2. {k \in 1..(l + 1) : Of(new[k], i)} = {k \in 1..l : Of(toks[k], i)}
    BY <1>1, <1>2, <2>1
  <2>3. QED
    BY <1>3, <1>4, <2>2
<1>6. ASSUME NEW i, t.kind = "data", t.at \in places[i]..(TagPlace(i) - 1)
      PROVE  DataIn(new, i) = DataIn(toks, i) \cup {l + 1}
  <2>1. Of(t, i)
    BY <1>6
  <2> HIDE DEF Of
  <2>2. {k \in 1..(l + 1) : Of(new[k], i)} = {k \in 1..l : Of(toks[k], i)} \cup {l + 1}
    BY <1>1, <1>2, <2>1
  <2>3. QED
    BY <1>3, <1>4, <2>2
<1>7. QED
  BY <1>1, <1>5, <1>6 DEF new, l

LEMMA SaidOther ==
    ASSUME NEW S, NEW toks \in Seq(S), NEW n, Said(toks, n), NEW t \in S, t.kind # "data"
    PROVE  Said(toks \o <<t>>, n)
<1> DEFINE new == toks \o <<t>>
           l == Len(toks)
<1>1. /\ l \in Nat /\ Len(new) = l + 1 /\ new[l + 1] = t
      /\ \A k \in 1..l : new[k] = toks[k]
      /\ \A i : DataIn(new, i) = DataIn(toks, i)
  BY OneMore
<1> HIDE DEF new, l
<1>2. \A k \in 1..(l + 1) : k \in 1..l \/ k = l + 1
  BY <1>1
<1>3. \A k \in 1..l : toks[k].kind = "data" => \E i \in 1..Len(texts) : i < n /\ k \in DataIn(toks, i)
  BY DEF Said, l
<1>4. \A k \in 1..Len(new) : new[k].kind = "data" => \E i \in 1..Len(texts) : i < n /\ k \in DataIn(new, i)
  BY <1>1, <1>2, <1>3, Zenon
<1>5. ASSUME NEW i \in 1..Len(texts), i < n
      PROVE  /\ \A j, k \in DataIn(new, i) : j = k /\ new[k].text = Controlled(i)
             /\ Controlled(i) # <<>> => DataIn(new, i) # {}
  <2>1. /\ \A j, k \in DataIn(toks, i) : j = k /\ toks[k].text = Controlled(i)
        /\ Controlled(i) # <<>> => DataIn(toks, i) # {}
    BY <1>5, Zenon DEF Said
  <2>2. \A k \in DataIn(toks, i) : new[k] = toks[k]
    BY <1>1 DEF DataIn, l
  <2>3. QED
    BY <1>1, <2>1, <2>2, Zenon
<1>6. Said(new, n)
  BY <1>4, <1>5, Zenon DEF Said
<1>7. QED
  BY <1>6 DEF new

LEMMA SaidData ==
    ASSUME Laid, NEW S, NEW toks \in Seq(S), NEW n \in 1..Len(texts), Said(toks, n),
           NEW t \in S, t.kind = "data", t.at \in places[n]..(TagPlace(n) - 1), t.text = Controlled(n)
    PROVE  Said(toks \o <<t>>, n + 1)
<1> DEFINE new == toks \o <<t>>
           l == Len(toks)
<1>0. n \in Nat /\ \A i \in 1..Len(texts) : (i < n + 1 => i < n \/ i = n) /\ (i < n => i < n + 1)
      /\ n < n + 1
  OBVIOUS
<1>1. /\ l \in Nat /\ Len(new) = l + 1 /\ new[l + 1] = t
      /\ \A k \in 1..l : new[k] = toks[k]
      /\ \A i : t.at \notin places[i]..(TagPlace(i) - 1) => DataIn(new, i) = DataIn(toks, i)
      /\ DataIn(new, n) = DataIn(toks, n) \cup {l + 1}
  BY OneMore
<1>2. DataIn(toks, n) = {}
  BY <1>0, NotYet
<1>3. \A i \in 1..Len(texts) : i < n => t.at \notin places[i]..(TagPlace(i) - 1)
  <2>1. ASSUME NEW i \in 1..Len(texts), i < n, t.at \in places[i]..(TagPlace(i) - 1) PROVE FALSE
    <3>1. TagPlace(i) < places[n] /\ TagPlace(i) \in Nat /\ places[n] \in Nat
      BY <2>1, Order
    <3> DEFINE a == t.at
    <3>2. a \in Int /\ a >= places[n] /\ a <= TagPlace(i) - 1
      BY <2>1
    <3> HIDE DEF a
    <3>3. QED
      BY <3>1, <3>2
  <2>2. QED
    BY <2>1
<1> HIDE DEF new, l
<1>4. \A k \in 1..(l + 1) : k \in 1..l \/ k = l + 1
  BY <1>1
<1>5. \A k \in 1..l : toks[k].kind = "data" => \E i \in 1..Len(texts) : i < n /\ k \in DataIn(toks, i)
  BY DEF Said, l
<1>6. \A k \in 1..Len(new) : new[k].kind = "data" => \E i \in 1..Len(texts) : i < n + 1 /\ k \in DataIn(new, i)
  <2>1. ASSUME NEW k \in 1..Len(new), new[k].kind = "data"
        PROVE  \E i \in 1..Len(texts) : i < n + 1 /\ k \in DataIn(new, i)
    <3>1. CASE k \in 1..l
      <4>1. PICK i \in 1..Len(texts) : i < n /\ k \in DataIn(toks, i)
        BY <1>1, <1>5, <2>1, <3>1, Zenon
      <4>2. DataIn(new, i) = DataIn(toks, i)
        BY <1>1, <1>3, <4>1
      <4>3. i < n + 1
        BY <1>0, <4>1
      <4>4. QED
        BY <4>1, <4>2, <4>3
    <3>2. CASE k = l + 1
      <4>1. k \in DataIn(new, n)
        BY <1>1, <3>2
      <4>2. QED
        BY <1>0, <4>1
    <3>3. QED
      BY <1>1, <1>4, <3>1, <3>2
  <2>2. QED
    BY <2>1
<1>7. ASSUME NEW i \in 1..Len(texts), i < n + 1
      PROVE  /\ \A j, k \in DataIn(new, i) : j = k /\ new[k].text = Controlled(i)
             /\ Controlled(i) # <<>> => DataIn(new, i) # {}
  <2>1. CASE i < n
    <3>1. /\ \A j, k \in DataIn(toks, i) : j = k /\ toks[k].text = Controlled(i)
          /\ Controlled(i) # <<>> => DataIn(toks, i) # {}
      BY <2>1, Zenon DEF Said
    <3>2. \A k \in DataIn(toks, i) : new[k] = toks[k]
      BY <1>1 DEF DataIn, l
    <3>3. DataIn(new, i) = DataIn(toks, i)
      BY <1>1, <1>3, <2>1
    <3>4. QED
      BY <3>1, <3>2, <3>3, Zenon
  <2>2. CASE i = n
    <3>1. DataIn(new, i) = {l + 1}
      BY <1>1, <1>2, <2>2
    <3>2. QED
      BY <1>1, <2>2, <3>1
  <2>3. QED
    BY <1>0, <1>7, <2>1, <2>2
<1>8. Said(new, n + 1)
  BY <1>6, <1>7, Zenon DEF Said
<1>9. QED
  BY <1>8 DEF new

-----------------------------------------------------------------------------
(* What is said more by a step                                             *)

LEMMA SeqMore ==
    ASSUME NEW S, NEW t, NEW q \in Seq(S)
    PROVE  q \in Seq(S \cup {t}) /\ q \o <<t>> \in Seq(S \cup {t}) /\ q \o <<>> = q
  OBVIOUS

(* What is yielded of a group.                                             *)
LEMMA YieldNothing ==
    ASSUME NEW g, g.kind = "data", g.text = <<>>, NEW line
    PROVE  Yield(g, line) = <<>>
<1>1. "data" \in ignore_if_empty
  BY DEF ignore_if_empty
<1>2. QED
  BY <1>1 DEF Yield

LEMMA YieldOther ==
    ASSUME NEW S, NEW toks \in Seq(S), NEW n, Said(toks, n), NEW g, g.kind # "data", NEW line
    PROVE  \E T : toks \o Yield(g, line) \in Seq(T) /\ Said(toks \o Yield(g, line), n)
<1> DEFINE t == [kind |-> g.kind, text |-> g.text, at |-> g.at, lineno |-> line]
<1>1. Yield(g, line) = <<>> \/ Yield(g, line) = <<t>>
  BY DEF Yield
<1>2. t.kind # "data"
  OBVIOUS
<1> HIDE DEF t
<1>3. CASE Yield(g, line) = <<>>
  <2>1. toks \o <<>> = toks
    BY SeqMore
  <2>2. toks \o Yield(g, line) = toks
    BY <1>3, <2>1
  <2>3. QED
    BY <2>2
<1>4. CASE Yield(g, line) = <<t>>
  <2>1. toks \in Seq(S \cup {t}) /\ toks \o <<t>> \in Seq(S \cup {t}) /\ t \in S \cup {t}
    BY SeqMore
  <2>2. Said(toks \o <<t>>, n)
    BY <1>2, <2>1, SaidOther
  <2>3. QED
    BY <1>4, <2>1, <2>2
<1>5. QED
  BY <1>1, <1>3, <1>4

LEMMA YieldData ==
    ASSUME Laid, NEW S, NEW toks \in Seq(S), NEW n \in 1..Len(texts), Said(toks, n),
           NEW g, g.kind = "data", g.text = Controlled(n),
           Controlled(n) # <<>> => g.at \in places[n]..(TagPlace(n) - 1), NEW line
    PROVE  \E T : toks \o Yield(g, line) \in Seq(T) /\ Said(toks \o Yield(g, line), n + 1)
<1> DEFINE t == [kind |-> g.kind, text |-> g.text, at |-> g.at, lineno |-> line]
<1>1. CASE Controlled(n) = <<>>
  <2>1. Yield(g, line) = <<>>
    BY <1>1, YieldNothing
  <2>2. toks \o Yield(g, line) = toks
    BY <2>1, SeqMore
  <2>3. Said(toks, n + 1)
    BY <1>1, SaidEmpty
  <2>4. QED
    BY <2>2, <2>3
<1>2. CASE Controlled(n) # <<>>
  <2>1. Yield(g, line) = <<t>>
    BY <1>2 DEF Yield
  <2>2. t.kind = "data" /\ t.text = Controlled(n) /\ t.at = g.at
    OBVIOUS
  <2> HIDE DEF t
  <2>3. toks \in Seq(S \cup {t}) /\ toks \o <<t>> \in Seq(S \cup {t}) /\ t \in S \cup {t}
    BY SeqMore
  <2>4. t.at \in places[n]..(TagPlace(n) - 1)
    BY <1>2, <2>2
  <2>5. Said(toks \o <<t>>, n + 1)
    BY <2>2, <2>3, <2>4, SaidData
  <2>6. QED
    BY <2>1, <2>3, <2>5
<1>3. QED
  BY <1>1, <1>2

(* The two matches: with the data of text n, and without any.              *)
LEMMA MatchData ==
    ASSUME Laid, NEW S, tokens \in Seq(S), NEW n \in 1..Len(texts), Said(tokens, n),
           NEW first, first.kind = "data", first.text = Controlled(n),
           Controlled(n) # <<>> => first.at \in places[n]..(TagPlace(n) - 1),
           NEW second, second.kind # "data", NEW end, NEW states, Match(end, first, second, states)
    PROVE  Said(tokens', n + 1)
<1>1. tokens' = tokens \o Yield(first, lineno) \o Yield(second, lineno + LinesIn(first))
  BY DEF Match
<1> DEFINE toks == tokens \o Yield(first, lineno)
<1>2. PICK T : toks \in Seq(T) /\ Said(toks, n + 1)
  BY YieldData
<1> HIDE DEF toks
<1>3. Said(toks \o Yield(second, lineno + LinesIn(first)), n + 1)
  BY <1>2, YieldOther
<1>4. QED
  BY <1>1, <1>3 DEF toks

LEMMA MatchOther ==
    ASSUME source \in Seq(Symbols), pos \in 1..(Len(source) + 1), NEW S, tokens \in Seq(S), NEW n, Said(tokens, n),
           NEW first, first.kind # "data" \/ first = Nothing,
           NEW second, second.kind # "data", NEW end, NEW states, Match(end, first, second, states)
    PROVE  Said(tokens', n)
<1>1. tokens' = tokens \o Yield(first, lineno) \o Yield(second, lineno + LinesIn(first))
  BY DEF Match
<1> DEFINE toks == tokens \o Yield(first, lineno)
<1>2. \E T : toks \in Seq(T) /\ Said(toks, n)
  <2>1. CASE first.kind # "data"
    BY <2>1, YieldOther
  <2>2. CASE first = Nothing
    <3>1. Nothing.kind = "data" /\ Nothing.text = SubSeq(source, pos, pos - 1)
      BY DEF Nothing, Group
    <3>2. Nothing.text = <<>>
      <4>1. pos \in Nat /\ pos \in pos..(Len(source) + 1)
        BY Sizes
      <4> DEFINE u == SubSeq(source, pos, pos - 1)
      <4>2. u \in Seq(Symbols) /\ Len(u) = pos - pos
        BY <4>1, Part
      <4> HIDE DEF u
      <4>3. u = <<>>
        BY <4>1, <4>2
      <4>4. QED
        BY <3>1, <4>3 DEF u
    <3>3. Yield(first, lineno) = <<>>
      BY <2>2, <3>1, <3>2, YieldNothing
    <3>4. toks = tokens
      BY <3>3, SeqMore
    <3>5. QED
      BY <3>4
  <2>3. QED
    BY <2>1, <2>2
<1>3. PICK T : toks \in Seq(T) /\ Said(toks, n)
  BY <1>2
<1> HIDE DEF toks
<1>4. Said(toks \o Yield(second, lineno + LinesIn(first)), n)
  BY <1>3, YieldOther
<1>5. QED
  BY <1>1, <1>4 DEF toks

(* The actions of a state.                                                 *)
LEMMA StackIs ==
    ASSUME NEW b
    PROVE  /\ stack = <<b>> => \A s : In(s) <=> s = b
           /\ \A a : stack = <<a, b>> => \A s : In(s) <=> s = b
<1>1. \A a : Last(<<b>>) = b /\ Last(<<a, b>>) = b /\ <<b>> # <<>> /\ <<a, b>> # <<>>
  BY Shapes
<1>2. QED
  BY <1>1 DEF In

LEMMA OnlyRoot ==
    ASSUME stack = <<"root">>, Next
    PROVE  Directive \/ Data
<1>1. \A s : In(s) <=> s = "root"
  BY StackIs
<1>2. ~ InTag /\ ~ In("comment_begin") /\ ~ In("raw_begin") /\ ~ In("linecomment_begin")
  BY <1>1 DEF InTag
<1>3. QED
  BY <1>2, Zenon DEF Next, CommentEnd, CommentMissingEnd, RawEnd, RawMissingEnd, LineCommentEnd,
     TagEnd, Simple, Operator, Unbalanced, UnexpectedChar

LEMMA OnlyRaw ==
    ASSUME stack = <<"root", "raw_begin">>, Next
    PROVE  RawEnd \/ RawMissingEnd
<1>1. \A s : In(s) <=> s = "raw_begin"
  BY StackIs
<1>2. ~ InTag /\ ~ In("comment_begin") /\ ~ In("root") /\ ~ In("linecomment_begin")
  BY <1>1 DEF InTag
<1>3. QED
  BY <1>2, Zenon DEF Next, Directive, Data, CommentEnd, CommentMissingEnd, LineCommentEnd,
     TagEnd, Simple, Operator, Unbalanced, UnexpectedChar

LEMMA OnlyComment ==
    ASSUME stack = <<"root", "comment_begin">>, Next
    PROVE  CommentEnd \/ CommentMissingEnd
<1>1. \A s : In(s) <=> s = "comment_begin"
  BY StackIs
<1>2. ~ InTag /\ ~ In("raw_begin") /\ ~ In("root") /\ ~ In("linecomment_begin")
  BY <1>1 DEF InTag
<1>3. QED
  BY <1>2, Zenon DEF Next, Directive, Data, RawEnd, RawMissingEnd, LineCommentEnd,
     TagEnd, Simple, Operator, Unbalanced, UnexpectedChar

LEMMA OnlyTag ==
    ASSUME NEW b \in {"block_begin", "variable_begin"}, stack = <<"root", b>>, Next
    PROVE  TagEnd \/ Simple \/ Operator \/ Unbalanced \/ UnexpectedChar
<1>1. \A s : In(s) <=> s = b
  BY StackIs
<1>2. ~ In("comment_begin") /\ ~ In("raw_begin") /\ ~ In("root") /\ ~ In("linecomment_begin")
  BY <1>1
<1>3. QED
  BY <1>2, Zenon DEF Next, Directive, Data, RawEnd, RawMissingEnd, LineCommentEnd,
     CommentEnd, CommentMissingEnd

-----------------------------------------------------------------------------
(* Where the lexer stands in a template: before a text, in a raw block or  *)
(* not, inside of a tag, or behind all of it.                              *)
AtText(i, place, states, starting, toks) ==
    /\ place = Entry(i) /\ Said(toks, i) /\ (starting <=> Starts(i))
    /\ states = IF TagAt(i - 1).kind = "raw" THEN <<"root", "raw_begin">> ELSE <<"root">>
Inside(i, place, states, toks) ==
    /\ Said(toks, i + 1) /\ states = <<"root", Begin(tags[i].kind)>>
    /\ \/ tags[i].kind = "comment" /\ place = NamePlace(i)
       \/ tags[i].kind \in {"block", "variable"} /\ place \in NamePlace(i)..EndPlace(i)
Through(place, states, toks) ==
    place = Len(source) + 1 /\ states = <<"root">> /\ Said(toks, Len(texts) + 1)
Stands(place, states, starting, toks) ==
    \/ \E i \in 1..Len(texts) : AtText(i, place, states, starting, toks)
    \/ \E i \in 1..Len(tags) : Inside(i, place, states, toks)
    \/ Through(place, states, toks)
(* A step takes the lexer from one such place to another.                  *)
Goes ==
    /\ Stands(pos', stack', line_starting', tokens')
    /\ UNCHANGED <<options, source, balancing_stack, error>>

LEMMA NoText ==
    ASSUME NEW S, NEW s \in Seq(S), Len(s) = 0, NEW C
    PROVE  rstrip(s, C) = <<>> /\ s = <<>>
<1>1. PICK n \in 0..Len(s) : rstrip(s, C) = SubSeq(s, 1, n) /\ \A k \in (n + 1)..Len(s) : s[k] \in C
  BY Stripped, Zenon
<1>2. n = 0
  <2>1. n \in 0..0
    BY <1>1
  <2>2. QED
    BY <2>1
<1>3. SubSeq(s, 1, n) = <<>>
  BY <1>2, Beginning
<1>4. s = <<>>
  OBVIOUS
<1>5. QED
  BY <1>1, <1>3, <1>4

(* What is left of a text is in front of its tag.                          *)
LEMMA DataAt ==
    ASSUME Laid, NEW i \in 1..Len(texts), Controlled(i) # <<>>
    PROVE  Entry(i) \in places[i]..(TagPlace(i) - 1)
<1> DEFINE e == Entry(i)
           z == Stop(i)
           a == places[i]
           u == Trimmed(i)
<1>1. a \in Nat \ {0} /\ z \in Nat \ {0} /\ TagPlace(i) \in Nat /\ z <= TagPlace(i)
      /\ Len(source) \in Nat /\ z <= Len(source) + 1 /\ source \in Seq(Symbols)
  BY TextPlaces DEF Laid
<1>2. e \in a..z /\ SubSeq(source, e, z - 1) = u
  BY EntryIn
<1>3. Controlled(i) \in {rstrip(u, Space), rstrip(u, Blank), u}
  BY ControlledIs
<1> HIDE DEF e, z, a, u
<1>4. e # z
  <2>1. SUFFICES ASSUME e = z PROVE FALSE
    OBVIOUS
  <2>2. e \in 1..(Len(source) + 1) /\ z \in e..(Len(source) + 1) /\ z - e = 0
    BY <1>1, <1>2, <2>1
  <2>3. SubSeq(source, e, z - 1) \in Seq(Symbols) /\ Len(SubSeq(source, e, z - 1)) = z - e
    BY <1>1, <2>2, Part
  <2>4. u \in Seq(Symbols) /\ Len(u) = 0
    BY <1>2, <2>2, <2>3
  <2>5. rstrip(u, Space) = <<>> /\ rstrip(u, Blank) = <<>> /\ u = <<>>
    BY <2>4, NoText
  <2>6. QED
    BY <1>3, <2>5
<1>5. e \in a..(TagPlace(i) - 1)
  BY <1>1, <1>2, <1>4
<1>6. QED
  BY <1>5 DEF e, a

(* The match of a text and the tag behind it.                              *)
LEMMA TextMatched ==
    ASSUME Laid, LexInv, NEW i \in 1..Len(tags), pos = Entry(i), line_starting <=> Starts(i), Said(tokens, i),
           NEW sign, sign = SignAt(Stop(i) + 2),
           NEW variable, variable <=> tags[i].kind = "variable",
           NEW second, second.kind # "data", NEW end, NEW states,
           Match(end, DataBefore(Stop(i), sign, variable), second, states)
    PROVE  Said(tokens', i + 1)
<1> DEFINE first == DataBefore(Stop(i), sign, variable)
<1>1. i \in 1..Len(texts)
  BY TagPlaces
<1>2. /\ sign = "-" <=> tags[i].open = "-"
      /\ sign = "+" <=> tags[i].open = "+"
  BY SignHere, Zenon
<1>3. SubSeq(source, pos, Stop(i) - 1) = Trimmed(i)
  BY <1>1, EntryIn
<1>4. OptionalLStrip(Trimmed(i), sign, variable) = Controlled(i)
  BY <1>2, StripAgrees
<1>5. first.kind = "data" /\ first.at = pos
      /\ first.text = OptionalLStrip(SubSeq(source, pos, Stop(i) - 1), sign, variable)
  BY DEF DataBefore, Group
<1> HIDE DEF first
<1>6. first.text = Controlled(i)
  BY <1>3, <1>4, <1>5, Zenon
<1>7. Controlled(i) # <<>> => first.at \in places[i]..(TagPlace(i) - 1)
  BY <1>1, <1>5, DataAt
<1>8. tokens \in Seq(Token)
  BY DEF LexInv, Read
<1>9. Match(end, first, second, states)
  BY DEF first
<1>10. QED
  BY <1>1, <1>5, <1>6, <1>7, <1>8, <1>9, MatchData

(* A match that ends where the next text begins.                           *)
LEMMA NextText ==
    ASSUME Laid, NEW i \in 1..Len(tags), pos \in Nat, pos <= EndPlace(i), Said(tokens', i + 1),
           NEW first, NEW second, NEW states, Match(Entry(i + 1), first, second, states),
           states = IF tags[i].kind = "raw" THEN <<"root", "raw_begin">> ELSE <<"root">>,
           UNCHANGED balancing_stack
    PROVE  Goes
<1>1. /\ pos' = Entry(i + 1) /\ stack' = states /\ UNCHANGED <<options, source, error>>
      /\ line_starting' = (Entry(i + 1) > pos /\ source[Entry(i + 1) - 1] = "nl")
  BY DEF Match
<1>2. i + 1 \in 1..Len(texts) /\ tags[i] \in Tag
  BY TagPlaces
<1>3. Entry(i + 1) > pos /\ i + 1 # 1
  <2> DEFINE e == EndPlace(i)
             w == Len(Name(tags[i]))
             r == places[i + 1]
             n == Entry(i + 1)
  <2>1. /\ Stop(i) \in Nat \ {0} /\ NamePlace(i) \in {Stop(i) + 2, Stop(i) + 3} /\ w \in 1..3
        /\ e = NamePlace(i) + w /\ r = e + (IF NoSign(tags[i].close) THEN 2 ELSE 3)
    BY TagPlaces
  <2>2. n \in Nat /\ n >= r
    BY <1>2, EntryPositive
  <2>0. pos \in Nat /\ pos <= e
    OBVIOUS
  <2> HIDE DEF e, w, r, n
  <2>3. e \in Nat
    <3>1. NamePlace(i) \in Nat
      BY <2>1
    <3>2. QED
      BY <2>1, <3>1
  <2>4. r \in {e + 2, e + 3}
    BY <2>1
  <2>5. n > pos
    BY <2>0, <2>2, <2>3, <2>4
  <2>6. i \in Nat \ {0}
    OBVIOUS
  <2>7. i + 1 # 1
    BY <2>6
  <2>8. QED
    BY <2>5, <2>7 DEF n
<1>4. line_starting' <=> Starts(i + 1)
  BY <1>1, <1>3 DEF Starts
<1>5. TagAt(i + 1 - 1) = tags[i]
  BY TagBefore
<1>6. AtText(i + 1, pos', stack', line_starting', tokens')
  BY <1>1, <1>4, <1>5 DEF AtText
<1>7. Stands(pos', stack', line_starting', tokens')
  BY <1>2, <1>6 DEF Stands
<1>8. QED
  BY <1>1, <1>7 DEF Goes

-----------------------------------------------------------------------------
(* The steps through a template                                            *)

LEMMA Around ==
    ASSUME Laid, LexInv, NEW i \in 1..Len(tags), pos = Entry(i)
    PROVE  /\ pos \in Nat /\ pos <= Stop(i) /\ Stop(i) <= EndPlace(i) /\ pos <= EndPlace(i)
           /\ NamePlace(i) \in NamePlace(i)..EndPlace(i)
<1> DEFINE z == Stop(i)
           q == NamePlace(i)
           w == Len(Name(tags[i]))
           e == EndPlace(i)
<1>1. z \in Nat \ {0} /\ q \in {z + 2, z + 3} /\ w \in 1..3 /\ e = q + w /\ i \in 1..Len(texts)
  BY TagPlaces
<1>2. pos \in Nat /\ pos <= z
  <2>1. Entry(i) \in places[i]..Stop(i) /\ places[i] \in Nat
    BY <1>1, EntryIn, TextPlaces
  <2> DEFINE a == places[i]
  <2>2. pos \in a..z /\ a \in Nat
    BY <2>1
  <2> HIDE DEF a, z
  <2>3. QED
    BY <1>1, <2>2
<1> HIDE DEF z, q, w, e
<1>3. q \in Nat /\ z <= e /\ pos <= e /\ q \in q..e
  BY <1>1, <1>2
<1>4. QED
  BY <1>2, <1>3 DEF z, q, e

LEMMA TextGoes ==
    ASSUME Laid, LexInv, NEW i \in 1..Len(tags), TagAt(i - 1).kind # "raw",
           AtText(i, pos, stack, line_starting, tokens), Next
    PROVE  Goes
<1> DEFINE p == Stop(i)
           kind == tags[i].kind
<1>1. pos = Entry(i) /\ Said(tokens, i) /\ (line_starting <=> Starts(i)) /\ stack = <<"root">>
  BY DEF AtText
<1>2. i \in 1..Len(texts) /\ tags[i] \in Tag /\ p \in Nat \ {0}
  BY TagPlaces
<1>3. directive = p
  BY <1>1, <1>2, DirectiveIs
<1>4. Directive
  <2>1. Directive \/ Data
    BY <1>1, OnlyRoot
  <2>2. ~ Data
    BY <1>2, <1>3 DEF Data
  <2>3. QED
    BY <2>1, <2>2
<1>5. kind # "endraw"
  BY <1>2, KindAt
<1>6. compile_rules(p) = IF kind = "raw" THEN <<RawRule(p)>> ELSE <<Rule(Begin(kind), p + 2)>>
  BY <1>5, RuleHere
<1> DEFINE tag == Head(compile_rules(p))
<1>7. /\ Match(tag.end, DataBefore(p, tag.sign, tag.kind = "variable_begin"),
               Group(tag.kind, p, tag.end), Append(stack, tag.kind))
      /\ UNCHANGED balancing_stack
  BY <1>3, <1>4 DEF Directive
<1>8. \A x : Head(<<x>>) = x
  OBVIOUS
<1>9. kind \in {"block", "comment", "variable", "raw"}
  <2>1. kind \in {"block", "comment", "endraw", "variable", "raw"}
    BY <1>2, DelimitersOf
  <2>2. QED
    BY <1>5, <2>1
<1>10. /\ tag.sign = SignAt(p + 2) /\ tag.kind = Begin(kind)
       /\ tag.end = IF kind = "raw" THEN Entry(i + 1) ELSE NamePlace(i)
  <2>1. CASE kind = "raw"
    <3>1. tag = RawRule(p)
      BY <1>6, <1>8, <2>1
    <3>2. RawBeginAt(p) = Entry(i + 1)
      BY <2>1, WordHere
    <3>3. Begin(kind) = "raw_begin"
      BY <2>1 DEF Begin
    <3> HIDE DEF tag
    <3>4. QED
      BY <2>1, <3>1, <3>2, <3>3 DEF RawRule
  <2>2. CASE kind # "raw"
    <3>1. tag = Rule(Begin(kind), p + 2)
      BY <1>6, <1>8, <2>2
    <3>2. AfterSign(p + 2) = NamePlace(i)
      BY SignHere
    <3> HIDE DEF tag
    <3>3. QED
      BY <2>2, <3>1, <3>2 DEF Rule
  <2>3. QED
    BY <2>1, <2>2
<1> HIDE DEF tag
<1>11. /\ tag.kind = "variable_begin" <=> kind = "variable"
       /\ tag.kind # "data"
  BY <1>9, <1>10 DEF Begin
<1>12. Group(tag.kind, p, tag.end).kind # "data"
  BY <1>11 DEF Group
<1>13. Said(tokens', i + 1)
  BY <1>1, <1>7, <1>10, <1>11, <1>12, TextMatched
<1>14. Append(stack, tag.kind) = <<"root", Begin(kind)>>
  BY <1>1, <1>10, Shapes
<1>15. /\ pos' = tag.end /\ stack' = Append(stack, tag.kind)
       /\ UNCHANGED <<options, source, error>>
  BY <1>7 DEF Match
<1>16. CASE kind = "raw"
  <2>1. Match(Entry(i + 1), DataBefore(p, tag.sign, tag.kind = "variable_begin"),
              Group(tag.kind, p, tag.end), Append(stack, tag.kind))
    BY <1>7, <1>10, <1>16
  <2>2. Append(stack, tag.kind) = IF tags[i].kind = "raw" THEN <<"root", "raw_begin">> ELSE <<"root">>
    BY <1>14, <1>16 DEF Begin
  <2>3. pos \in Nat /\ pos <= EndPlace(i)
    BY <1>1, Around
  <2>4. QED
    BY <1>7, <1>13, <2>1, <2>2, <2>3, NextText
<1>17. CASE kind # "raw"
  <2>1. pos' = NamePlace(i) /\ stack' = <<"root", Begin(kind)>>
    BY <1>10, <1>14, <1>15, <1>17
  <2>2. NamePlace(i) \in NamePlace(i)..EndPlace(i)
    BY <1>1, Around
  <2>3. kind = "comment" \/ kind \in {"block", "variable"}
    BY <1>9, <1>17
  <2>4. Inside(i, pos', stack', tokens')
    BY <1>13, <2>1, <2>2, <2>3 DEF Inside
  <2>5. Stands(pos', stack', line_starting', tokens')
    BY <2>4 DEF Stands
  <2>6. QED
    BY <1>7, <1>15, <2>5 DEF Goes
<1>18. QED
  BY <1>16, <1>17

LEMMA RawGoes ==
    ASSUME Laid, LexInv, NEW i \in 1..Len(texts), TagAt(i - 1).kind = "raw",
           AtText(i, pos, stack, line_starting, tokens), Next
    PROVE  Goes
<1> DEFINE p == Stop(i)
<1>1. /\ pos = Entry(i) /\ Said(tokens, i) /\ (line_starting <=> Starts(i))
      /\ stack = <<"root", "raw_begin">>
  BY DEF AtText
<1>2. /\ i \in 1..Len(tags) /\ tags[i].kind = "endraw"
      /\ First({q \in Ahead : RawEndAt(q) # 0}) = p
      /\ RawEndAt(p) = Entry(i + 1) /\ p # 0
  BY <1>1, RawEndIs
<1>3. RawEnd
  <2>1. RawEnd \/ RawMissingEnd
    BY <1>1, OnlyRaw
  <2>2. ~ RawMissingEnd
    BY <1>2 DEF RawMissingEnd
  <2>3. QED
    BY <2>1, <2>2
<1>4. /\ Match(Entry(i + 1), DataBefore(p, SignAt(p + 2), FALSE), Group("raw_end", p, Entry(i + 1)), Pop)
      /\ UNCHANGED balancing_stack
  BY <1>2, <1>3 DEF RawEnd
<1>5. Group("raw_end", p, Entry(i + 1)).kind # "data" /\ (FALSE <=> tags[i].kind = "variable")
  BY <1>2 DEF Group
<1>6. Said(tokens', i + 1)
  BY <1>1, <1>2, <1>4, <1>5, TextMatched
<1>7. Pop = IF tags[i].kind = "raw" THEN <<"root", "raw_begin">> ELSE <<"root">>
  <2>1. Pop = <<"root">>
    BY <1>1, Shapes DEF Pop
  <2>2. QED
    BY <1>2, <2>1
<1>8. pos \in Nat /\ pos <= EndPlace(i)
  BY <1>1, <1>2, Around
<1>9. QED
  BY <1>2, <1>4, <1>6, <1>7, <1>8, NextText

(* The last text.                                                          *)
LEMMA LastGoes ==
    ASSUME Laid, LexInv, AtText(Len(texts), pos, stack, line_starting, tokens), Next
    PROVE  Goes
<1> DEFINE n == Len(texts)
           end == Len(source) + 1
           second == Group("data", pos, end)
<1>1. n \in 1..n /\ Controlled(n) = Trimmed(n) /\ n \notin 1..Len(tags)
  <2>1. n \notin 1..Len(tags)
    <3>1. \A i \in 1..Len(tags) : i # n
      BY TagPlaces
    <3>2. QED
      BY <3>1
  <2>2. QED
    BY <2>1, LastText
<1>2. TagAt(n - 1).kind # "raw"
  BY <1>1, KindAt
<1>3. pos = Entry(n) /\ Said(tokens, n) /\ stack = <<"root">>
  BY <1>2 DEF AtText
<1>4. directive = 0
  BY <1>1, <1>2, <1>3, DirectiveIs
<1>5. Data
  <2>1. Directive \/ Data
    BY <1>3, OnlyRoot
  <2>2. QED
    BY <1>4, <2>1 DEF Directive
<1>6. Match(end, Nothing, second, stack) /\ UNCHANGED balancing_stack
  BY <1>5 DEF Data
<1>7. /\ tokens' = tokens \o Yield(Nothing, lineno) \o Yield(second, lineno + LinesIn(Nothing))
      /\ pos' = end /\ stack' = stack /\ UNCHANGED <<options, source, error>>
  BY <1>6 DEF Match
<1>8. source \in Seq(Symbols) /\ pos \in 1..(Len(source) + 1) /\ tokens \in Seq(Token)
  BY DEF LexInv, Read
<1>9. Nothing.kind = "data" /\ Nothing.text = <<>>
  <2>1. Nothing.kind = "data" /\ Nothing.text = SubSeq(source, pos, pos - 1)
    BY DEF Nothing, Group
  <2>2. pos \in Nat /\ pos \in pos..(Len(source) + 1)
    BY <1>8, Sizes
  <2> DEFINE u == SubSeq(source, pos, pos - 1)
  <2>3. u \in Seq(Symbols) /\ Len(u) = pos - pos
    BY <1>8, <2>2, Part
  <2> HIDE DEF u
  <2>4. u = <<>>
    BY <2>2, <2>3
  <2>5. QED
    BY <2>1, <2>4 DEF u
<1>10. tokens \o Yield(Nothing, lineno) = tokens
  <2>1. Yield(Nothing, lineno) = <<>>
    BY <1>9, YieldNothing
  <2>2. QED
    BY <1>8, <2>1, SeqMore
<1>11. second.kind = "data" /\ second.at = Entry(n) /\ second.text = Controlled(n)
  <2>1. second.kind = "data" /\ second.at = pos /\ second.text = SubSeq(source, pos, end - 1)
    BY DEF Group
  <2>2. Stop(n) = end
    BY DEF Laid
  <2>3. SubSeq(source, Entry(n), Stop(n) - 1) = Trimmed(n)
    BY <1>1, EntryIn
  <2> HIDE DEF end, second
  <2>4. QED
    BY <1>1, <1>3, <2>1, <2>2, <2>3
<1> HIDE DEF second, end
<1>12. Controlled(n) # <<>> => second.at \in places[n]..(TagPlace(n) - 1)
  BY <1>1, <1>11, DataAt
<1>13. Said(tokens \o Yield(second, lineno + LinesIn(Nothing)), n + 1)
  BY <1>1, <1>3, <1>8, <1>11, <1>12, YieldData
<1>14. Said(tokens', n + 1)
  BY <1>7, <1>10, <1>13, Zenon
<1>15. Through(pos', stack', tokens')
  BY <1>3, <1>7, <1>14 DEF Through, end
<1>16. QED
  BY <1>6, <1>7, <1>15 DEF Goes, Stands

-----------------------------------------------------------------------------
(* The steps inside of a tag, and all of them                              *)

LEMMA CommentGoes ==
    ASSUME Laid, LexInv, NEW i \in 1..Len(tags), tags[i].kind = "comment",
           Inside(i, pos, stack, tokens), Next
    PROVE  Goes
<1> DEFINE p == EndPlace(i)
           first == Group("comment", pos, p)
           second == Group("comment_end", p, Entry(i + 1))
<1>1. Said(tokens, i + 1) /\ stack = <<"root", "comment_begin">> /\ pos = NamePlace(i)
  BY DEF Inside, Begin
<1>2. /\ First({q \in Ahead : CommentEndAt(q) # 0}) = p /\ p # 0
      /\ CommentEndAt(p) = Entry(i + 1)
  BY <1>1, CommentIs
<1>3. CommentEnd
  <2>1. CommentEnd \/ CommentMissingEnd
    BY <1>1, OnlyComment
  <2>2. QED
    BY <1>2, <2>1 DEF CommentMissingEnd
<1>4. Match(Entry(i + 1), first, second, Pop) /\ UNCHANGED balancing_stack
  BY <1>2, <1>3 DEF CommentEnd
<1>5. first.kind # "data" /\ second.kind # "data"
  BY DEF Group
<1>6. source \in Seq(Symbols) /\ pos \in 1..(Len(source) + 1) /\ tokens \in Seq(Token)
  BY DEF LexInv, Read
<1> HIDE DEF first, second
<1>7. Said(tokens', i + 1)
  BY <1>1, <1>4, <1>5, <1>6, MatchOther
<1>8. Pop = IF tags[i].kind = "raw" THEN <<"root", "raw_begin">> ELSE <<"root">>
  <2>1. Pop = <<"root">>
    BY <1>1, Shapes DEF Pop
  <2>2. QED
    BY <2>1
<1>9. pos \in Nat /\ pos <= EndPlace(i)
  <2>1. EndPlace(i) = NamePlace(i) + Len(Name(tags[i])) /\ Len(Name(tags[i])) \in 1..3
    BY TagPlaces
  <2>2. pos \in Nat
    BY <1>6, Sizes
  <2> DEFINE w == Len(Name(tags[i]))
  <2>3. p = pos + w /\ w \in 1..3
    BY <1>1, <2>1
  <2> HIDE DEF w, p
  <2>4. pos <= p
    BY <2>2, <2>3
  <2>5. QED
    BY <2>2, <2>4 DEF p
<1>10. QED
  BY <1>4, <1>7, <1>8, <1>9, NextText

LEMMA BeginsTag ==
    ASSUME NEW kind \in {"block", "variable"}
    PROVE  Begin(kind) \in {"block_begin", "variable_begin"}
  BY DEF Begin

(* No sign of an operator is in a tag's name.                              *)
LEMMA WordsNoOperators ==
    /\ \A w \in Words : w \notin Operators /\ w \notin {"}", ")"}
  BY Zenon DEF Words, Operators

LEMMA NameGoes ==
    ASSUME Laid, LexInv, NEW i \in 1..Len(tags), tags[i].kind \in {"block", "variable"},
           Inside(i, pos, stack, tokens), pos # EndPlace(i), Next
    PROVE  Goes
<1> DEFINE kind == tags[i].kind
           lexeme == Head(Lexeme(pos))
           second == Group(lexeme.kind, pos, pos + 1)
<1>1. Said(tokens, i + 1) /\ stack = <<"root", Begin(kind)>> /\ pos \in NamePlace(i)..EndPlace(i)
  BY DEF Inside
<1>2. /\ pos \in NamePlace(i)..(EndPlace(i) - 1) /\ pos + 1 \in NamePlace(i)..EndPlace(i)
  <2> DEFINE q == NamePlace(i)
             e == EndPlace(i)
             w == Len(Name(tags[i]))
             z == Stop(i)
  <2>1. z \in Nat \ {0} /\ q \in {z + 2, z + 3} /\ w \in 1..3 /\ e = q + w /\ pos \in q..e /\ pos # e
    BY <1>1, TagPlaces
  <2> HIDE DEF q, e, w, z
  <2>2. q \in Nat /\ e \in Nat
    BY <2>1
  <2>3. pos \in q..(e - 1) /\ pos + 1 \in q..e
    BY <2>1, <2>2
  <2>4. QED
    BY <2>3 DEF q, e
<1>3. EndAt(pos) = 0
  BY <1>1, <1>2, EndInside
<1>4. Lexeme(pos) # <<>> /\ lexeme.end = pos + 1 /\ lexeme.kind \in {"whitespace", "name"}
  BY <1>2, LexemeHere
<1>5. Char(pos) \notin Operators /\ Char(pos) \notin {"}", ")"}
  <2>1. Char(pos) \in Words
    BY <1>2, NameChars
  <2>2. QED
    BY <2>1, WordsNoOperators, Zenon
<1>6. Simple
  <2>1. TagEnd \/ Simple \/ Operator \/ Unbalanced \/ UnexpectedChar
    BY <1>1, BeginsTag, OnlyTag
  <2>2. ~ TagEnd
    BY <1>3 DEF TagEnd, AtEnd
  <2>3. ~ Operator
    BY <1>5, Zenon DEF Operator
  <2>4. ~ Unbalanced
    BY <1>5, Zenon DEF Unbalanced
  <2>5. ~ UnexpectedChar
    BY <1>4, Zenon DEF UnexpectedChar
  <2>6. QED
    BY <2>1, <2>2, <2>3, <2>4, <2>5
<1> HIDE DEF lexeme
<1>7. Match(pos + 1, Nothing, second, stack) /\ UNCHANGED balancing_stack
  <2>1. /\ Match(lexeme.end, Nothing, Group(lexeme.kind, pos, lexeme.end), stack)
        /\ UNCHANGED balancing_stack
    BY <1>6 DEF Simple, lexeme
  <2>2. QED
    BY <1>4, <2>1
<1>8. second.kind # "data"
  <2>1. second.kind = lexeme.kind
    BY DEF Group
  <2> HIDE DEF second
  <2>2. QED
    BY <1>4, <2>1
<1>9. source \in Seq(Symbols) /\ pos \in 1..(Len(source) + 1) /\ tokens \in Seq(Token)
  BY DEF LexInv, Read
<1> HIDE DEF second
<1>10. Said(tokens', i + 1)
  BY <1>1, <1>7, <1>8, <1>9, MatchOther
<1>11. pos' = pos + 1 /\ stack' = stack /\ UNCHANGED <<options, source, error>>
  BY <1>7 DEF Match
<1>12. Inside(i, pos', stack', tokens')
  BY <1>1, <1>2, <1>10, <1>11 DEF Inside
<1>13. QED
  BY <1>7, <1>11, <1>12 DEF Goes, Stands

LEMMA EndGoes ==
    ASSUME Laid, LexInv, NEW i \in 1..Len(tags), tags[i].kind \in {"block", "variable"},
           Inside(i, pos, stack, tokens), pos = EndPlace(i), balancing_stack = <<>>, Next
    PROVE  Goes
<1> DEFINE kind == tags[i].kind
           second == Group(EndKind, pos, Entry(i + 1))
<1>1. Said(tokens, i + 1) /\ stack = <<"root", Begin(kind)>>
  BY DEF Inside
<1>2. InTag /\ EndAt(pos) = Entry(i + 1) /\ EndAt(pos) # 0
  BY <1>1, EndInside
<1>3. AtEnd
  BY <1>2 DEF AtEnd
<1>4. TagEnd
  <2>1. TagEnd \/ Simple \/ Operator \/ Unbalanced \/ UnexpectedChar
    BY <1>1, BeginsTag, OnlyTag
  <2>2. QED
    BY <1>3, <2>1, Zenon DEF Simple, Operator, Unbalanced, UnexpectedChar
<1>5. Match(Entry(i + 1), Nothing, second, Pop) /\ UNCHANGED balancing_stack
  BY <1>2, <1>4 DEF TagEnd
<1>6. second.kind # "data"
  BY DEF Group, EndKind
<1>7. source \in Seq(Symbols) /\ pos \in 1..(Len(source) + 1) /\ tokens \in Seq(Token)
  BY DEF LexInv, Read
<1> HIDE DEF second
<1>8. Said(tokens', i + 1)
  BY <1>1, <1>5, <1>6, <1>7, MatchOther
<1>9. Pop = IF kind = "raw" THEN <<"root", "raw_begin">> ELSE <<"root">>
  <2>1. Pop = <<"root">>
    BY <1>1, Shapes DEF Pop
  <2>2. QED
    BY <2>1
<1>10. pos \in Nat /\ pos <= EndPlace(i)
  <2>1. pos \in Nat
    BY <1>7, Sizes
  <2>2. QED
    BY <2>1
<1>11. QED
  BY <1>5, <1>8, <1>9, <1>10, NextText

LEMMA ThroughStops ==
    ASSUME LexInv, Through(pos, stack, tokens), Next
    PROVE  FALSE
<1>1. pos = Len(source) + 1 /\ stack = <<"root">> /\ Len(source) \in Nat
  BY DEF Through, LexInv
<1> DEFINE n == Len(source)
           I == {p \in Ahead : compile_rules(p) # <<>>}
<1>2. Ahead = (n + 1)..n
  BY <1>1 DEF Ahead
<1>3. I = {}
  BY <1>1, <1>2
<1>4. directive = 0
  <2>1. directive = First(I)
    BY DEF directive
  <2> HIDE DEF I
  <2>2. QED
    BY <1>3, <2>1 DEF First
<1>5. ~ Directive
  BY <1>4 DEF Directive
<1>6. ~ Data
  BY <1>1 DEF Data
<1>7. QED
  BY <1>1, <1>5, <1>6, OnlyRoot

LEMMA TemplateGoes ==
    ASSUME Laid, LexInv, Stands(pos, stack, line_starting, tokens), balancing_stack = <<>>, Next
    PROVE  Goes
<1>1. CASE \E i \in 1..Len(texts) : AtText(i, pos, stack, line_starting, tokens)
  <2>1. PICK i \in 1..Len(texts) : AtText(i, pos, stack, line_starting, tokens)
    BY <1>1
  <2>2. i = Len(texts) \/ i \in 1..Len(tags)
    BY KindAt
  <2>3. QED
    BY <2>1, <2>2, TextGoes, RawGoes, LastGoes
<1>2. CASE \E i \in 1..Len(tags) : Inside(i, pos, stack, tokens)
  <2>1. PICK i \in 1..Len(tags) : Inside(i, pos, stack, tokens)
    BY <1>2
  <2>2. tags[i].kind = "comment" \/ tags[i].kind \in {"block", "variable"}
    BY <2>1 DEF Inside
  <2>3. QED
    BY <2>1, <2>2, CommentGoes, NameGoes, EndGoes
<1>3. CASE Through(pos, stack, tokens)
  BY <1>3, ThroughStops
<1>4. QED
  BY <1>1, <1>2, <1>3 DEF Stands

-----------------------------------------------------------------------------
(* The invariant of a template: the lexer keeps its books, has met no error *)
(* and stands at a place of the template where what it has said so far is  *)
(* the texts before that place under whitespace control.                   *)
ControlInv ==
    /\ LexInv /\ Laid
    /\ error = None /\ balancing_stack = <<>>
    /\ Stands(pos, stack, line_starting, tokens)

LEMMA ControlInit ==
    ASSUME TemplateInit
    PROVE  ControlInv
<1>1. Laid
  BY LaidInit
<1>2. Init
  BY DEF TemplateInit, Init, Character
<1>3. LexInv
  BY <1>2, LexInit
<1>4. /\ pos = 1 /\ stack = <<"root">> /\ line_starting = TRUE
      /\ balancing_stack = <<>> /\ tokens = <<>> /\ error = None
  BY DEF TemplateInit, Start
<1>5. TagAt(1 - 1) = NoTag
  <2>1. DOMAIN tags = 1..Len(tags)
    BY <1>1, SizeOfTemplate DEF Laid
  <2>2. 1 - 1 \notin 1..Len(tags)
    OBVIOUS
  <2>3. QED
    BY <2>1, <2>2 DEF TagAt
<1>6. NoTag.close # "-" /\ NoTag.kind \notin Trims /\ NoTag.kind # "raw"
  BY Zenon DEF NoTag, Trims
<1>7. Entry(1) = places[1] /\ places[1] = 1
  <2>1. ~ Minus(1) /\ ~ Takes(1)
    BY <1>5, <1>6, Zenon DEF Minus, Takes
  <2>2. QED
    BY <1>1, <2>1 DEF Entry, Laid
<1>8. Said(tokens, 1)
  <2>1. Len(<<>>) = 0 /\ \A i \in 1..Len(texts) : ~ (i < 1)
    OBVIOUS
  <2>2. QED
    BY <1>4, <2>1 DEF Said
<1>9. Starts(1)
  BY DEF Starts
<1>10. AtText(1, pos, stack, line_starting, tokens)
  <2>1. stack = IF TagAt(1 - 1).kind = "raw" THEN <<"root", "raw_begin">> ELSE <<"root">>
    BY <1>4, <1>5, <1>6
  <2>2. QED
    BY <1>4, <1>7, <1>8, <1>9, <2>1 DEF AtText
<1>11. 1 \in 1..Len(texts)
  <2>1. Len(tags) \in Nat /\ Len(texts) = Len(tags) + 1
    BY <1>1, SizeOfTemplate DEF Laid
  <2>2. QED
    BY <2>1
<1>12. QED
  BY <1>1, <1>3, <1>4, <1>10, <1>11 DEF ControlInv, Stands

(* A template and its source stay what they are.                           *)
LEMMA SamePlaces ==
    ASSUME UNCHANGED <<options, source, texts, tags, places>>
    PROVE  /\ \A i : TagAt(i)' = TagAt(i) /\ TagPlace(i)' = TagPlace(i) /\ TextAt(i)' = TextAt(i)
           /\ \A i : Stop(i)' = Stop(i) /\ NamePlace(i)' = NamePlace(i) /\ EndPlace(i)' = EndPlace(i)
           /\ \A i : Entry(i)' = Entry(i) /\ Controlled(i)' = Controlled(i)
           /\ \A i : Starts(i)' <=> Starts(i)
<1>1. \A s : Lines(s)' = Lines(s)
  BY DEF Lines
<1>2. \A i : TagAt(i)' = TagAt(i)
  BY DEF TagAt
<1>3. \A i : TagPlace(i)' = TagPlace(i)
  BY DEF TagPlace
<1>4. \A i : TextAt(i)' = TextAt(i)
  BY DEF TextAt, Lines
<1>5. \A i : Stop(i)' = Stop(i)
  BY <1>4 DEF Stop
<1>6. \A i : NamePlace(i)' = NamePlace(i)
  BY <1>5 DEF NamePlace
<1>7. \A i : EndPlace(i)' = EndPlace(i)
  BY <1>6 DEF EndPlace
<1>8. \A p : Char(p)' = Char(p)
  BY DEF Char
<1>9. \A p, C : After(p, C)' = After(p, C)
  BY DEF After
<1>10. \A i : Minus(i)' <=> Minus(i)
  BY <1>2, Zenon DEF Minus
<1>11. \A i : Takes(i)' <=> Takes(i)
  BY <1>2, Zenon DEF Takes
<1>12. \A i : Entry(i)' = Entry(i)
  BY <1>8, <1>9, <1>10, <1>11 DEF Entry
<1>13. \A i : Starts(i)' <=> Starts(i)
  BY <1>12 DEF Starts
<1>14. ASSUME NEW i PROVE Controlled(i)' = Controlled(i)
  <2> DEFINE Of(text, first, toggles, before, after) ==
               LET blanks == rstrip(text, Blank)
                   trimmed ==
                     IF before.close = "-" THEN lstrip(text, Space)
                     ELSE IF /\ toggles.trim_blocks /\ before.close # "+"
                             /\ before.kind \in {"block", "comment", "endraw"}
                             /\ text # <<>> /\ Head(text) = "nl"
                          THEN Tail(text) ELSE text
               IN  IF after.open = "-" THEN rstrip(trimmed, Space)
                   ELSE IF /\ toggles.lstrip_blocks /\ after.open # "+"
                           /\ after.kind \in {"block", "comment", "raw", "endraw"}
                           /\ IF blanks = <<>> THEN first ELSE Last(blanks) = "nl"
                        THEN rstrip(trimmed, Blank) ELSE trimmed
  <2>1. Controlled(i) = Of(TextAt(i), i = 1, options, TagAt(i - 1), TagAt(i))
    BY Zenon DEF Controlled, TextAt
  <2>2. Controlled(i)' = Of(TextAt(i)', i = 1, options', TagAt(i - 1)', TagAt(i)')
    BY Zenon DEF Controlled, TextAt
  <2> HIDE DEF Of
  <2>3. QED
    BY <1>2, <1>4, <2>1, <2>2, Zenon
<1>15. QED
  BY <1>2, <1>3, <1>4, <1>5, <1>6, <1>7, <1>12, <1>13, <1>14

-----------------------------------------------------------------------------
(* Every step keeps the invariant                                          *)

LEMMA SameSaid ==
    ASSUME UNCHANGED <<options, source, texts, tags, places>>
    PROVE  /\ \A toks, n : Said(toks, n)' <=> Said(toks, n)
           /\ Laid' <=> Laid
<1>1. \A i : Controlled(i)' = Controlled(i) /\ TagPlace(i)' = TagPlace(i)
  BY SamePlaces
<1>2. \A toks, i : DataIn(toks, i)' = DataIn(toks, i)
  BY <1>1 DEF DataIn
<1>3. \A toks, n : Said(toks, n)' <=> Said(toks, n)
  BY <1>1, <1>2, ZenonT(60) DEF Said
<1>4. Template' <=> Template
  <2>1. \A i : TagAt(i)' = TagAt(i)
    BY SamePlaces
  <2>2. QED
    BY <2>1, Zenon DEF Template
<1>5. \A i : TextAt(i)' = TextAt(i) /\ Stop(i)' = Stop(i)
  BY SamePlaces
<1>6. Laid' <=> Laid
  BY <1>1, <1>4, <1>5, Zenon DEF Laid
<1>7. QED
  BY <1>3, <1>6

LEMMA ControlNext ==
    ASSUME ControlInv, TemplateNext
    PROVE  ControlInv'
<1>1. Goes /\ LexInv'
  BY TemplateGoes, LexNext DEF ControlInv, TemplateNext
<1>2. UNCHANGED <<options, source, texts, tags, places>> /\ UNCHANGED <<balancing_stack, error>>
  BY <1>1 DEF Goes, TemplateNext, template
<1>3. Laid'
  BY <1>2, SameSaid DEF ControlInv
<1>4. Stands(pos, stack, line_starting, tokens)'
  <2>1. Stands(pos', stack', line_starting', tokens')
    BY <1>1 DEF Goes
  <2>2. /\ \A i : TagAt(i)' = TagAt(i) /\ NamePlace(i)' = NamePlace(i) /\ EndPlace(i)' = EndPlace(i)
        /\ \A i : Entry(i)' = Entry(i) /\ (Starts(i)' <=> Starts(i))
        /\ \A toks, n : Said(toks, n)' <=> Said(toks, n)
    BY <1>2, SamePlaces, SameSaid
  <2>3. CASE \E i \in 1..Len(texts) : AtText(i, pos', stack', line_starting', tokens')
    BY <1>2, <2>2, <2>3, Zenon DEF Stands, AtText
  <2>4. CASE \E i \in 1..Len(tags) : Inside(i, pos', stack', tokens')
    BY <1>2, <2>2, <2>4, Zenon DEF Stands, Inside
  <2>5. CASE Through(pos', stack', tokens')
    BY <1>2, <2>2, <2>5, Zenon DEF Stands, Through
  <2>6. QED
    BY <2>1, <2>3, <2>4, <2>5 DEF Stands
<1>5. QED
  BY <1>1, <1>2, <1>3, <1>4 DEF ControlInv

LEMMA ControlStutter ==
    ASSUME ControlInv, UNCHANGED <<vars, template>>
    PROVE  ControlInv'
<1>1. /\ UNCHANGED <<options, source, texts, tags, places>> /\ UNCHANGED vars
      /\ UNCHANGED <<pos, stack, line_starting, tokens, balancing_stack, error>>
  BY DEF vars, template
<1>2. LexInv'
  BY <1>1, LexStutter DEF ControlInv
<1>3. Laid'
  BY <1>1, SameSaid DEF ControlInv
<1>4. Stands(pos, stack, line_starting, tokens)'
  <2>1. Stands(pos, stack, line_starting, tokens)
    BY DEF ControlInv
  <2>2. /\ \A i : TagAt(i)' = TagAt(i) /\ NamePlace(i)' = NamePlace(i) /\ EndPlace(i)' = EndPlace(i)
        /\ \A i : Entry(i)' = Entry(i) /\ (Starts(i)' <=> Starts(i))
        /\ \A toks, n : Said(toks, n)' <=> Said(toks, n)
    BY <1>1, SamePlaces, SameSaid
  <2>3. CASE \E i \in 1..Len(texts) : AtText(i, pos, stack, line_starting, tokens)
    BY <1>1, <2>2, <2>3, Zenon DEF Stands, AtText
  <2>4. CASE \E i \in 1..Len(tags) : Inside(i, pos, stack, tokens)
    BY <1>1, <2>2, <2>4, Zenon DEF Stands, Inside
  <2>5. CASE Through(pos, stack, tokens)
    BY <1>1, <2>2, <2>5, Zenon DEF Stands, Through
  <2>6. QED
    BY <2>1, <2>3, <2>4, <2>5 DEF Stands
<1>5. QED
  BY <1>1, <1>2, <1>3, <1>4 DEF ControlInv

(* At the end every text is said.                                          *)
LEMMA AllSaid ==
    ASSUME ControlInv
    PROVE  \E n \in Nat : /\ Said(tokens, n)
                          /\ Finished => \A i \in 1..Len(texts) : i < n \/ Controlled(i) = <<>>
<1>1. Laid /\ LexInv /\ Len(source) \in Nat
  BY DEF ControlInv, LexInv
<1>2. Len(tags) \in Nat /\ Len(texts) = Len(tags) + 1
  BY <1>1, SizeOfTemplate DEF Laid
<1>3. CASE \E i \in 1..Len(texts) : AtText(i, pos, stack, line_starting, tokens)
  <2>1. PICK i \in 1..Len(texts) : AtText(i, pos, stack, line_starting, tokens)
    BY <1>3
  <2>2. pos = Entry(i) /\ Said(tokens, i) /\ i \in Nat
    BY <2>1 DEF AtText
  <2>3. ASSUME Finished, NEW j \in 1..Len(texts) PROVE j < i \/ Controlled(j) = <<>>
    <3>1. pos > Len(source)
      BY <2>3 DEF Finished
    <3>2. Entry(i) \in places[i]..Stop(i) /\ places[i] \in Nat /\ Stop(i) \in Nat /\ TagPlace(i) \in Nat
      BY <1>1, EntryIn, TextPlaces
    <3>3. i \notin 1..Len(tags)
      <4>1. i \in 1..Len(tags) => Stop(i) \in 1..Len(source)
        <5>1. i \in 1..Len(tags) => i # Len(texts)
          BY <1>1, TagPlaces
        <5>2. QED
          BY <1>1, <5>1, StopChar
      <4> DEFINE z == Stop(i)
                 a == places[i]
                 l == Len(source)
      <4>2. z \in Nat /\ a \in Nat /\ pos \in a..z /\ l \in Nat /\ pos > l
        BY <1>1, <2>2, <3>1, <3>2
      <4> HIDE DEF z, a, l
      <4>3. z > l
        BY <4>2
      <4>4. z \notin 1..l
        BY <4>2, <4>3
      <4>5. QED
        BY <4>1, <4>4 DEF z, l
    <3>4. i = Len(texts)
      BY <1>1, <3>3, KindAt
    <3>5. j < i \/ j = i
      <4> DEFINE m == Len(texts)
      <4>1. m \in Nat /\ j \in 1..m /\ i = m
        BY <1>2, <3>4
      <4> HIDE DEF m
      <4>2. QED
        BY <4>1
    <3>6. Controlled(i) = <<>>
      <4>1. SUFFICES ASSUME Controlled(i) # <<>> PROVE FALSE
        OBVIOUS
      <4>2. Entry(i) \in places[i]..(TagPlace(i) - 1)
        BY <1>1, <4>1, DataAt
      <4>3. Stop(i) = Len(source) + 1
        BY <1>1, <3>4 DEF Laid
      <4>4. Controlled(i) = Trimmed(i)
        BY <1>1, <3>4, LastText
      <4>5. SubSeq(source, Entry(i), Stop(i) - 1) = Trimmed(i)
        BY <1>1, EntryIn
      <4> DEFINE e == Entry(i)
                 z == Stop(i)
                 a == places[i]
                 l == Len(source)
                 u == SubSeq(source, e, z - 1)
      <4>6. /\ e \in a..z /\ a \in Nat \ {0} /\ z \in Nat /\ z = l + 1 /\ e > l /\ l \in Nat
            /\ source \in Seq(Symbols) /\ u = Trimmed(i)
        BY <1>1, <2>2, <3>1, <3>2, <4>3, <4>5, TextPlaces DEF LexInv
      <4> HIDE DEF e, a, z
      <4>7. e = z /\ e \in 1..(l + 1) /\ z \in e..(l + 1)
        <5> HIDE DEF l
        <5>1. QED
          BY <4>6
      <4>8. u \in Seq(Symbols) /\ Len(u) = z - e
        BY <4>6, <4>7, Part
      <4> HIDE DEF u
      <4>9. Len(u) = 0
        BY <4>6, <4>7, <4>8
      <4>10. u = <<>>
        BY <4>8, <4>9
      <4>11. QED
        BY <4>1, <4>4, <4>6, <4>10
    <3>7. QED
      BY <3>5, <3>6
  <2>4. QED
    BY <2>2, <2>3
<1>4. CASE \E i \in 1..Len(tags) : Inside(i, pos, stack, tokens)
  <2>1. PICK i \in 1..Len(tags) : Inside(i, pos, stack, tokens)
    BY <1>4
  <2>2. Said(tokens, i + 1) /\ i + 1 \in Nat
    BY <2>1 DEF Inside
  <2>3. ~ Finished
    <3> DEFINE q == NamePlace(i)
               e == EndPlace(i)
               w == Len(Name(tags[i]))
               l == Len(source)
    <3>1. pos = q \/ pos \in q..e
      BY <2>1 DEF Inside
    <3>2. Stop(i) \in Nat \ {0} /\ q \in {Stop(i) + 2, Stop(i) + 3} /\ w \in 1..3 /\ e = q + w /\ e \in 1..l
      BY <1>1, TagPlaces, EndChar
    <3> HIDE DEF q, e, w
    <3>3. q \in Nat /\ e \in Nat /\ q <= e /\ e <= l /\ l \in Nat
      <4>1. l \in Nat
        BY <1>1
      <4> HIDE DEF l
      <4>2. q \in Nat /\ q <= e /\ e \in Nat /\ e <= l
        BY <3>2, <4>1
      <4>3. QED
        BY <4>1, <4>2
    <3>4. pos <= l
      <4> HIDE DEF l
      <4>1. CASE pos = q
        BY <3>3, <4>1
      <4>2. CASE pos \in q..e
        BY <3>3, <4>2
      <4>3. QED
        BY <3>1, <4>1, <4>2
    <3>5. ~ (pos > l)
      <4>1. pos \in Nat
        <5>1. e \in Nat
          BY <3>2
        <5>2. QED
          BY <3>1, <3>3, <5>1
      <4>2. QED
        BY <1>1, <3>4, <4>1
    <3>6. QED
      BY <3>5 DEF Finished
  <2>4. QED
    BY <2>2, <2>3
<1>5. CASE Through(pos, stack, tokens)
  <2>1. Said(tokens, Len(texts) + 1) /\ Len(texts) + 1 \in Nat
    BY <1>2, <1>5 DEF Through
  <2>2. \A i \in 1..Len(texts) : i < Len(texts) + 1
    BY <1>2
  <2>3. QED
    BY <2>1, <2>2
<1>6. QED
  BY <1>3, <1>4, <1>5 DEF ControlInv, Stands

(* Whatever the template, its signs and the options: each data token is    *)
(* what whitespace control leaves of one text, as docs/templates.rst has   *)
(* it; the lexer meets no error, and no text that is left goes unsaid      *)
(* (OptionalLStrip, trim_blocks, lstrip_blocks and raw blocks).            *)
THEOREM TextsAreControlled == TemplateSpec => []DataControlled
<1>1. TemplateInit => ControlInv
  BY ControlInit
<1>2. ControlInv /\ [TemplateNext]_<<vars, template>> => ControlInv'
  BY ControlNext, ControlStutter
<1>3. ASSUME ControlInv PROVE DataControlled
  <2>1. Laid /\ error = None /\ DOMAIN tokens = 1..Len(tokens)
    BY <1>3 DEF ControlInv, LexInv, Read
  <2>2. DOMAIN texts = 1..Len(texts)
    BY <2>1, SizeOfTemplate DEF Laid
  <2>3. \A i : DataOf(i) = DataIn(tokens, i)
    BY <2>1 DEF DataOf, DataIn
  <2>4. PICK n \in Nat : /\ Said(tokens, n)
                         /\ Finished => \A i \in 1..Len(texts) : i < n \/ Controlled(i) = <<>>
    BY <1>3, AllSaid
  <2>5. \A k \in 1..Len(tokens) : tokens[k].kind = "data" => \E i \in 1..Len(texts) : k \in DataIn(tokens, i)
    BY <2>4, Zenon DEF Said
  <2>6. ASSUME NEW i \in 1..Len(texts)
        PROVE  /\ \A j, k \in DataIn(tokens, i) : j = k /\ tokens[k].text = Controlled(i)
               /\ Finished /\ Controlled(i) # <<>> => DataIn(tokens, i) # {}
    <3>1. CASE i < n
      BY <2>4, <3>1, Zenon DEF Said
    <3>2. CASE ~ (i < n)
      <4>1. n <= i
        BY <3>2
      <4>2. DataIn(tokens, i) = {}
        BY <2>1, <2>4, <4>1, NotYet
      <4>3. Finished => Controlled(i) = <<>>
        BY <2>4, <3>2
      <4>4. QED
        BY <4>2, <4>3
    <3>3. QED
      BY <3>1, <3>2
  <2>7. QED
    BY <2>1, <2>2, <2>3, <2>5, <2>6, Zenon DEF DataControlled
<1>4. QED
  BY <1>1, <1>2, <1>3, PTL DEF TemplateSpec
=============================================================================
