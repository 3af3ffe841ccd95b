-------------------------- MODULE InheritanceProofs --------------------------
(***************************************************************************)
(* Rendering keeps its books for any set of templates: however roots,      *)
(* blocks, includes and extends are nested, every running function has a   *)
(* Context whose lists of blocks hold the template it comes from, these    *)
(* lists follow the chain of extends, and what the compiler has taken for  *)
(* granted about parent_template is so.                                    *)
(***************************************************************************)
EXTENDS Inheritance, FiniteSetTheorems, SequenceTheorems,
        WellFoundedInduction, TLAPS

-----------------------------------------------------------------------------
(* Sequences and least indices                                             *)

LEMMA Elements ==
    ASSUME NEW S, NEW q \in Seq(S)
    PROVE  /\ DOMAIN q = 1..Len(q)
           /\ ToSet(q) = {q[i] : i \in 1..Len(q)}
           /\ ToSet(q) \subseteq S
           /\ q = <<>> <=> ToSet(q) = {}
  BY DEF ToSet

LEMMA AppendItems ==
    ASSUME NEW S, NEW q \in Seq(S), NEW x \in S
    PROVE  /\ Append(q, x) \in Seq(S) /\ Len(Append(q, x)) = Len(q) + 1
           /\ \A i \in 1..Len(q) : Append(q, x)[i] = q[i]
           /\ Append(q, x)[Len(q) + 1] = x
  OBVIOUS

LEMMA AppendElements ==
    ASSUME NEW S, NEW q \in Seq(S), NEW x \in S
    PROVE  ToSet(Append(q, x)) = ToSet(q) \cup {x}
<1> DEFINE a == Append(q, x)
<1>1. /\ a \in Seq(S) /\ Len(a) = Len(q) + 1
      /\ \A i \in 1..Len(q) : a[i] = q[i]
      /\ a[Len(q) + 1] = x
  BY AppendItems
<1> HIDE DEF a
<1>2. ASSUME NEW y \in ToSet(a) PROVE y \in ToSet(q) \cup {x}
  BY <1>1, <1>2, Elements
<1>3. ASSUME NEW y \in ToSet(q) PROVE y \in ToSet(a)
  BY <1>1, <1>3, Elements
<1>4. x \in ToSet(a)
  BY <1>1, Elements
<1>5. QED
  BY <1>2, <1>3, <1>4 DEF a

(* A set of naturals that is not empty has a smallest element.             *)
LEMMA MinIn ==
    ASSUME NEW I \in SUBSET Nat, I # {}
    PROVE  Min(I) \in I /\ \A k \in I : Min(I) <= k
<1> DEFINE less == OpToRel(<, Nat)
<1>1. IsWellFoundedOn(less, Nat)
  BY NatLessThanWellFounded
<1>2. \A k, m \in Nat : k < m => <<k, m>> \in less
  BY DEF OpToRel
<1> HIDE DEF less
<1>3. PICK m \in I : \A k \in I : ~ (<<k, m>> \in less)
  BY <1>1, WFMin
<1>4. ASSUME NEW k \in I PROVE m <= k
  <2>1. k \in Nat /\ m \in Nat /\ ~ (k < m)
    BY <1>2, <1>3
  <2>2. QED
    BY <2>1
<1>5. QED
  BY <1>4 DEF Min

-----------------------------------------------------------------------------
Kinds == {"text", "value"}

Activations == [tpl : Names, block : Blocks \cup {None}, at : Nat \ {0},
                extended : Names \cup {None}, sections : Nat]
ContextRecords == [blocks : [Blocks -> Seq(Names)],
                   vars : Names \cup {None}, parent : Names \cup {None}]
Items == [what : Kinds \cup Errors, tpl : Names, block : Blocks \cup {None},
          value : Names \cup {None}, sections : Nat]

(* The contexts of the activations 1 to i: one for every root.             *)
Depth(s, i) == Cardinality({j \in 1..i : s[j].block = None})

(* Of an activation a in the program p: its code, and which statements of  *)
(* its root lie behind it.                                                 *)
CodeIn(p, a) == IF a.block = None THEN p[a.tpl].root ELSE p[a.tpl].body[a.block]
Behind(p, a, ops) == \E j \in 1..(a.at - 1) : p[a.tpl].root[j].op \in ops

(* The lists of blocks of a context c follow the chain h.                  *)
Follows(p, c, h) ==
    \A b \in Blocks :
        LET defs == c.blocks[b] IN
        /\ ToSet(defs) = {n \in ToSet(h) : b \in p[n].defines}
        /\ \A i, j \in DOMAIN defs :
              i < j => \E k, l \in DOMAIN h :
                          k < l /\ h[k] = defs[i] /\ h[l] = defs[j]

(* An activation a that runs in the context c, whose chain is h: it is     *)
(* somewhere in its code, its template and the one this extends are of the *)
(* chain, a block is in the list of its context, where Context.super looks *)
(* for it, and a root has extended just where the compiler thinks so.      *)
Fits(p, a, c, h) ==
    /\ a.at \in 1..(1 + Len(CodeIn(p, a)))
    /\ a.tpl \in ToSet(h)
    /\ a.extended # None => a.extended \in ToSet(h)
    /\ a.block # None => a.tpl \in ToSet(c.blocks[a.block])
    /\ a.block = None =>
          /\ Behind(p, a, {"extends"}) => a.extended # None
          /\ a.extended # None => Behind(p, a, Extending)

(* The inductive invariant: of the activations and their contexts,         *)
StackInv ==
    /\ program \in Programs
    /\ stack \in Seq(Activations) /\ contexts \in Seq(ContextRecords)
    /\ chains \in Seq(Seq(Names)) /\ Len(chains) = Len(contexts)
    /\ \A c \in 1..Len(contexts) : Follows(program, contexts[c], chains[c])
    /\ stack # <<>> => stack[1].block = None
    /\ stack # <<>> => Depth(stack, Len(stack)) = Len(contexts)
    /\ \A i \in 1..Len(stack) :
           Fits(program, stack[i], contexts[Depth(stack, i)], chains[Depth(stack, i)])

(* and of what has been rendered.                                          *)
OutInv ==
    /\ out \in Seq(Items)
    /\ Failed => stack = <<>>
    /\ stack = <<>> => Failed \/ contexts = <<>>
    /\ \A i \in 1..Len(out) : out[i].what # "AttributeError"

-----------------------------------------------------------------------------
(* Sequences of which the last item changes                                *)

LEMMA FrontIndices ==
    ASSUME NEW S, NEW s \in Seq(S), s # <<>>
    PROVE  /\ Front(s) \in Seq(S) /\ Len(Front(s)) = Len(s) - 1
           /\ \A i \in 1..Len(s) - 1 : Front(s)[i] = s[i]
           /\ Len(s) \in Nat \ {0} /\ Last(s) = s[Len(s)] /\ Last(s) \in S
<1>1. Len(s) \in Nat \ {0} /\ Last(s) = s[Len(s)] /\ Last(s) \in S
  BY DEF Last
<1>2. Front(s) = SubSeq(s, 1, Len(s) - 1)
  BY DEF Front
<1>3. /\ SubSeq(s, 1, Len(s) - 1) \in Seq(S)
      /\ Len(SubSeq(s, 1, Len(s) - 1)) = Len(s) - 1
      /\ \A i \in 1..Len(s) - 1 : SubSeq(s, 1, Len(s) - 1)[i] = s[i]
  <2> DEFINE n == Len(s) - 1
             f == SubSeq(s, 1, n)
  <2>1. n \in 0..Len(s) /\ 1 \in 1..Len(s) + 1
    BY <1>1
  <2>2. /\ f \in Seq(S) /\ Len(f) = IF 1 <= n THEN n - 1 + 1 ELSE 0
        /\ \A i \in 1..n - 1 + 1 : f[i] = s[1 + i - 1]
    BY <2>1, SubSeqProperties
  <2> HIDE DEF f
  <2>3. n \in Nat /\ n - 1 + 1 = n
    BY <1>1
  <2> HIDE DEF n
  <2>4. Len(f) = n
    BY <2>2, <2>3
  <2>5. \A i \in 1..n : f[i] = s[i]
    <3>1. ASSUME NEW i \in 1..n PROVE f[i] = s[1 + i - 1] /\ 1 + i - 1 = i
      BY <2>2, <2>3
    <3>2. QED
      BY <3>1
  <2>6. QED
    BY <2>2, <2>4, <2>5 DEF f, n
<1>4. QED
  BY <1>1, <1>2, <1>3

WithLast(s, x)       == Front(s) \o <<x>>
WithLastTwo(s, x, y) == Front(s) \o <<x, y>>

(* s, a sequence over S, with its last item replaced by x, and then by y.  *)
Replaced(r, S, s, x) ==
    /\ r \in Seq(S) /\ Len(r) = Len(s)
    /\ \A i \in 1..Len(s) - 1 : r[i] = s[i]
    /\ r[Len(s)] = x
ReplacedByTwo(r, S, s, x, y) ==
    /\ r \in Seq(S) /\ Len(r) = Len(s) + 1
    /\ \A i \in 1..Len(s) - 1 : r[i] = s[i]
    /\ r[Len(s)] = x /\ r[Len(s) + 1] = y

LEMMA ReplaceLast ==
    ASSUME NEW S, NEW s \in Seq(S), s # <<>>, NEW x \in S
    PROVE  Replaced(WithLast(s, x), S, s, x)
<1> DEFINE f == Front(s)
<1>1. f \in Seq(S) /\ Len(f) = Len(s) - 1 /\ \A i \in 1..Len(s) - 1 : f[i] = s[i]
  BY FrontIndices
<1> HIDE DEF f
<1>2. QED
  BY <1>1 DEF f, WithLast, Replaced

LEMMA SameLast ==
    ASSUME NEW S, NEW s \in Seq(S), s # <<>>
    PROVE  s = WithLast(s, Last(s))
<1> DEFINE r == WithLast(s, Last(s))
<1>1. Last(s) \in S
  BY FrontIndices
<1>2. Replaced(r, S, s, Last(s))
  BY <1>1, ReplaceLast
<1> HIDE DEF r
<1>3. /\ r \in Seq(S) /\ Len(r) = Len(s)
      /\ \A i \in 1..Len(s) : r[i] = s[i]
  BY <1>2, FrontIndices DEF Replaced
<1>4. QED
  BY <1>3, SeqEqual DEF r

LEMMA ReplaceLastAndPush ==
    ASSUME NEW S, NEW s \in Seq(S), s # <<>>, NEW x \in S, NEW y \in S
    PROVE  ReplacedByTwo(WithLastTwo(s, x, y), S, s, x, y)
<1> DEFINE f == Front(s)
<1>1. f \in Seq(S) /\ Len(f) = Len(s) - 1 /\ \A i \in 1..Len(s) - 1 : f[i] = s[i]
  BY FrontIndices
<1> HIDE DEF f
<1>2. QED
  BY <1>1, SMTT(30) DEF f, WithLastTwo, ReplacedByTwo

-----------------------------------------------------------------------------
(* The depth of an activation                                              *)

LEMMA DepthStep ==
    ASSUME NEW s, NEW i \in Nat
    PROVE  /\ Depth(s, i) \in Nat
           /\ Depth(s, i + 1) =
                 Depth(s, i) + (IF s[i + 1].block = None THEN 1 ELSE 0)
<1> DEFINE R(n) == {j \in 1..n : s[j].block = None}
<1>1. IsFiniteSet(R(i))
  <2>1. R(i) \in SUBSET (1..i) /\ IsFiniteSet(1..i)
    BY FS_Interval
  <2>2. QED
    BY <2>1, FS_Subset
<1>2. R(i + 1) = IF s[i + 1].block = None THEN R(i) \cup {i + 1} ELSE R(i)
  OBVIOUS
<1>3. i + 1 \notin R(i)
  OBVIOUS
<1> HIDE DEF R
<1>4. Cardinality(R(i)) \in Nat
  BY <1>1, FS_CardinalityType
<1>5. Cardinality(R(i) \cup {i + 1}) = Cardinality(R(i)) + 1
  BY <1>1, <1>3, FS_AddElement
<1>6. Depth(s, i) = Cardinality(R(i)) /\ Depth(s, i + 1) = Cardinality(R(i + 1))
  BY DEF Depth, R
<1>7. QED
  BY <1>2, <1>4, <1>5, <1>6

LEMMA DepthSame ==
    ASSUME NEW s, NEW r, NEW i \in Nat,
           \A j \in 1..i : s[j].block = None <=> r[j].block = None
    PROVE  Depth(s, i) = Depth(r, i)
<1>1. {j \in 1..i : s[j].block = None} = {j \in 1..i : r[j].block = None}
  OBVIOUS
<1>2. QED
  BY <1>1 DEF Depth

LEMMA DepthRange ==
    ASSUME NEW s, s[1].block = None, NEW n \in Nat, NEW i \in 1..n
    PROVE  Depth(s, i) \in 1..Depth(s, n)
<1> DEFINE R(m) == {j \in 1..m : s[j].block = None}
<1>1. IsFiniteSet(R(i)) /\ IsFiniteSet(R(n))
  <2>1. ASSUME NEW m \in Nat PROVE IsFiniteSet(R(m))
    <3>1. R(m) \in SUBSET (1..m) /\ IsFiniteSet(1..m)
      BY FS_Interval
    <3>2. QED
      BY <3>1, FS_Subset
  <2>2. QED
    BY <2>1
<1>2. R(i) \subseteq R(n) /\ {1} \subseteq R(i)
  OBVIOUS
<1> HIDE DEF R
<1>3. Cardinality(R(i)) \in Nat /\ Cardinality(R(n)) \in Nat
  BY <1>1, FS_CardinalityType
<1>4. Cardinality({1}) = 1 /\ IsFiniteSet({1})
  BY FS_Singleton
<1>5. Cardinality({1}) <= Cardinality(R(i)) /\ Cardinality(R(i)) <= Cardinality(R(n))
  BY <1>1, <1>2, FS_Subset
<1>6. QED
  BY <1>3, <1>4, <1>5 DEF Depth, R

-----------------------------------------------------------------------------
(* The steps of the stack                                                  *)

(* What a context gains its activations do not lose.                       *)
LEMMA FitsGrown ==
    ASSUME NEW p, NEW a, NEW c, NEW h, NEW d, NEW g, Fits(p, a, c, h),
           ToSet(h) \subseteq ToSet(g), a \in Activations,
           \A b \in Blocks : ToSet(c.blocks[b]) \subseteq ToSet(d.blocks[b])
    PROVE  Fits(p, a, d, g)
  BY DEF Fits, Activations

(* The activation that runs, and its context.                              *)
LEMMA Innermost ==
    ASSUME StackInv, Running
    PROVE  /\ program \in Programs
           /\ Top \in Activations /\ Ctx \in ContextRecords
           /\ Last(chains) \in Seq(Names)
           /\ contexts # <<>> /\ chains # <<>>
           /\ Top = stack[Len(stack)] /\ Ctx = contexts[Len(contexts)]
           /\ Last(chains) = chains[Len(contexts)]
           /\ Len(stack) \in Nat \ {0} /\ Len(contexts) \in Nat \ {0}
           /\ Depth(stack, Len(stack)) = Len(contexts)
           /\ \A i \in 1..Len(stack) : Depth(stack, i) \in 1..Len(contexts)
           /\ Fits(program, Top, Ctx, Last(chains))
           /\ Follows(program, Ctx, Last(chains))
<1>1. /\ program \in Programs /\ stack # <<>> /\ stack \in Seq(Activations)
      /\ contexts \in Seq(ContextRecords) /\ chains \in Seq(Seq(Names))
      /\ Len(chains) = Len(contexts)
      /\ stack[1].block = None /\ Depth(stack, Len(stack)) = Len(contexts)
  BY DEF StackInv, Running
<1>2. /\ Len(stack) \in Nat \ {0} /\ Top \in Activations
      /\ Top = stack[Len(stack)]
  BY <1>1, FrontIndices DEF Top
<1>3. \A i \in 1..Len(stack) : Depth(stack, i) \in 1..Len(contexts)
  BY <1>1, <1>2, DepthRange
<1>4. Len(contexts) \in Nat \ {0} /\ contexts # <<>> /\ chains # <<>>
  BY <1>1, <1>2, <1>3
<1>5. /\ Ctx \in ContextRecords /\ Ctx = contexts[Len(contexts)]
      /\ Last(chains) \in Seq(Names) /\ Last(chains) = chains[Len(contexts)]
  BY <1>1, <1>4, FrontIndices DEF Ctx
<1>6. Fits(program, Top, Ctx, Last(chains)) /\ Follows(program, Ctx, Last(chains))
  BY <1>1, <1>2, <1>4, <1>5 DEF StackInv
<1>7. QED
  BY <1>1, <1>2, <1>3, <1>4, <1>5, <1>6

(* The running activation goes on as a, and its context as c.              *)
LEMMA Going ==
    ASSUME StackInv, Running, program' = program,
           NEW a \in Activations, NEW c \in ContextRecords, NEW h \in Seq(Names),
           stack' = WithLast(stack, a), a.block = None <=> Top.block = None,
           contexts' = WithLast(contexts, c), chains' = WithLast(chains, h),
           Follows(program, c, h), Fits(program, a, c, h),
           ToSet(Last(chains)) \subseteq ToSet(h),
           \A b \in Blocks : ToSet(Ctx.blocks[b]) \subseteq ToSet(c.blocks[b])
    PROVE  StackInv'
<1> DEFINE n == Len(stack)
           m == Len(contexts)
<1>0. /\ stack \in Seq(Activations) /\ stack # <<>>
      /\ contexts \in Seq(ContextRecords) /\ contexts # <<>>
      /\ chains \in Seq(Seq(Names)) /\ chains # <<>>
  BY Innermost DEF StackInv, Running
<1>1. /\ n \in Nat \ {0} /\ m \in Nat \ {0} /\ Len(chains) = m
      /\ Top = stack[n] /\ Ctx = contexts[m] /\ Last(chains) = chains[m]
      /\ Depth(stack, n) = m /\ \A i \in 1..n : Depth(stack, i) \in 1..m
  BY Innermost DEF StackInv, Running
<1>2. /\ Replaced(stack', Activations, stack, a)
      /\ Replaced(contexts', ContextRecords, contexts, c)
      /\ Replaced(chains', Seq(Names), chains, h)
  BY <1>0, ReplaceLast
<1>3. /\ stack' \in Seq(Activations) /\ Len(stack') = n
      /\ contexts' \in Seq(ContextRecords) /\ Len(contexts') = m
      /\ chains' \in Seq(Seq(Names)) /\ Len(chains') = m
  BY <1>1, <1>2 DEF Replaced
<1>4. /\ \A i \in 1..n - 1 : stack'[i] = stack[i]
      /\ stack'[n] = a
      /\ \A i \in 1..m - 1 : contexts'[i] = contexts[i] /\ chains'[i] = chains[i]
      /\ contexts'[m] = c /\ chains'[m] = h
  BY <1>1, <1>2 DEF Replaced
<1> HIDE DEF n, m
<1>5. \A i \in 1..n : stack'[i].block = None <=> stack[i].block = None
  BY <1>1, <1>4
<1>6. \A i \in 1..n : Depth(stack', i) = Depth(stack, i)
  <2>1. ASSUME NEW i \in 1..n PROVE Depth(stack', i) = Depth(stack, i)
    <3>1. i \in Nat /\ \A j \in 1..i : j \in 1..n
      BY <1>1
    <3>2. \A j \in 1..i : stack'[j].block = None <=> stack[j].block = None
      BY <1>5, <3>1
    <3>3. QED
      BY <3>1, <3>2, DepthSame
  <2>2. QED
    BY <2>1
<1>7. \A i \in 1..m : Follows(program, contexts'[i], chains'[i])
  <2>1. \A i \in 1..m : Follows(program, contexts[i], chains[i])
    BY DEF StackInv, m
  <2>2. ASSUME NEW i \in 1..m PROVE Follows(program, contexts'[i], chains'[i])
    <3>1. CASE i = m
      BY <1>4, <3>1
    <3>2. CASE i # m
      <4>1. i \in 1..m - 1
        BY <1>1, <3>2
      <4>2. QED
        BY <1>4, <2>1, <4>1
    <3>3. QED
      BY <3>1, <3>2
  <2>3. QED
    BY <2>2
<1>8. ASSUME NEW i \in 1..n
      PROVE  Fits(program, stack'[i], contexts'[Depth(stack, i)], chains'[Depth(stack, i)])
  <2> DEFINE d == Depth(stack, i)
  <2>1. d \in 1..m
    BY <1>1
  <2>2. CASE i = n
    BY <1>1, <1>4, <2>2
  <2>3. CASE i # n
    <3>1. stack'[i] = stack[i] /\ stack[i] \in Activations
      <4>1. i \in 1..n - 1
        BY <1>1, <2>3
      <4>2. stack[i] \in Activations
        BY <1>0, ElementOfSeq DEF n
      <4>3. QED
        BY <1>4, <4>1, <4>2
    <3>2. Fits(program, stack[i], contexts[d], chains[d])
      BY DEF StackInv, n
    <3>3. CASE d # m
      BY <1>1, <1>4, <2>1, <3>1, <3>2, <3>3
    <3>4. CASE d = m
      <4>1. Fits(program, stack[i], Ctx, Last(chains))
        BY <1>1, <3>2, <3>4
      <4>2. Fits(program, stack[i], c, h)
        BY <3>1, <4>1, FitsGrown
      <4>3. QED
        BY <1>4, <3>1, <3>4, <4>2
    <3>5. QED
      BY <3>3, <3>4
  <2>4. QED
    BY <2>2, <2>3
<1>9. stack'[1].block = None
  <2>1. stack[1].block = None /\ 1 \in 1..n
    BY <1>0, <1>1 DEF StackInv
  <2>2. QED
    BY <1>5, <2>1
<1>10. program' \in Programs
  BY DEF StackInv
<1>11. QED
  BY <1>1, <1>3, <1>6, <1>7, <1>8, <1>9, <1>10 DEF StackInv, n, m

(* The running activation goes on as a and calls b.                        *)
LEMMA Pushed ==
    ASSUME StackInv, Running, NEW a \in Activations, NEW b \in Activations,
           stack' = WithLastTwo(stack, a, b), a.block = None <=> Top.block = None
    PROVE  /\ stack' \in Seq(Activations) /\ Len(stack') = Len(stack) + 1
           /\ \A i \in 1..Len(stack) - 1 : stack'[i] = stack[i]
           /\ stack'[Len(stack)] = a /\ stack'[Len(stack) + 1] = b
           /\ stack'[1].block = None
           /\ \A i \in 1..Len(stack) : Depth(stack', i) = Depth(stack, i)
           /\ Depth(stack', Len(stack) + 1) =
                 Len(contexts) + (IF b.block = None THEN 1 ELSE 0)
<1> DEFINE n == Len(stack)
<1>0. stack \in Seq(Activations) /\ stack # <<>>
  BY DEF StackInv, Running
<1>1. /\ n \in Nat \ {0} /\ Top = stack[n] /\ Depth(stack, n) = Len(contexts)
      /\ stack[1].block = None
  BY <1>0, Innermost DEF StackInv
<1>2. ReplacedByTwo(stack', Activations, stack, a, b)
  BY <1>0, ReplaceLastAndPush
<1>3. /\ stack' \in Seq(Activations) /\ Len(stack') = n + 1
      /\ \A i \in 1..n - 1 : stack'[i] = stack[i]
      /\ stack'[n] = a /\ stack'[n + 1] = b
  BY <1>2 DEF ReplacedByTwo
<1> HIDE DEF n
<1>4. \A i \in 1..n : stack'[i].block = None <=> stack[i].block = None
  BY <1>1, <1>3
<1>5. ASSUME NEW i \in 1..n PROVE Depth(stack', i) = Depth(stack, i)
  <2>1. i \in Nat /\ \A j \in 1..i : j \in 1..n
    BY <1>1
  <2>2. \A j \in 1..i : stack'[j].block = None <=> stack[j].block = None
    BY <1>4, <2>1
  <2>3. QED
    BY <2>1, <2>2, DepthSame
<1>6. Depth(stack', n + 1) = Depth(stack', n) + (IF b.block = None THEN 1 ELSE 0)
  <2>1. n \in Nat
    BY <1>1
  <2>2. Depth(stack', n + 1) =
           Depth(stack', n) + (IF stack'[n + 1].block = None THEN 1 ELSE 0)
    BY <2>1, DepthStep
  <2>3. QED
    BY <1>3, <2>2
<1>7. n \in 1..n /\ 1 \in 1..n
  BY <1>1
<1>8. stack'[1].block = None
  BY <1>1, <1>4, <1>7
<1>9. Depth(stack', n + 1) = Len(contexts) + (IF b.block = None THEN 1 ELSE 0)
  BY <1>1, <1>5, <1>6, <1>7
<1>10. QED
  BY <1>3, <1>5, <1>8, <1>9 DEF n

LEMMA Calling ==
    ASSUME StackInv, Running, UNCHANGED <<program, contexts, chains>>,
           NEW a \in Activations, NEW b \in Activations,
           stack' = WithLastTwo(stack, a, b), a.block = None <=> Top.block = None,
           b.block # None, Fits(program, a, Ctx, Last(chains)),
           Fits(program, b, Ctx, Last(chains))
    PROVE  StackInv'
<1> DEFINE n == Len(stack)
           m == Len(contexts)
<1>1. /\ stack' \in Seq(Activations) /\ Len(stack') = n + 1
      /\ \A i \in 1..n - 1 : stack'[i] = stack[i]
      /\ stack'[n] = a /\ stack'[n + 1] = b
      /\ stack'[1].block = None
      /\ \A i \in 1..n : Depth(stack', i) = Depth(stack, i)
      /\ Depth(stack', n + 1) = m
  <2>1. m \in Nat
    BY Innermost
  <2>2. QED
    BY <2>1, Pushed
<1>2. /\ n \in Nat \ {0} /\ m \in Nat \ {0} /\ Depth(stack, n) = m
      /\ Ctx = contexts[m] /\ Last(chains) = chains[m]
  BY Innermost
<1>3. ASSUME NEW i \in 1..n + 1
      PROVE  Fits(program, stack'[i], contexts[Depth(stack', i)], chains[Depth(stack', i)])
  <2> HIDE DEF n, m
  <2>1. CASE i = n + 1
    BY <1>1, <1>2, <2>1
  <2>2. CASE i = n
    <3>1. n \in 1..n
      BY <1>2
    <3>2. QED
      BY <1>1, <1>2, <2>2, <3>1
  <2>3. CASE i \in 1..n - 1
    <3>1. i \in 1..n
      BY <1>2, <2>3
    <3>2. Fits(program, stack[i], contexts[Depth(stack, i)], chains[Depth(stack, i)])
      BY <3>1 DEF StackInv, n
    <3>3. QED
      BY <1>1, <2>3, <3>1, <3>2
  <2>4. QED
    BY <1>2, <2>1, <2>2, <2>3
<1>4. /\ program \in Programs /\ contexts \in Seq(ContextRecords)
      /\ chains \in Seq(Seq(Names)) /\ Len(chains) = m
      /\ \A i \in 1..m : Follows(program, contexts[i], chains[i])
  BY DEF StackInv
<1> HIDE DEF n, m
<1>5. QED
  BY <1>1, <1>2, <1>3, <1>4 DEF StackInv, m

LEMMA Including ==
    ASSUME StackInv, Running, program' = program,
           NEW a \in Activations, NEW b \in Activations,
           NEW c \in ContextRecords, NEW h \in Seq(Names),
           stack' = WithLastTwo(stack, a, b), a.block = None <=> Top.block = None,
           b.block = None, Fits(program, a, Ctx, Last(chains)),
           contexts' = Append(contexts, c), chains' = Append(chains, h),
           Follows(program, c, h), Fits(program, b, c, h)
    PROVE  StackInv'
<1> DEFINE n == Len(stack)
           m == Len(contexts)
<1>1. /\ stack' \in Seq(Activations) /\ Len(stack') = n + 1
      /\ \A i \in 1..n - 1 : stack'[i] = stack[i]
      /\ stack'[n] = a /\ stack'[n + 1] = b
      /\ stack'[1].block = None
      /\ \A i \in 1..n : Depth(stack', i) = Depth(stack, i)
      /\ Depth(stack', n + 1) = m + 1
  BY Pushed
<1>2. /\ n \in Nat \ {0} /\ m \in Nat \ {0} /\ Depth(stack, n) = m
      /\ Ctx = contexts[m] /\ Last(chains) = chains[m]
      /\ \A i \in 1..n : Depth(stack, i) \in 1..m
  BY Innermost
<1>3. /\ program \in Programs /\ contexts \in Seq(ContextRecords)
      /\ chains \in Seq(Seq(Names)) /\ Len(chains) = m
      /\ \A i \in 1..m : Follows(program, contexts[i], chains[i])
  BY DEF StackInv
<1>4. /\ contexts' \in Seq(ContextRecords) /\ Len(contexts') = m + 1
      /\ chains' \in Seq(Seq(Names)) /\ Len(chains') = m + 1
  BY <1>3
<1>5. /\ \A i \in 1..m : contexts'[i] = contexts[i] /\ chains'[i] = chains[i]
      /\ contexts'[m + 1] = c /\ chains'[m + 1] = h
  BY <1>3
<1>6. ASSUME NEW i \in 1..n + 1
      PROVE  Fits(program, stack'[i], contexts'[Depth(stack', i)], chains'[Depth(stack', i)])
  <2> HIDE DEF n, m
  <2>1. CASE i = n + 1
    BY <1>1, <1>5, <2>1
  <2>2. CASE i = n
    <3>1. n \in 1..n /\ m \in 1..m
      BY <1>2
    <3>2. QED
      BY <1>1, <1>2, <1>5, <2>2, <3>1
  <2>3. CASE i \in 1..n - 1
    <3>1. i \in 1..n
      BY <1>2, <2>3
    <3>2. Fits(program, stack[i], contexts[Depth(stack, i)], chains[Depth(stack, i)])
      BY <3>1 DEF StackInv, n
    <3>3. QED
      BY <1>1, <1>2, <1>5, <2>3, <3>1, <3>2
  <2>4. i = n + 1 \/ i = n \/ i \in 1..n - 1
    BY <1>2
  <2>5. QED
    BY <2>1, <2>2, <2>3, <2>4
<1>7. \A i \in 1..m + 1 : Follows(program, contexts'[i], chains'[i])
  <2> HIDE DEF n, m
  <2>1. ASSUME NEW i \in 1..m + 1 PROVE Follows(program, contexts'[i], chains'[i])
    <3>1. i \in 1..m \/ i = m + 1
      BY <1>2
    <3>2. QED
      BY <1>3, <1>5, <3>1
  <2>2. QED
    BY <2>1
<1> HIDE DEF n, m
<1>8. QED
  BY <1>1, <1>2, <1>3, <1>4, <1>6, <1>7 DEF StackInv

(* The running activation ends: a block in its context, a root with it.    *)
LEMMA Popped ==
    ASSUME StackInv, Running, stack' = Front(stack)
    PROVE  /\ stack' \in Seq(Activations) /\ Len(stack') = Len(stack) - 1
           /\ \A i \in 1..Len(stack) - 1 : /\ stack'[i] = stack[i]
                                           /\ Depth(stack', i) = Depth(stack, i)
           /\ stack' # <<>> => stack'[1].block = None
           /\ Len(contexts) = Depth(stack, Len(stack) - 1)
                                + (IF Top.block = None THEN 1 ELSE 0)
           /\ stack' = <<>> => Top.block = None /\ Len(contexts) = 1
<1> DEFINE n == Len(stack)
<1>0. stack \in Seq(Activations) /\ stack # <<>>
  BY DEF StackInv, Running
<1>1. /\ n \in Nat \ {0} /\ Top = stack[n] /\ Depth(stack, n) = Len(contexts)
      /\ stack[1].block = None
  BY <1>0, Innermost DEF StackInv
<1>2. /\ stack' \in Seq(Activations) /\ Len(stack') = n - 1
      /\ \A i \in 1..n - 1 : stack'[i] = stack[i]
  BY <1>0, FrontIndices
<1> HIDE DEF n
<1>3. ASSUME NEW i \in 1..n - 1 PROVE Depth(stack', i) = Depth(stack, i)
  <2>1. i \in Nat /\ \A j \in 1..i : j \in 1..n - 1
    BY <1>1
  <2>2. \A j \in 1..i : stack'[j].block = None <=> stack[j].block = None
    BY <1>2, <2>1
  <2>3. QED
    BY <2>1, <2>2, DepthSame
<1>4. stack' # <<>> => stack'[1].block = None
  <2>1. ASSUME stack' # <<>> PROVE 1 \in 1..n - 1
    BY <1>1, <1>2, <2>1
  <2>2. QED
    BY <1>1, <1>2, <2>1
<1>5. Len(contexts) = Depth(stack, n - 1) + (IF Top.block = None THEN 1 ELSE 0)
  <2>1. n - 1 \in Nat /\ n - 1 + 1 = n
    BY <1>1
  <2>2. QED
    BY <1>1, <2>1, DepthStep
<1>6. stack' = <<>> => Top.block = None /\ Len(contexts) = 1
  <2> SUFFICES ASSUME stack' = <<>> PROVE Top.block = None /\ Len(contexts) = 1
    OBVIOUS
  <2>1. n = 1
    BY <1>1, <1>2
  <2>2. Depth(stack, 0) = 0
    <3>1. {j \in 1..0 : stack[j].block = None} = {}
      OBVIOUS
    <3>2. QED
      BY <3>1, FS_EmptySet DEF Depth
  <2>3. QED
    BY <1>1, <1>5, <2>1, <2>2
<1>7. QED
  BY <1>2, <1>3, <1>4, <1>5, <1>6 DEF n

LEMMA Returning ==
    ASSUME StackInv, Running, Top.block # None, stack' = Front(stack),
           UNCHANGED <<program, contexts, chains>>
    PROVE  StackInv'
<1> DEFINE n == Len(stack)
<1>1. /\ stack' \in Seq(Activations) /\ Len(stack') = n - 1
      /\ \A i \in 1..n - 1 : /\ stack'[i] = stack[i]
                             /\ Depth(stack', i) = Depth(stack, i)
      /\ stack' # <<>> => stack'[1].block = None
  BY Popped
<1>2. n \in Nat \ {0} /\ Len(contexts) \in Nat
  BY Innermost
<1>3. stack' # <<>> => Depth(stack', Len(stack')) = Len(contexts)
  <2>1. Len(contexts) = Depth(stack, n - 1) + 0
    BY Popped
  <2>2. Depth(stack, n - 1) \in Nat
    BY <1>2, DepthStep
  <2> HIDE DEF n
  <2>3. stack' # <<>> => n - 1 \in 1..n - 1
    BY <1>1, <1>2
  <2>4. QED
    BY <1>1, <2>1, <2>2, <2>3
<1>4. ASSUME NEW i \in 1..n - 1
      PROVE  Fits(program, stack'[i], contexts[Depth(stack', i)], chains[Depth(stack', i)])
  <2>1. i \in 1..n
    BY <1>2
  <2>2. Fits(program, stack[i], contexts[Depth(stack, i)], chains[Depth(stack, i)])
    BY <2>1 DEF StackInv
  <2>3. QED
    BY <1>1, <2>2
<1>5. /\ program \in Programs /\ contexts \in Seq(ContextRecords)
      /\ chains \in Seq(Seq(Names)) /\ Len(chains) = Len(contexts)
      /\ \A i \in 1..Len(contexts) : Follows(program, contexts[i], chains[i])
  BY DEF StackInv
<1> HIDE DEF n
<1>6. QED
  BY <1>1, <1>3, <1>4, <1>5 DEF StackInv

LEMMA Leaving ==
    ASSUME StackInv, Running, Top.block = None, stack' = Front(stack),
           contexts' = Front(contexts), chains' = Front(chains), program' = program
    PROVE  StackInv' /\ (stack' = <<>> => contexts' = <<>>)
<1> DEFINE n == Len(stack)
           m == Len(contexts)
<1>1. /\ stack' \in Seq(Activations) /\ Len(stack') = n - 1
      /\ \A i \in 1..n - 1 : /\ stack'[i] = stack[i]
                             /\ Depth(stack', i) = Depth(stack, i)
      /\ stack' # <<>> => stack'[1].block = None
      /\ stack' = <<>> => m = 1
  BY Popped
<1>2. /\ n \in Nat \ {0} /\ m \in Nat \ {0} /\ contexts # <<>> /\ chains # <<>>
      /\ stack[1].block = None
  BY Innermost DEF StackInv, Running
<1>3. /\ program \in Programs /\ contexts \in Seq(ContextRecords)
      /\ chains \in Seq(Seq(Names)) /\ Len(chains) = m
      /\ \A i \in 1..m : Follows(program, contexts[i], chains[i])
  BY DEF StackInv
<1>4. /\ contexts' \in Seq(ContextRecords) /\ Len(contexts') = m - 1
      /\ \A i \in 1..m - 1 : contexts'[i] = contexts[i]
  BY <1>2, <1>3, FrontIndices
<1>5. /\ chains' \in Seq(Seq(Names)) /\ Len(chains') = m - 1
      /\ \A i \in 1..m - 1 : chains'[i] = chains[i]
  BY <1>2, <1>3, FrontIndices
<1>6. Depth(stack, n - 1) = m - 1
  <2>1. m = Depth(stack, n - 1) + 1
    BY Popped
  <2>2. Depth(stack, n - 1) \in Nat
    BY <1>2, DepthStep
  <2>3. QED
    BY <2>1, <2>2
<1>7. ASSUME NEW i \in 1..n - 1
      PROVE  Fits(program, stack'[i], contexts'[Depth(stack', i)], chains'[Depth(stack', i)])
  <2> DEFINE d == Depth(stack, i)
  <2>1. i \in 1..n /\ n - 1 \in Nat
    BY <1>2
  <2>2. Fits(program, stack[i], contexts[d], chains[d])
    BY <2>1 DEF StackInv
  <2>3. d \in 1..m - 1
    BY <1>2, <1>6, <2>1, DepthRange
  <2> HIDE DEF d, n, m
  <2>4. contexts'[d] = contexts[d] /\ chains'[d] = chains[d]
    BY <1>4, <1>5, <2>3
  <2>5. Depth(stack', i) = d /\ stack'[i] = stack[i]
    BY <1>1 DEF d
  <2>6. QED
    BY <2>2, <2>4, <2>5
<1> HIDE DEF n, m
<1>8. \A i \in 1..m - 1 : Follows(program, contexts'[i], chains'[i])
  <2>1. ASSUME NEW i \in 1..m - 1 PROVE Follows(program, contexts'[i], chains'[i])
    <3>1. i \in 1..m
      BY <1>2
    <3>2. QED
      BY <1>3, <1>4, <1>5, <3>1
  <2>2. QED
    BY <2>1
<1>9. stack' # <<>> => Depth(stack', n - 1) = m - 1
  <2>1. stack' # <<>> => n - 1 \in 1..n - 1
    BY <1>1, <1>2
  <2>2. QED
    BY <1>1, <1>6, <2>1
<1>10. StackInv'
  BY <1>1, <1>3, <1>4, <1>5, <1>7, <1>8, <1>9 DEF StackInv
<1>11. stack' = <<>> => contexts' = <<>>
  BY <1>1, <1>2, <1>4
<1>12. QED
  BY <1>10, <1>11

(* An exception empties the stack and leaves the contexts.                 *)
LEMMA Stopping ==
    ASSUME StackInv, stack' = <<>>, UNCHANGED <<program, contexts, chains>>
    PROVE  StackInv'
  BY DEF StackInv

-----------------------------------------------------------------------------
(* The statements                                                          *)

(* The statement the running activation has reached.                       *)
LEMMA AtStatement ==
    ASSUME StackInv, Running, ~AtEnd
    PROVE  /\ Stmt \in Statements /\ Code = CodeIn(program, Top)
           /\ Top.at \in 1..Len(Code)
           /\ Top.block = None => Stmt \in TopLevel
           /\ Top.block # None => Stmt \in InBlock
           /\ Stmt.op \in Placing => Stmt.arg \in program[Top.tpl].defines
           /\ Stmt.op \in Placing \cup {"self"} => Stmt.arg \in Blocks
           /\ Stmt.op \in {"include", "include_alone"} \cup Extending => Stmt.arg \in Names
<1>1. /\ program \in Programs /\ Top.tpl \in Names /\ Top.block \in Blocks \cup {None}
      /\ Top.at \in Nat \ {0} /\ Top.at \in 1..1 + Len(CodeIn(program, Top))
  BY Innermost DEF Activations, Fits
<1>2. /\ program[Top.tpl].root \in Seq(TopLevel)
      /\ program[Top.tpl].body \in [Blocks -> Seq(InBlock)]
      /\ Placed(program[Top.tpl].root) \subseteq program[Top.tpl].defines
      /\ \A b \in Blocks :
             Placed(program[Top.tpl].body[b]) \subseteq program[Top.tpl].defines
  BY <1>1, ProgramsAssumption
<1>3. Code = CodeIn(program, Top)
  BY DEF Code, CodeIn
<1>4. /\ Top.block = None => Code \in Seq(TopLevel)
      /\ Top.block # None => Code \in Seq(InBlock)
      /\ Placed(Code) \subseteq program[Top.tpl].defines
  BY <1>1, <1>2 DEF Code
<1>5. Len(Code) \in Nat /\ DOMAIN Code = 1..Len(Code)
  BY <1>4
<1>6. Top.at \in 1..Len(Code)
  BY <1>1, <1>3, <1>5 DEF AtEnd
<1>7. /\ Top.block = None => Stmt \in TopLevel
      /\ Top.block # None => Stmt \in InBlock
  BY <1>4, <1>6 DEF Stmt
<1>8. Stmt \in Statements
  BY <1>7 DEF TopLevel, InBlock
<1>9. Stmt.op \in Placing => Stmt.arg \in program[Top.tpl].defines
  BY <1>4, <1>5, <1>6 DEF Placed, Stmt
<1>10. /\ Stmt.op \in Placing \cup {"self"} => Stmt.arg \in Blocks
       /\ Stmt.op \in {"include", "include_alone"} \cup Extending => Stmt.arg \in Names
  BY <1>8 DEF Statements, Placing, Extending
<1>11. QED
  BY <1>3, <1>6, <1>7, <1>8, <1>9, <1>10

(* The activation behind its statement, unless that is an extends that     *)
(* the compiler knows of.                                                  *)
LEMMA MovedFits ==
    ASSUME StackInv, Running, ~AtEnd, Stmt.op # "extends"
    PROVE  /\ Moved \in Activations /\ Moved.block = Top.block
           /\ Fits(program, Moved, Ctx, Last(chains))
<1>1. /\ Top \in Activations /\ Fits(program, Top, Ctx, Last(chains))
      /\ Code = CodeIn(program, Top) /\ Top.at \in 1..Len(Code) /\ Len(Code) \in Nat
  <2>1. Len(Code) \in Nat
    <3>1. Top.at \in 1..Len(Code)
      BY AtStatement
    <3>2. Top.tpl \in Names /\ Top.block \in Blocks \cup {None} /\ program \in Programs
      BY Innermost DEF Activations
    <3>3. /\ program[Top.tpl].root \in Seq(TopLevel)
          /\ program[Top.tpl].body \in [Blocks -> Seq(InBlock)]
      BY <3>2, ProgramsAssumption
    <3>4. QED
      BY <3>2, <3>3 DEF Code
  <2>2. QED
    BY <2>1, Innermost, AtStatement
<1>2. /\ Moved \in Activations /\ Moved.at = Top.at + 1
      /\ Moved.tpl = Top.tpl /\ Moved.block = Top.block /\ Moved.extended = Top.extended
  BY <1>1 DEF Moved, Activations
<1>3. CodeIn(program, Moved) = Code
  BY <1>1, <1>2 DEF CodeIn
<1>4. ASSUME Top.block = None
      PROVE  /\ Behind(program, Moved, {"extends"}) => Behind(program, Top, {"extends"})
             /\ Behind(program, Top, Extending) => Behind(program, Moved, Extending)
  <2>1. program[Top.tpl].root[Top.at] = Stmt
    BY <1>4 DEF Stmt, Code
  <2>2. /\ Top.at \in Nat /\ Moved.at - 1 = Top.at
        /\ \A j \in 1..Top.at : j = Top.at \/ j \in 1..Top.at - 1
        /\ \A j \in 1..Top.at - 1 : j \in 1..Top.at
    BY <1>1, <1>2
  <2>3. QED
    BY <1>2, <2>1, <2>2 DEF Behind
<1>5. QED
  BY <1>1, <1>2, <1>3, <1>4 DEF Fits

(* A statement that neither calls nor extends.                             *)
LEMMA Proceeding ==
    ASSUME StackInv, Running, ~AtEnd, Stmt.op # "extends", Proceed,
           UNCHANGED <<program, contexts, chains>>
    PROVE  StackInv'
<1>1. stack' = WithLast(stack, Moved)
  BY DEF Proceed, WithLast
<1>2. contexts' = WithLast(contexts, Ctx) /\ chains' = WithLast(chains, Last(chains))
  BY Innermost, SameLast DEF StackInv, Ctx
<1>3. QED
  BY <1>1, <1>2, Innermost, MovedFits, Going

LEMMA SetStep == ASSUME StackInv, Set PROVE StackInv'
<1>1. /\ Running /\ ~AtEnd /\ Stmt.op = "set" /\ program' = program
      /\ stack' = WithLast(stack, Moved)
      /\ contexts' = WithLast(contexts, [Ctx EXCEPT !.vars = Top.tpl])
      /\ chains' = chains
  BY DEF Set, AtStmt, Proceed, WithLast
<1>2. /\ Ctx \in ContextRecords /\ Top.tpl \in Names /\ chains # <<>>
      /\ chains \in Seq(Seq(Names)) /\ Last(chains) \in Seq(Names)
      /\ Follows(program, Ctx, Last(chains))
  BY <1>1, Innermost DEF Activations, StackInv
<1> DEFINE c == [Ctx EXCEPT !.vars = Top.tpl]
<1>3. c \in ContextRecords /\ c.blocks = Ctx.blocks
  BY <1>2 DEF ContextRecords
<1>4. /\ Moved \in Activations /\ Moved.block = Top.block
      /\ Fits(program, Moved, Ctx, Last(chains))
  BY <1>1, MovedFits
<1>5. Fits(program, Moved, c, Last(chains)) /\ Follows(program, c, Last(chains))
  BY <1>2, <1>3, <1>4 DEF Fits, Follows
<1>6. chains' = WithLast(chains, Last(chains))
  BY <1>1, <1>2, SameLast
<1> HIDE DEF c
<1>7. contexts' = WithLast(contexts, c)
  BY <1>1 DEF c
<1>8. QED
  BY <1>1, <1>2, <1>3, <1>4, <1>5, <1>6, <1>7, Going

(* A function that is called starts at its first statement.                *)
LEMMA CodeLength ==
    ASSUME program \in Programs, NEW a \in Activations
    PROVE  Len(CodeIn(program, a)) \in Nat
<1>1. a.tpl \in Names /\ a.block \in Blocks \cup {None}
  BY DEF Activations
<1>2. /\ program[a.tpl].root \in Seq(TopLevel)
      /\ program[a.tpl].body \in [Blocks -> Seq(InBlock)]
  BY <1>1, ProgramsAssumption
<1>3. QED
  BY <1>1, <1>2 DEF CodeIn

LEMMA ThroughCounts ==
    ASSUME StackInv, Running, ~AtEnd
    PROVE  Top.sections \in Nat /\ Through \in Nat
<1>1. Top.sections \in Nat
  BY Innermost DEF Activations
<1>2. QED
  BY <1>1 DEF Through

LEMMA RootFits ==
    ASSUME program \in Programs, NEW n \in Names, NEW w \in Nat,
           NEW c, NEW h, n \in ToSet(h)
    PROVE  /\ Root(n, w) \in Activations /\ Root(n, w).block = None
           /\ Fits(program, Root(n, w), c, h)
<1> DEFINE a == Root(n, w)
<1>1. /\ a \in Activations /\ a.tpl = n /\ a.block = None /\ a.at = 1
      /\ a.extended = None
  BY DEF Root, Activations
<1> HIDE DEF a
<1>2. \A ops : ~Behind(program, a, ops)
  BY <1>1 DEF Behind
<1>3. a.at \in 1..1 + Len(CodeIn(program, a))
  BY <1>1, CodeLength
<1>4. QED
  BY <1>1, <1>2, <1>3 DEF Fits, a

LEMMA ActivationFits ==
    ASSUME StackInv, Running, ~AtEnd, NEW b \in Blocks, NEW l \in 1..Len(Ctx.blocks[b])
    PROVE  /\ Activation(b, l) \in Activations /\ Activation(b, l).block # None
           /\ Fits(program, Activation(b, l), Ctx, Last(chains))
<1> DEFINE a == Activation(b, l)
<1>1. /\ Ctx.blocks[b] \in Seq(Names) /\ program \in Programs /\ b # None
      /\ Follows(program, Ctx, Last(chains))
  BY Innermost, NoneAssumption DEF ContextRecords
<1>2. Ctx.blocks[b][l] \in Names /\ Ctx.blocks[b][l] \in ToSet(Ctx.blocks[b])
  BY <1>1, Elements
<1>3. Ctx.blocks[b][l] \in ToSet(Last(chains))
  BY <1>1, <1>2 DEF Follows
<1>4. /\ a \in Activations /\ a.tpl = Ctx.blocks[b][l] /\ a.block = b /\ a.at = 1
      /\ a.extended = None
  BY <1>2, ThroughCounts DEF Activation, Activations
<1> HIDE DEF a
<1>5. a.at \in 1..1 + Len(CodeIn(program, a))
  BY <1>1, <1>4, CodeLength
<1>6. QED
  BY <1>1, <1>2, <1>3, <1>4, <1>5 DEF Fits, a

(* A call of the block at place l of the list of b.                        *)
LEMMA EnterBlock ==
    ASSUME StackInv, Running, ~AtEnd, Stmt.op # "extends",
           NEW b \in Blocks, NEW l \in 1..Len(Ctx.blocks[b]),
           Enter(Activation(b, l)), UNCHANGED <<program, contexts, out, chains>>
    PROVE  StackInv'
<1>1. stack' = WithLastTwo(stack, Moved, Activation(b, l))
  BY DEF Enter, WithLastTwo
<1>2. QED
  BY <1>1, MovedFits, ActivationFits, Calling

LEMMA CallBlockStep == ASSUME StackInv, CallBlock PROVE StackInv'
<1>1. /\ Running /\ ~AtEnd /\ Stmt.op \in Placing /\ Stmt.op # "extends"
  BY DEF CallBlock, AtStmt, Placing
<1>2. CASE stack' = <<>>
  BY <1>2, Stopping DEF CallBlock, Raise, Enter
<1>3. CASE stack' # <<>>
  <2>1. /\ Enter(Activation(Stmt.arg, 1))
        /\ UNCHANGED <<program, contexts, out, chains>>
    BY <1>3 DEF CallBlock, Raise
  <2>2. Stmt.arg \in Blocks /\ Stmt.arg \in program[Top.tpl].defines
    BY <1>1, AtStatement
  <2>3. /\ Top.tpl \in ToSet(Last(chains)) /\ Follows(program, Ctx, Last(chains))
        /\ Ctx.blocks[Stmt.arg] \in Seq(Names) /\ Last(chains) \in Seq(Names)
    BY <1>1, <2>2, Innermost DEF Fits, ContextRecords
  <2>4. Top.tpl \in ToSet(Ctx.blocks[Stmt.arg])
    BY <2>2, <2>3, Elements DEF Follows
  <2>5. 1 \in 1..Len(Ctx.blocks[Stmt.arg])
    BY <2>3, <2>4, Elements
  <2>6. QED
    BY <1>1, <2>1, <2>2, <2>5, EnterBlock
<1>4. QED
  BY <1>2, <1>3

LEMMA CallPlaceStep ==
    ASSUME StackInv, Running, ~AtEnd, Stmt.op # "extends",
           NEW b \in Blocks, NEW l \in Nat \ {0}, CallPlace(b, l)
    PROVE  StackInv'
<1>1. CASE l <= Len(Ctx.blocks[b])
  <2>1. Ctx.blocks[b] \in Seq(Names)
    BY Innermost DEF ContextRecords
  <2>2. l \in 1..Len(Ctx.blocks[b])
    BY <1>1, <2>1
  <2>3. QED
    BY <1>1, <2>2, EnterBlock DEF CallPlace
<1>2. CASE ~ (l <= Len(Ctx.blocks[b]))
  BY <1>2, Stopping DEF CallPlace, Raise
<1>3. QED
  BY <1>1, <1>2

LEMMA CallSelfStep == ASSUME StackInv, CallSelf PROVE StackInv'
<1>1. Running /\ ~AtEnd /\ Stmt.op = "self" /\ CallPlace(Stmt.arg, 1)
  BY DEF CallSelf, AtStmt
<1>2. Stmt.arg \in Blocks
  BY <1>1, AtStatement
<1>3. QED
  BY <1>1, <1>2, CallPlaceStep

LEMMA SuperPlace ==
    ASSUME StackInv, CallSuper
    PROVE  /\ Running /\ ~AtEnd /\ Stmt.op # "extends"
           /\ \E b \in Blocks, l \in Nat \ {0} : CallPlace(b, l)
<1> DEFINE b == Top.block
           here == SelectInSeq(Ctx.blocks[b], LAMBDA n : n = Top.tpl)
           l == here + IF Stmt.op = "super" THEN 1 ELSE 2
<1>1. Running /\ ~AtEnd /\ Stmt.op \in {"super", "super_super"} /\ CallPlace(b, l)
  BY DEF CallSuper, AtStmt
<1>2. b \in Blocks
  BY <1>1, AtStatement, Innermost DEF TopLevel, Activations
<1>3. here \in Nat
  <2>1. Ctx.blocks[b] \in Seq(Names)
    BY <1>1, <1>2, Innermost DEF ContextRecords
  <2> DEFINE I == {i \in 1..Len(Ctx.blocks[b]) : Ctx.blocks[b][i] = Top.tpl}
  <2>2. here = IF I = {} THEN 0 ELSE Min(I)
    BY DEF SelectInSeq
  <2>3. I \in SUBSET Nat
    BY <2>1
  <2> HIDE DEF I, here
  <2>4. QED
    BY <2>2, <2>3, MinIn
<1>4. l \in Nat \ {0}
  <2> HIDE DEF here
  <2>1. QED
    BY <1>3
<1> HIDE DEF l, b
<1>5. QED
  BY <1>1, <1>2, <1>4

LEMMA CallSuperStep == ASSUME StackInv, CallSuper PROVE StackInv'
  BY SuperPlace, CallPlaceStep

LEMMA EndBlockStep == ASSUME StackInv, EndBlock PROVE StackInv'
  BY Returning DEF EndBlock

(* Behind an extends of n there is one template more in the context c.     *)
Extended(p, c, n) ==
    [c EXCEPT !.blocks = [b \in Blocks |->
        IF b \in p[n].defines THEN Append(c.blocks[b], n) ELSE c.blocks[b]]]

LEMMA FollowsExtended ==
    ASSUME NEW p, NEW c \in ContextRecords, NEW h \in Seq(Names), NEW n \in Names,
           Follows(p, c, h)
    PROVE  /\ Extended(p, c, n) \in ContextRecords
           /\ Follows(p, Extended(p, c, n), Append(h, n))
           /\ \A b \in Blocks :
                 ToSet(c.blocks[b]) \subseteq ToSet(Extended(p, c, n).blocks[b])
<1> DEFINE g == Append(h, n)
           d == Extended(p, c, n)
           D(b) == IF b \in p[n].defines THEN Append(c.blocks[b], n) ELSE c.blocks[b]
<1>1. c.blocks \in [Blocks -> Seq(Names)]
  BY DEF ContextRecords
<1>2. d \in ContextRecords /\ \A b \in Blocks : d.blocks[b] = D(b)
  <2>1. \A b \in Blocks : D(b) \in Seq(Names)
    BY <1>1
  <2>2. [b \in Blocks |-> D(b)] \in [Blocks -> Seq(Names)]
    BY <2>1
  <2>3. d = [c EXCEPT !.blocks = [b \in Blocks |-> D(b)]]
    BY DEF Extended
  <2> HIDE DEF D, d
  <2>4. d \in ContextRecords /\ d.blocks = [b \in Blocks |-> D(b)]
    BY <2>2, <2>3 DEF ContextRecords
  <2>5. QED
    BY <2>4
<1> HIDE DEF d
<1>3. /\ g \in Seq(Names) /\ Len(g) = Len(h) + 1 /\ Len(h) \in Nat
      /\ \A i \in 1..Len(h) : g[i] = h[i]
      /\ g[Len(h) + 1] = n /\ DOMAIN h = 1..Len(h) /\ DOMAIN g = 1..Len(h) + 1
  OBVIOUS
<1>4. ToSet(g) = ToSet(h) \cup {n}
  BY AppendElements
<1> HIDE DEF g
<1>5. ASSUME NEW b \in Blocks
      PROVE  /\ ToSet(c.blocks[b]) \subseteq ToSet(d.blocks[b])
             /\ ToSet(d.blocks[b]) = {m \in ToSet(g) : b \in p[m].defines}
             /\ \A i, j \in DOMAIN d.blocks[b] :
                   i < j => \E k, l \in DOMAIN g :
                               k < l /\ g[k] = d.blocks[b][i] /\ g[l] = d.blocks[b][j]
  <2> DEFINE defs == c.blocks[b]
             more == d.blocks[b]
  <2>1. /\ defs \in Seq(Names)
        /\ ToSet(defs) = {m \in ToSet(h) : b \in p[m].defines}
        /\ \A i, j \in DOMAIN defs :
              i < j => \E k, l \in DOMAIN h :
                          k < l /\ h[k] = defs[i] /\ h[l] = defs[j]
    BY <1>1 DEF Follows
  <2>2. CASE b \notin p[n].defines
    <3>1. more = defs
      BY <1>2, <2>2
    <3> HIDE DEF more, defs
    <3>2. ToSet(more) = {m \in ToSet(g) : b \in p[m].defines}
      BY <1>4, <2>1, <2>2, <3>1
    <3>3. ASSUME NEW i \in DOMAIN more, NEW j \in DOMAIN more, i < j
          PROVE  \E k, l \in DOMAIN g : k < l /\ g[k] = more[i] /\ g[l] = more[j]
      <4>1. PICK k \in DOMAIN h, l \in DOMAIN h :
                k < l /\ h[k] = defs[i] /\ h[l] = defs[j]
        BY <2>1, <3>1, <3>3
      <4>2. k \in DOMAIN g /\ l \in DOMAIN g /\ g[k] = h[k] /\ g[l] = h[l]
        BY <1>3
      <4>3. QED
        BY <3>1, <4>1, <4>2
    <3>4. QED
      BY <3>1, <3>2, <3>3 DEF more, defs
  <2>3. CASE b \in p[n].defines
    <3>1. more = Append(defs, n)
      BY <1>2, <2>3
    <3>2. /\ DOMAIN defs = 1..Len(defs) /\ Len(defs) \in Nat
          /\ ToSet(more) = ToSet(defs) \cup {n}
          /\ \A i \in 1..Len(defs) : defs[i] \in ToSet(defs)
      BY <2>1, <3>1, AppendElements, Elements, SMTT(30)
    <3>3. /\ DOMAIN more = 1..Len(defs) + 1
          /\ \A i \in 1..Len(defs) : more[i] = defs[i]
          /\ more[Len(defs) + 1] = n
      BY <2>1, <3>1
    <3> HIDE DEF more, defs
    <3>4. ToSet(more) = {m \in ToSet(g) : b \in p[m].defines}
      BY <1>4, <2>1, <2>3, <3>2
    <3>5. ASSUME NEW i \in DOMAIN more, NEW j \in DOMAIN more, i < j
          PROVE  \E k, l \in DOMAIN g : k < l /\ g[k] = more[i] /\ g[l] = more[j]
      <4>1. i \in 1..Len(defs) /\ more[i] = defs[i]
        BY <3>2, <3>3, <3>5
      <4>2. CASE j \in 1..Len(defs)
        <5>1. PICK k \in DOMAIN h, l \in DOMAIN h :
                  k < l /\ h[k] = defs[i] /\ h[l] = defs[j]
          BY <2>1, <3>2, <3>5, <4>1, <4>2
        <5>2. k \in DOMAIN g /\ l \in DOMAIN g /\ g[k] = h[k] /\ g[l] = h[l]
          BY <1>3
        <5>3. QED
          BY <3>3, <4>1, <4>2, <5>1, <5>2
      <4>3. CASE j = Len(defs) + 1
        <5>1. defs[i] \in ToSet(h)
          BY <2>1, <3>2, <4>1
        <5>2. PICK k \in 1..Len(h) : h[k] = defs[i]
          BY <5>1, Elements
        <5>3. /\ k \in DOMAIN g /\ Len(h) + 1 \in DOMAIN g /\ k < Len(h) + 1
              /\ g[k] = more[i] /\ g[Len(h) + 1] = more[j]
          BY <1>3, <3>3, <4>1, <4>3, <5>2
        <5>4. QED
          BY <5>3
      <4>4. QED
        BY <3>2, <3>3, <4>2, <4>3
    <3>6. ToSet(defs) \subseteq ToSet(more)
      BY <3>2
    <3>7. QED
      BY <3>4, <3>5, <3>6 DEF more, defs
  <2>4. QED
    BY <2>2, <2>3
<1> HIDE DEF D
<1>6. Follows(p, d, g)
  BY <1>5 DEF Follows
<1>7. QED
  BY <1>2, <1>5, <1>6 DEF g, d

LEMMA ExtendsStep == ASSUME StackInv, Extends PROVE StackInv'
<1> DEFINE n == Stmt.arg
           a == [Moved EXCEPT !.extended = n]
           c == Extended(program, Ctx, n)
           h == Append(Last(chains), n)
<1>1. /\ Running /\ ~AtEnd /\ Stmt.op \in {"extends", "extends_if"}
  BY DEF Extends, AtStmt
<1> DEFINE again == \/ KnownExtends(Top.tpl, Top.at)
                    \/ SomeExtends(Top.tpl, Top.at) /\ Top.extended # None
<1>2. CASE again
  BY <1>2, Stopping DEF Extends, Raise
<1>3. CASE ~again
  <2>1. /\ stack' = WithLast(stack, a) /\ contexts' = WithLast(contexts, c)
        /\ chains' = WithLast(chains, h) /\ program' = program
    BY <1>3 DEF Extends, WithLast, Extended
  <2> HIDE DEF again
  <2>2. /\ n \in Names /\ n # None
    BY <1>1, AtStatement, NoneAssumption DEF Extending
  <2>3. /\ Top \in Activations /\ Ctx \in ContextRecords
        /\ Last(chains) \in Seq(Names) /\ program \in Programs
        /\ Fits(program, Top, Ctx, Last(chains)) /\ Follows(program, Ctx, Last(chains))
        /\ Top.at \in 1..Len(Code) /\ Code = CodeIn(program, Top) /\ Len(Code) \in Nat
    BY <1>1, Innermost, AtStatement, CodeLength
  <2>4. /\ c \in ContextRecords /\ Follows(program, c, h)
        /\ \A b \in Blocks : ToSet(Ctx.blocks[b]) \subseteq ToSet(c.blocks[b])
    BY <2>2, <2>3, FollowsExtended
  <2>5. h \in Seq(Names) /\ ToSet(h) = ToSet(Last(chains)) \cup {n}
    BY <2>2, <2>3, AppendElements
  <2>6. /\ a \in Activations /\ a.at = Top.at + 1 /\ a.tpl = Top.tpl
        /\ a.block = Top.block /\ a.extended = n
    <3>1. /\ Moved \in Activations /\ Moved.at = Top.at + 1 /\ Moved.tpl = Top.tpl
          /\ Moved.block = Top.block
      BY <2>3 DEF Moved, Activations
    <3> HIDE DEF n
    <3>2. QED
      BY <2>2, <3>1 DEF Activations
  <2> HIDE DEF a, c, h, n
  <2>7. CodeIn(program, a) = Code
    BY <2>3, <2>6 DEF CodeIn
  <2>8. ASSUME Top.block = None PROVE Behind(program, a, Extending)
    <3>1. program[Top.tpl].root[Top.at] = Stmt
      BY <2>8 DEF Stmt, Code
    <3>2. Top.at \in 1..a.at - 1
      BY <2>3, <2>6
    <3>3. QED
      BY <1>1, <2>6, <3>1, <3>2 DEF Behind, Extending
  <2>9. Fits(program, a, c, h)
    <3>1. a.at \in 1..1 + Len(CodeIn(program, a))
      BY <2>3, <2>6, <2>7
    <3>2. /\ a.tpl \in ToSet(h) /\ a.extended \in ToSet(h)
          /\ a.block # None => a.tpl \in ToSet(c.blocks[a.block])
      BY <2>3, <2>4, <2>5, <2>6 DEF Fits, Activations
    <3>3. QED
      BY <2>2, <2>6, <2>8, <3>1, <3>2 DEF Fits
  <2>10. ToSet(Last(chains)) \subseteq ToSet(h)
    BY <2>5
  <2>11. QED
    BY <1>1, <2>1, <2>4, <2>5, <2>6, <2>9, <2>10, Going
<1>4. QED
  BY <1>2, <1>3

LEMMA IncludeEnters ==
    ASSUME StackInv, Include
    PROVE  /\ Running /\ ~AtEnd /\ Stmt.op # "extends" /\ out' = out
           /\ \E a \in Activations : Enter(a)
           /\ StackInv'
<1> DEFINE n == Stmt.arg
           alone == Stmt.op = "include_alone"
           through == IF alone /\ ~Async THEN Top.sections ELSE Through
           c == NewContext(n, IF alone THEN None ELSE Resolve(Ctx))
           b == Root(n, through)
<1>1. /\ Running /\ ~AtEnd /\ Stmt.op \in {"include", "include_alone"}
      /\ program' = program /\ contexts' = Append(contexts, c)
      /\ chains' = Append(chains, <<n>>) /\ stack' = WithLastTwo(stack, Moved, b)
      /\ Enter(b) /\ out' = out
  BY DEF Include, AtStmt, Enter, WithLastTwo
<1>2. n \in Names /\ Stmt.op # "extends"
  BY <1>1, AtStatement
<1>3. /\ Ctx \in ContextRecords /\ program \in Programs
  BY <1>1, Innermost DEF Activations
<1>4. through \in Nat
  BY <1>1, ThroughCounts
<1>5. /\ <<n>> \in Seq(Names) /\ ToSet(<<n>>) = {n} /\ DOMAIN <<n>> = {1} /\ <<n>>[1] = n
  BY <1>2 DEF ToSet
<1>6. /\ b \in Activations /\ b.block = None /\ Fits(program, b, c, <<n>>)
  <2> HIDE DEF through, n, c
  <2>1. QED
    BY <1>2, <1>3, <1>4, <1>5, RootFits
<1>7. /\ c \in ContextRecords
      /\ \A x \in Blocks :
             c.blocks[x] = IF x \in program[n].defines THEN <<n>> ELSE <<>>
  BY <1>2, <1>3 DEF NewContext, Resolve, ContextRecords
<1> HIDE DEF c, b, n
<1>8. Follows(program, c, <<n>>)
  <2>1. ASSUME NEW x \in Blocks
        PROVE  /\ ToSet(c.blocks[x]) = {m \in ToSet(<<n>>) : x \in program[m].defines}
               /\ \A i, j \in DOMAIN c.blocks[x] : ~ (i < j)
    <3>1. CASE x \in program[n].defines
      BY <1>5, <1>7, <3>1
    <3>2. CASE x \notin program[n].defines
      <4>1. c.blocks[x] = <<>> /\ ToSet(<<>>) = {} /\ DOMAIN <<>> = {}
        BY <1>7, <3>2 DEF ToSet
      <4>2. QED
        BY <1>5, <3>2, <4>1
    <3>3. QED
      BY <3>1, <3>2
  <2>2. QED
    BY <2>1 DEF Follows
<1>9. StackInv'
  BY <1>1, <1>2, <1>5, <1>6, <1>7, <1>8, MovedFits, Including
<1>10. QED
  BY <1>1, <1>2, <1>6, <1>9

LEMMA IncludeStep == ASSUME StackInv, Include PROVE StackInv'
  BY IncludeEnters

(* At the end of a root the parent is known where the code takes it to be. *)
LEMMA ParentKnown ==
    ASSUME StackInv, EndRoot
    PROVE  (HaveExtends(Top.tpl) /\ (KnownExtends(Top.tpl, Top.at) \/ Top.extended # None))
              => Top.extended # None
<1>1. Running /\ Top.block = None
  BY DEF EndRoot
<1>2. Behind(program, Top, {"extends"}) => Top.extended # None
  <2>1. Fits(program, Top, Ctx, Last(chains))
    BY <1>1, Innermost
  <2>2. QED
    BY <1>1, <2>1 DEF Fits
<1>3. QED
  BY <1>2 DEF Behind, KnownExtends, Before

LEMMA EndRootStep ==
    ASSUME StackInv, EndRoot
    PROVE  /\ StackInv' /\ out' = out
           /\ stack' = <<>> => contexts' = <<>>
<1> DEFINE w == Top.sections
           a == Root(Top.extended, w)
           up == HaveExtends(Top.tpl) /\ (KnownExtends(Top.tpl, Top.at) \/ Top.extended # None)
<1>1. Running /\ Top.block = None
  BY DEF EndRoot
<1>2. ~ (up /\ Top.extended = None)
  BY ParentKnown
<1>3. /\ stack' = IF up THEN Front(stack) \o <<a>> ELSE Front(stack)
      /\ contexts' = IF up THEN contexts ELSE Front(contexts)
      /\ chains' = IF up THEN chains ELSE Front(chains)
      /\ program' = program /\ out' = out
  BY <1>2 DEF EndRoot
<1>4. CASE up
  <2>1. /\ Top \in Activations /\ Ctx \in ContextRecords /\ program \in Programs
        /\ Last(chains) \in Seq(Names) /\ contexts # <<>> /\ chains # <<>>
        /\ Fits(program, Top, Ctx, Last(chains)) /\ Follows(program, Ctx, Last(chains))
    BY <1>1, Innermost
  <2>2. /\ Top.extended \in Names /\ Top.extended \in ToSet(Last(chains))
        /\ w \in Nat
    BY <1>2, <1>4, <2>1 DEF Activations, Fits
  <2>3. /\ a \in Activations /\ a.block = None /\ Fits(program, a, Ctx, Last(chains))
    <3> DEFINE e == Top.extended
    <3>1. e \in Names /\ e \in ToSet(Last(chains)) /\ a = Root(e, w)
      BY <2>2
    <3>2. w \in Nat
      BY <2>2
    <3> HIDE DEF w, e, a
    <3>3. /\ Root(e, w) \in Activations /\ Root(e, w).block = None
          /\ Fits(program, Root(e, w), Ctx, Last(chains))
      BY <2>1, <3>1, <3>2, RootFits
    <3>4. QED
      BY <3>1, <3>3
  <2>4. /\ contexts' = WithLast(contexts, Ctx) /\ chains' = WithLast(chains, Last(chains))
    BY <1>3, <1>4, <2>1, SameLast DEF StackInv, Ctx
  <2>5. stack' = WithLast(stack, a) /\ stack' # <<>>
    <3>1. stack' = WithLast(stack, a)
      BY <1>3, <1>4 DEF WithLast
    <3> HIDE DEF a
    <3>2. Replaced(stack', Activations, stack, a) /\ Len(stack) \in Nat \ {0}
      BY <1>1, <2>3, <3>1, ReplaceLast, Innermost DEF StackInv, Running
    <3>3. QED
      BY <3>1, <3>2 DEF Replaced
  <2> HIDE DEF a, up
  <2>6. QED
    BY <1>1, <1>3, <2>1, <2>3, <2>4, <2>5, Going
<1>5. CASE ~up
  BY <1>1, <1>3, <1>5, Leaving
<1>6. QED
  BY <1>4, <1>5

-----------------------------------------------------------------------------
(* The steps as a whole                                                    *)

LEMMA StackInit == Init => StackInv
<1> SUFFICES ASSUME Init PROVE StackInv
  OBVIOUS
<1> DEFINE a == Root(Start, 0)
           c == NewContext(Start, None)
           h == <<Start>>
<1>1. /\ program \in Programs /\ contexts = <<c>> /\ stack = <<a>> /\ chains = <<h>>
  BY DEF Init
<1>2. h \in Seq(Names) /\ ToSet(h) = {Start} /\ DOMAIN h = {1} /\ h[1] = Start
  BY StartAssumption DEF ToSet
<1>3. /\ c \in ContextRecords
      /\ \A b \in Blocks :
             c.blocks[b] = IF b \in program[Start].defines THEN <<Start>> ELSE <<>>
  BY StartAssumption DEF NewContext, ContextRecords
<1>4. a \in Activations /\ a.block = None /\ Fits(program, a, c, h)
  <2>1. Start \in ToSet(h) /\ program \in Programs
    BY <1>1, <1>2
  <2> HIDE DEF a, c, h
  <2>2. /\ Root(Start, 0) \in Activations /\ Root(Start, 0).block = None
        /\ Fits(program, Root(Start, 0), c, h)
    BY <2>1, RootFits, StartAssumption
  <2>3. QED
    BY <2>2 DEF a
<1>5. Follows(program, c, h)
  <2> HIDE DEF c
  <2>1. ASSUME NEW b \in Blocks
        PROVE  /\ ToSet(c.blocks[b]) = {n \in ToSet(h) : b \in program[n].defines}
               /\ \A i, j \in DOMAIN c.blocks[b] : ~ (i < j)
    <3>1. CASE b \in program[Start].defines
      BY <1>2, <1>3, <3>1
    <3>2. CASE b \notin program[Start].defines
      <4>1. c.blocks[b] = <<>> /\ ToSet(<<>>) = {} /\ DOMAIN <<>> = {}
        BY <1>3, <3>2 DEF ToSet
      <4>2. QED
        BY <1>2, <3>2, <4>1
    <3>3. QED
      BY <3>1, <3>2
  <2>2. QED
    BY <2>1 DEF Follows
<1> HIDE DEF a, c, h
<1>6. /\ stack \in Seq(Activations) /\ Len(stack) = 1 /\ stack[1] = a
      /\ contexts \in Seq(ContextRecords) /\ Len(contexts) = 1 /\ contexts[1] = c
      /\ chains \in Seq(Seq(Names)) /\ Len(chains) = 1 /\ chains[1] = h
  BY <1>1, <1>2, <1>3, <1>4
<1>7. Depth(stack, 1) = 1
  <2>1. {j \in 1..1 : stack[j].block = None} = {1}
    BY <1>4, <1>6
  <2>2. QED
    BY <2>1, FS_Singleton DEF Depth
<1>8. 1..1 = {1}
  OBVIOUS
<1>9. QED
  BY <1>1, <1>4, <1>5, <1>6, <1>7, <1>8 DEF StackInv

LEMMA StackNext == StackInv /\ [Next]_vars => StackInv'
<1> SUFFICES ASSUME StackInv, [Next]_vars PROVE StackInv'
  OBVIOUS
<1>1. CASE Skip
  <2>1. Running /\ ~AtEnd /\ Stmt.op # "extends"
    BY <1>1 DEF Skip, AtStmt
  <2>2. QED
    BY <1>1, <2>1, Proceeding DEF Skip
<1>2. CASE Text
  <2>1. Running /\ ~AtEnd /\ Stmt.op # "extends"
    BY <1>2 DEF Text, AtStmt
  <2>2. QED
    BY <1>2, <2>1, Proceeding DEF Text
<1>3. CASE UNCHANGED vars
  BY <1>3 DEF vars, StackInv
<1>4. QED
  BY <1>1, <1>2, <1>3, SetStep, CallBlockStep, CallSelfStep, CallSuperStep,
     EndBlockStep, ExtendsStep, IncludeStep, EndRootStep DEF Next

LEMMA OutInit == Init => OutInv
<1> SUFFICES ASSUME Init PROVE OutInv
  OBVIOUS
<1>1. out = <<>> /\ stack # <<>>
  BY DEF Init
<1>2. QED
  BY <1>1 DEF OutInv, Failed

(* A step that writes nothing and does not end the render.                 *)
LEMMA OutSame ==
    ASSUME OutInv, Running, out' = out, stack' = <<>> => contexts' = <<>>
    PROVE  OutInv'
  BY DEF OutInv, Running, Failed

(* A step that raises, anything but an AttributeError.                     *)
LEMMA OutRaised ==
    ASSUME StackInv, Running, NEW what \in Errors \ {"AttributeError"}, Raise(what)
    PROVE  OutInv'
<1> DEFINE item == [what |-> what, tpl |-> Top.tpl, block |-> Top.block,
                    value |-> None, sections |-> 0]
<1>1. item \in Items
  BY Innermost DEF Activations, Items
<1>2. item.what = what
  OBVIOUS
<1> HIDE DEF item
<1>3. out' = <<item>> /\ stack' = <<>>
  BY DEF Raise, item
<1>4. /\ out' \in Seq(Items) /\ Len(out') = 1 /\ out'[1] = item /\ Last(out') = item
  BY <1>1, <1>3 DEF Last
<1>5. Failed'
  BY <1>2, <1>3, <1>4 DEF Failed
<1>6. QED
  BY <1>2, <1>3, <1>4, <1>5 DEF OutInv

LEMMA GoingOn ==
    ASSUME StackInv, Running, NEW a \in Activations, NEW b \in Activations
    PROVE  WithLast(stack, a) # <<>> /\ WithLastTwo(stack, a, b) # <<>>
<1>1. stack \in Seq(Activations) /\ stack # <<>> /\ Len(stack) \in Nat \ {0}
  BY Innermost DEF StackInv, Running
<1>2. /\ Replaced(WithLast(stack, a), Activations, stack, a)
      /\ ReplacedByTwo(WithLastTwo(stack, a, b), Activations, stack, a, b)
  BY <1>1, ReplaceLast, ReplaceLastAndPush
<1> DEFINE r == WithLast(stack, a)
           q == WithLastTwo(stack, a, b)
<1>3. Len(r) # 0 /\ Len(q) # 0
  BY <1>1, <1>2 DEF Replaced, ReplacedByTwo
<1> HIDE DEF r, q
<1>4. r # <<>> /\ q # <<>>
  BY <1>3
<1>5. QED
  BY <1>4 DEF r, q

(* Entering an activation is no end; raising writes the error.             *)
LEMMA EnterOut ==
    ASSUME StackInv, OutInv, Running, ~AtEnd, Stmt.op # "extends",
           NEW a \in Activations, Enter(a), out' = out
    PROVE  OutInv'
<1>1. stack' = WithLastTwo(stack, Moved, a)
  BY DEF Enter, WithLastTwo
<1>2. stack' # <<>>
  BY <1>1, MovedFits, GoingOn
<1>3. QED
  BY <1>2, OutSame

LEMMA ProceedOut ==
    ASSUME StackInv, OutInv, Running, ~AtEnd, Stmt.op # "extends", Proceed, out' = out
    PROVE  OutInv'
<1>1. stack' = WithLast(stack, Moved)
  BY DEF Proceed, WithLast
<1>2. stack' # <<>>
  BY <1>1, MovedFits, GoingOn
<1>3. QED
  BY <1>2, OutSame

LEMMA PlaceOut ==
    ASSUME StackInv, OutInv, Running, ~AtEnd, Stmt.op # "extends",
           NEW b \in Blocks, NEW l \in Nat \ {0}, CallPlace(b, l)
    PROVE  OutInv'
<1>1. CASE l <= Len(Ctx.blocks[b])
  <2>1. Ctx.blocks[b] \in Seq(Names)
    BY Innermost DEF ContextRecords
  <2>2. l \in 1..Len(Ctx.blocks[b])
    BY <1>1, <2>1
  <2>3. QED
    BY <1>1, <2>2, ActivationFits, EnterOut DEF CallPlace
<1>2. CASE ~ (l <= Len(Ctx.blocks[b]))
  <2>1. Raise("undefined")
    BY <1>2 DEF CallPlace
  <2>2. QED
    BY <2>1, OutRaised DEF Errors
<1>3. QED
  BY <1>1, <1>2

LEMMA TextOut ==
    ASSUME StackInv, OutInv, Text
    PROVE  OutInv'
<1> DEFINE item == Item(Stmt.op, IF Stmt.op = "value" THEN Resolve(Ctx) ELSE None)
<1>1. /\ Running /\ ~AtEnd /\ Stmt.op \in Kinds /\ Stmt.op # "extends"
      /\ Proceed /\ out' = Append(out, item)
  BY DEF Text, AtStmt, Kinds
<1>2. /\ Top.tpl \in Names /\ Top.block \in Blocks \cup {None}
      /\ Ctx.vars \in Names \cup {None} /\ Ctx.parent \in Names \cup {None}
  BY <1>1, Innermost DEF Activations, ContextRecords
<1>3. Through \in Nat
  BY <1>1, ThroughCounts
<1>4. item \in Items /\ item.what \in Kinds
  BY <1>1, <1>2, <1>3 DEF Item, Items, Resolve
<1> HIDE DEF item
<1>5. /\ out \in Seq(Items) /\ Len(out) \in Nat
      /\ \A i \in 1..Len(out) : out[i].what # "AttributeError"
  BY DEF OutInv
<1>6. /\ out' \in Seq(Items) /\ Len(out') = Len(out) + 1
      /\ \A i \in 1..Len(out) : out'[i] = out[i]
      /\ out'[Len(out) + 1] = item /\ Last(out') = item
  BY <1>1, <1>4, <1>5 DEF Last
<1>7. ~Failed'
  BY <1>4, <1>6 DEF Failed, Kinds, Errors
<1>8. stack' # <<>>
  <2>1. stack' = WithLast(stack, Moved)
    BY <1>1 DEF Proceed, WithLast
  <2>2. QED
    BY <1>1, <2>1, MovedFits, GoingOn
<1>9. ASSUME NEW i \in 1..Len(out')
      PROVE  out'[i].what # "AttributeError"
  <2>1. i \in 1..Len(out) \/ i = Len(out) + 1
    BY <1>5, <1>6
  <2>2. CASE i \in 1..Len(out)
    BY <1>5, <1>6, <2>2
  <2>3. CASE i = Len(out) + 1
    BY <1>3, <1>4, <1>6, <2>3 DEF Kinds
  <2>4. QED
    BY <2>1, <2>2, <2>3
<1>10. QED
  BY <1>6, <1>7, <1>8, <1>9 DEF OutInv

LEMMA OutNext == StackInv /\ OutInv /\ [Next]_vars => OutInv'
<1> SUFFICES ASSUME StackInv, OutInv, [Next]_vars PROVE OutInv'
  OBVIOUS
<1>1. CASE Skip
  <2>1. Running /\ ~AtEnd /\ Stmt.op # "extends"
    BY <1>1 DEF Skip, AtStmt
  <2>2. QED
    BY <1>1, <2>1, ProceedOut DEF Skip
<1>2. CASE Text
  BY <1>2, TextOut
<1>3. CASE Set
  <2>1. Running /\ ~AtEnd /\ Stmt.op # "extends"
    BY <1>3 DEF Set, AtStmt
  <2>2. QED
    BY <1>3, <2>1, ProceedOut DEF Set
<1>4. CASE CallBlock
  <2>1. Running /\ ~AtEnd /\ Stmt.op \in Placing /\ Stmt.op # "extends"
    BY <1>4 DEF CallBlock, AtStmt, Placing
  <2>2. CASE Raise("required block not found")
    BY <2>1, <2>2, OutRaised DEF Errors
  <2>3. CASE Enter(Activation(Stmt.arg, 1)) /\ out' = out
    <3>1. Stmt.arg \in Blocks /\ Stmt.arg \in program[Top.tpl].defines
      BY <2>1, AtStatement
    <3>2. /\ Top.tpl \in ToSet(Last(chains)) /\ Follows(program, Ctx, Last(chains))
          /\ Ctx.blocks[Stmt.arg] \in Seq(Names)
      BY <2>1, <3>1, Innermost DEF Fits, ContextRecords
    <3>3. Top.tpl \in ToSet(Ctx.blocks[Stmt.arg])
      BY <3>1, <3>2 DEF Follows
    <3>4. 1 \in 1..Len(Ctx.blocks[Stmt.arg])
      BY <3>2, <3>3, Elements
    <3>5. QED
      BY <2>1, <2>3, <3>1, <3>4, ActivationFits, EnterOut
  <2>4. QED
    BY <1>4, <2>2, <2>3 DEF CallBlock
<1>5. CASE CallSelf
  <2>1. Running /\ ~AtEnd /\ Stmt.op = "self" /\ CallPlace(Stmt.arg, 1)
    BY <1>5 DEF CallSelf, AtStmt
  <2>2. QED
    BY <2>1, AtStatement, PlaceOut
<1>6. CASE CallSuper
  <2>1. /\ Running /\ ~AtEnd /\ Stmt.op # "extends"
        /\ \E b \in Blocks, l \in Nat \ {0} : CallPlace(b, l)
    BY <1>6, SuperPlace
  <2>2. QED
    BY <2>1, PlaceOut
<1>7. CASE EndBlock
  <2>1. Running /\ Top.block # None /\ stack' = Front(stack) /\ out' = out
    BY <1>7 DEF EndBlock
  <2>2. stack' # <<>>
    BY <2>1, Popped
  <2>3. QED
    BY <2>1, <2>2, OutSame
<1>8. CASE Extends
  <2>1. Running /\ ~AtEnd /\ Stmt.op \in {"extends", "extends_if"}
    BY <1>8 DEF Extends, AtStmt
  <2>2. CASE Raise("extended multiple times")
    BY <2>1, <2>2, OutRaised DEF Errors
  <2>3. CASE ~Raise("extended multiple times")
    <3> DEFINE a == [Moved EXCEPT !.extended = Stmt.arg]
    <3>1. stack' = WithLast(stack, a) /\ out' = out
      BY <1>8, <2>3 DEF Extends, WithLast
    <3>2. a \in Activations
      <4> DEFINE p == Stmt.arg
      <4>1. p \in Names /\ Top \in Activations
        BY <2>1, AtStatement, Innermost DEF Extending
      <4> HIDE DEF p
      <4>2. Moved \in Activations
        BY <4>1 DEF Moved, Activations
      <4>3. [Moved EXCEPT !.extended = p] \in Activations
        BY <4>1, <4>2 DEF Activations
      <4>4. QED
        BY <4>3 DEF p
    <3> HIDE DEF a
    <3>3. QED
      BY <2>1, <3>1, <3>2, GoingOn, OutSame
  <2>4. QED
    BY <2>2, <2>3
<1>9. CASE Include
  <2>1. /\ Running /\ ~AtEnd /\ Stmt.op # "extends" /\ out' = out
        /\ \E a \in Activations : Enter(a)
    BY <1>9, IncludeEnters
  <2>2. QED
    BY <2>1, EnterOut
<1>10. CASE EndRoot
  <2>1. Running
    BY <1>10 DEF EndRoot
  <2>2. QED
    BY <1>10, <2>1, EndRootStep, OutSame
<1>11. CASE UNCHANGED vars
  BY <1>11 DEF vars, OutInv, Failed
<1>12. QED
  BY <1>1, <1>2, <1>3, <1>4, <1>5, <1>6, <1>7, <1>8, <1>9, <1>10, <1>11 DEF Next

LEMMA Invariants == Spec => [](StackInv /\ OutInv)
  BY StackInit, StackNext, OutInit, OutNext, PTL DEF Spec

-----------------------------------------------------------------------------
(* What the invariant implies                                              *)

(* Every context in use belongs to one root, and the activations above a   *)
(* root to its blocks.                                                     *)
THEOREM TypeCorrect == Spec => []TypeOK
<1>1. ASSUME StackInv, OutInv PROVE TypeOK
  <2>1. ASSUME NEW i \in DOMAIN contexts
        PROVE  /\ contexts[i].blocks \in [Blocks -> Seq(Names)]
               /\ {contexts[i].vars, contexts[i].parent} \subseteq Names \cup {None}
    <3>1. contexts[i] \in ContextRecords
      BY <1>1 DEF StackInv
    <3>2. QED
      BY <3>1 DEF ContextRecords
  <2>2. ASSUME NEW i \in DOMAIN stack
        PROVE  /\ stack[i].tpl \in Names
               /\ stack[i].block \in Blocks \cup {None}
               /\ stack[i].extended \in Names \cup {None}
               /\ stack[i].sections \in Nat
               /\ stack[i].block = None =>
                     stack[i].at \in 1..(1 + Len(program[stack[i].tpl].root))
    <3>1. stack[i] \in Activations /\ i \in 1..Len(stack)
      BY <1>1 DEF StackInv
    <3>2. stack[i].at \in 1..(1 + Len(CodeIn(program, stack[i])))
      BY <1>1, <3>1 DEF StackInv, Fits
    <3>3. QED
      BY <3>1, <3>2 DEF Activations, CodeIn
  <2>3. ASSUME ~Failed
        PROVE  Len(contexts) = Cardinality({i \in DOMAIN stack : stack[i].block = None})
    <3>1. DOMAIN stack = 1..Len(stack)
      BY <1>1 DEF StackInv
    <3>2. CASE stack # <<>>
      BY <1>1, <3>1, <3>2 DEF StackInv, Depth
    <3>3. CASE stack = <<>>
      <4>1. contexts = <<>> /\ {i \in DOMAIN stack : stack[i].block = None} = {}
        BY <1>1, <2>3, <3>3 DEF OutInv
      <4>2. Len(contexts) = 0
        BY <4>1
      <4>3. QED
        BY <4>1, <4>2, FS_EmptySet
    <3>4. QED
      BY <3>2, <3>3
  <2>4. Len(chains) = Len(contexts)
    BY <1>1 DEF StackInv
  <2>5. QED
    BY <2>1, <2>2, <2>3, <2>4 DEF TypeOK
<1>2. QED
  BY <1>1, Invariants, PTL

(* Where the compiler leaves out a test of parent_template, it is right.   *)
THEOREM CompilerKnowsExtends == Spec => []ExtendsKnownRight
<1>1. ASSUME StackInv PROVE ExtendsKnownRight
  <2>1. ASSUME NEW i \in DOMAIN stack, stack[i].block = None
        PROVE  /\ KnownExtends(stack[i].tpl, stack[i].at) => stack[i].extended # None
               /\ stack[i].extended # None => SomeExtends(stack[i].tpl, stack[i].at)
    <3>1. i \in 1..Len(stack)
      BY <1>1 DEF StackInv
    <3>2. /\ Behind(program, stack[i], {"extends"}) => stack[i].extended # None
          /\ stack[i].extended # None => Behind(program, stack[i], Extending)
      BY <1>1, <2>1, <3>1 DEF StackInv, Fits
    <3>3. QED
      BY <3>2 DEF Behind, KnownExtends, SomeExtends, Before
  <2>2. QED
    BY <2>1 DEF ExtendsKnownRight
<1>2. QED
  BY <1>1, Invariants, PTL

(* The lists of blocks of every context follow its chain of templates.     *)
THEOREM ListsFollowChain == Spec => []BlocksFollowChain
<1>1. ASSUME StackInv PROVE BlocksFollowChain
  <2>1. \A c \in DOMAIN contexts : Follows(program, contexts[c], chains[c])
    BY <1>1 DEF StackInv
  <2>2. QED
    BY <2>1 DEF BlocksFollowChain, Follows
<1>2. QED
  BY <1>1, Invariants, PTL

(* root_render_func is never taken from a parent_template that is None: a  *)
(* render raises no AttributeError.                                        *)
THEOREM ParentLoaded ==
    Spec => [](\A i \in DOMAIN out : out[i].what # "AttributeError")
<1>1. OutInv => \A i \in DOMAIN out : out[i].what # "AttributeError"
  <2>1. OutInv => DOMAIN out = 1..Len(out)
    BY DEF OutInv
  <2>2. QED
    BY <2>1 DEF OutInv
<1>2. QED
  BY <1>1, Invariants, PTL

(* A running block is in the list of its own context, the one of the       *)
(* innermost root below it.                                                *)
SuperFinds ==
    \A i \in DOMAIN stack : stack[i].block # None =>
        stack[i].tpl \in ToSet(contexts[Depth(stack, i)].blocks[stack[i].block])

(* Context.super finds the block that calls it: the LookupError it catches *)
(* only ever comes from a list that ends there.                            *)
THEOREM SuperFindsItself == Spec => []SuperFinds
<1>1. ASSUME StackInv PROVE SuperFinds
  <2>1. ASSUME NEW i \in DOMAIN stack, stack[i].block # None
        PROVE  stack[i].tpl \in
                   ToSet(contexts[Depth(stack, i)].blocks[stack[i].block])
    <3>1. i \in 1..Len(stack)
      BY <1>1 DEF StackInv
    <3>2. Fits(program, stack[i], contexts[Depth(stack, i)], chains[Depth(stack, i)])
      BY <1>1, <3>1 DEF StackInv
    <3>3. QED
      BY <2>1, <3>2 DEF Fits
  <2>2. QED
    BY <2>1 DEF SuperFinds
<1>2. QED
  BY <1>1, Invariants, PTL
=============================================================================
