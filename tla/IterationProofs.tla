--------------------------- MODULE IterationProofs ---------------------------
(* LoopContext keeps its place in the sequence, of whatever length, and    *)
(* the loop it drives implements module Loop, whatever the template asks,  *)
(* in any order.                                                           *)
EXTENDS LoopContext, TLAPS

(* The head and the tail of a sequence by their indices.                   *)
LEMMA HeadTail ==
    ASSUME NEW S, NEW s \in Seq(S), s # <<>>
    PROVE  /\ Head(s) \in S
           /\ Head(s) = s[1]
           /\ Tail(s) \in Seq(S)
           /\ Len(s) \in Nat \ {0}
           /\ Len(Tail(s)) = Len(s) - 1
           /\ \A i \in 1..Len(Tail(s)) : Tail(s)[i] = s[i + 1]
  OBVIOUS

LEMMA EmptyLength ==
    ASSUME NEW S, NEW s \in Seq(S)
    PROVE  Len(s) \in Nat /\ (Len(s) = 0 <=> s = <<>>)
  OBVIOUS

LEMMA IndInit == Init => IndInv
<1> SUFFICES ASSUME Init PROVE IndInv
  OBVIOUS
<1> USE MissingAssumption
<1>1. Len(seq) \in Nat
  BY EmptyLength DEF Init
<1>2. TypeOK
  <2>1. completed \in BOOLEAN
    BY Zenon DEF Init
  <2> QED
    BY <1>1, <2>1 DEF Init, TypeOK
<1>3. NothingLost
  BY <1>1 DEF Init, NothingLost, index, Drawn
<1>4. Remembered /\ Untouched
  BY DEF Init, Remembered, Untouched
<1>5. Indicated
  BY DEF Init, Indicated
<1> QED
  BY <1>2, <1>3, <1>4, <1>5 DEF IndInv

(* The indicator and the else part: the bodies that ran to their end.      *)
LEMMA IndicatedSound ==
    ASSUME IndInv, [Next]_vars
    PROVE  Indicated'
<1>1. TypeOK /\ Untouched /\ Indicated
  BY DEF IndInv
<1>2. index0 \in Int /\ index0 >= -1 /\ (phase = "body" => index0 >= 0)
  BY <1>1 DEF TypeOK, Untouched
<1>3. CASE Advance
  <2>1. /\ index0' = index0 + 1 /\ phase' = "body"
        /\ UNCHANGED <<indicator, completed>>
    BY <1>3 DEF Advance
  <2>2. completed => index0' >= 0
    BY <1>1, <1>2, <2>1 DEF Indicated
  <2> QED
    BY <1>1, <2>1, <2>2 DEF Indicated
<1>4. CASE Stop \/ Continue \/ Break \/ EndElse
  <2>1. UNCHANGED <<index0, indicator, completed>>
    BY <1>4 DEF Stop, Continue, Break, EndElse, context
  <2>2. phase' = "else" => indicator = 1
    BY <1>4 DEF Stop, Continue, Break, EndElse, BehindLoop
  <2>3. phase' = "else" => ~completed
    BY <1>1, <2>2 DEF Indicated
  <2> QED
    BY <1>1, <2>1, <2>3 DEF Indicated
<1>5. CASE EndBody
  <2>1. /\ index0' = index0 /\ indicator' = 0 /\ completed' = TRUE
        /\ phase' = "next" /\ phase = "body"
    BY <1>5 DEF EndBody, context
  <2> QED
    BY <1>2, <2>1 DEF Indicated
<1>6. CASE \/ AskPlain \/ AskLength \/ AskAhead
           \/ (\E v \in Items : AskChanged(v)) \/ UNCHANGED vars
  <2>1. UNCHANGED <<index0, indicator, completed, phase>>
    BY <1>6 DEF AskPlain, AskLength, AskAhead, AskChanged, Reply, context,
                vars
  <2> QED
    BY <1>1, <2>1 DEF Indicated
<1> QED
  BY <1>3, <1>4, <1>5, <1>6 DEF Next

(* Drawing early: the head of the iterator moves into _after.              *)
LEMMA AheadSound ==
    ASSUME IndInv, AskAhead
    PROVE  IndInv'
<1> USE MissingAssumption
<1>0. Indicated'
  BY IndicatedSound DEF Next
<1>1. TypeOK /\ NothingLost /\ Remembered /\ Untouched
  BY DEF IndInv
<1>2. InReach /\ UNCHANGED <<seq, sized, phase, indicator, completed, index0,
                             _length, _current, _before, _last_changed_value>>
  BY DEF AskAhead, Reply
<1>3. Untouched' /\ Remembered'
  <2>1. index0 >= 0 /\ index0 \in Int
    BY <1>1, <1>2 DEF InReach, TypeOK
  <2> QED
    BY <1>1, <1>2, <2>1 DEF Untouched, Remembered, index
<1>4. CASE _after # Missing \/ iterator = <<>>
  <2>1. UNCHANGED <<_after, iterator>>
    BY <1>4 DEF AskAhead, Peeked
  <2>2. TypeOK' /\ NothingLost'
    BY <1>1, <1>2, <2>1 DEF TypeOK, NothingLost, index, Drawn
  <2> QED
    BY <1>0, <1>3, <2>2 DEF IndInv
<1>5. CASE _after = Missing /\ iterator # <<>>
  <2>1. _after' = Head(iterator) /\ iterator' = Tail(iterator)
    BY <1>5 DEF AskAhead, Peeked
  <2>2. iterator \in Seq(Items) /\ index0 \in Int /\ Len(seq) \in Nat
    BY <1>1, EmptyLength DEF TypeOK
  <2>3. /\ Head(iterator) \in Items
        /\ Head(iterator) = iterator[1]
        /\ Tail(iterator) \in Seq(Items)
        /\ Len(iterator) \in Nat \ {0}
        /\ Len(Tail(iterator)) = Len(iterator) - 1
        /\ \A i \in 1..Len(Tail(iterator)) : Tail(iterator)[i] = iterator[i + 1]
    BY <1>5, <2>2, HeadTail
  <2>4. TypeOK'
    BY <1>1, <1>2, <2>1, <2>3 DEF TypeOK
  <2>5. Drawn = 0 /\ Drawn' = 1
    BY <1>5, <2>1, <2>3 DEF Drawn
  <2>6. NothingLost'
    <3>1. Len(seq) = index0 + 1 + Len(iterator)
      BY <1>1, <2>2, <2>3, <2>5 DEF NothingLost, index
    <3>2. \A i \in 1..Len(iterator) : iterator[i] = seq[index0 + 1 + i]
      BY <1>1, <2>2, <2>3, <2>5 DEF NothingLost, index
    <3>3. Len(seq') = index' + Drawn' + Len(iterator')
      BY <3>1, <1>2, <2>1, <2>2, <2>3, <2>5 DEF index
    <3>4. ASSUME NEW i \in 1..Len(iterator')
          PROVE  iterator'[i] = seq'[index' + Drawn' + i]
      <4>1. i + 1 \in 1..Len(iterator) /\ iterator'[i] = iterator[i + 1]
        BY <3>4, <2>1, <2>3
      <4>2. index0 + 1 + (i + 1) = index' + Drawn' + i
        BY <1>2, <2>2, <2>5, <3>4 DEF index
      <4> QED
        BY <3>2, <4>1, <4>2, <1>2
    <3>5. _after' = seq'[index' + 1]
      <4>1. 1 \in 1..Len(iterator)
        BY <2>3
      <4>2. index0 + 1 + 1 = index' + 1
        BY <1>2 DEF index
      <4> QED
        BY <3>2, <4>1, <4>2, <2>1, <2>3, <1>2
    <3> QED
      BY <3>3, <3>4, <3>5 DEF NothingLost
  <2> QED
    BY <1>0, <1>3, <2>4, <2>6 DEF IndInv
<1> QED
  BY <1>4, <1>5

(* Handing out the next item, drawn early or not, moves on by one.         *)
LEMMA AdvanceSound ==
    ASSUME IndInv, Advance
    PROVE  /\ IndInv'
           /\ index0 + 1 < Len(seq)
           /\ _current' = seq[index0 + 2]
<1> USE MissingAssumption
<1>0. Indicated'
  BY IndicatedSound DEF Next
<1>1. TypeOK /\ NothingLost /\ Remembered /\ Untouched
  BY DEF IndInv
<1>2. /\ phase' = "body" /\ index0' = index0 + 1 /\ _before' = _current
      /\ UNCHANGED <<seq, sized, _length, _last_changed_value, indicator,
                     completed>>
  BY DEF Advance
<1>3. /\ iterator \in Seq(Items) /\ index0 \in Int /\ index0 >= -1
      /\ Len(seq) \in Nat /\ Len(iterator) \in Nat
  BY <1>1, EmptyLength DEF TypeOK
<1>4. /\ _after' = Missing /\ Drawn' = 0
      /\ iterator' \in Seq(Items)
      /\ _current' \in Items
      /\ _current' = seq[index0 + 2]
      /\ Len(iterator') \in Nat
      /\ Len(seq) = index0 + 2 + Len(iterator')
      /\ \A i \in 1..Len(iterator') : iterator'[i] = seq[index0 + 2 + i]
  <2>1. CASE _after # Missing
    <3>1. _current' = _after /\ _after' = Missing /\ iterator' = iterator
      BY <2>1 DEF Advance
    <3>2. Drawn = 1 /\ Drawn' = 0 /\ _after \in Items
      BY <2>1, <3>1, <1>1 DEF Drawn, TypeOK
    <3>3. index + 1 = index0 + 2
      BY <1>3 DEF index
    <3>4. \A i \in 1..Len(iterator) : iterator[i] = seq[index0 + 2 + i]
      BY <1>1, <1>3, <3>2, <3>3 DEF NothingLost
    <3>5. Len(seq) = index0 + 2 + Len(iterator) /\ _after = seq[index0 + 2]
      BY <1>1, <1>3, <2>1, <3>2, <3>3 DEF NothingLost
    <3> QED
      BY <1>3, <3>1, <3>2, <3>4, <3>5
  <2>2. CASE _after = Missing
    <3>1. /\ iterator # <<>> /\ _current' = Head(iterator)
          /\ iterator' = Tail(iterator) /\ _after' = Missing
      BY <2>2 DEF Advance
    <3>2. Drawn = 0 /\ Drawn' = 0
      BY <2>2, <3>1 DEF Drawn
    <3>3. /\ Head(iterator) \in Items
          /\ Head(iterator) = iterator[1]
          /\ Tail(iterator) \in Seq(Items)
          /\ Len(iterator) \in Nat \ {0}
          /\ Len(Tail(iterator)) = Len(iterator) - 1
          /\ \A i \in 1..Len(Tail(iterator)) :
                Tail(iterator)[i] = iterator[i + 1]
      BY <1>3, <3>1, HeadTail
    <3>4. \A i \in 1..Len(iterator) : iterator[i] = seq[index0 + 1 + i]
      BY <1>1, <1>3, <3>2 DEF NothingLost, index
    <3>5. Len(seq) = index0 + 1 + Len(iterator)
      BY <1>1, <1>3, <3>2 DEF NothingLost, index
    <3>6. _current' = seq[index0 + 2]
      <4>1. 1 \in 1..Len(iterator) /\ index0 + 1 + 1 = index0 + 2
        BY <3>3, <1>3
      <4> QED
        BY <3>1, <3>3, <3>4, <4>1
    <3>7. ASSUME NEW i \in 1..Len(iterator')
          PROVE  iterator'[i] = seq[index0 + 2 + i]
      <4>1. i + 1 \in 1..Len(iterator) /\ iterator'[i] = iterator[i + 1]
        BY <3>1, <3>3, <3>7
      <4>2. index0 + 1 + (i + 1) = index0 + 2 + i
        BY <1>3, <3>7
      <4> QED
        BY <3>4, <4>1, <4>2
    <3> QED
      BY <1>3, <3>1, <3>2, <3>3, <3>5, <3>6, <3>7
  <2> QED
    BY <2>1, <2>2
<1>5. index0 + 1 < Len(seq)
  BY <1>3, <1>4
<1>6. TypeOK'
  <2>1. index0' \in -1..(Len(seq') - 1)
    BY <1>2, <1>3, <1>5
  <2> QED
    BY <1>1, <1>2, <1>4, <2>1 DEF TypeOK
<1>7. NothingLost'
  <2>1. index' + Drawn' = index0 + 2
    BY <1>2, <1>3, <1>4 DEF index
  <2> QED
    BY <1>2, <1>4, <2>1 DEF NothingLost
<1>8. Remembered'
  <2>1. index' = index0 + 2 /\ index0' >= 0
    BY <1>2, <1>3 DEF index
  <2>2. _current' = IF index0' >= 0 THEN seq'[index'] ELSE Missing
    BY <1>2, <1>4, <2>1
  <2>3. _before' = IF index0' >= 1 THEN seq'[index0'] ELSE Missing
    BY <1>1, <1>2, <1>3 DEF Remembered, index
  <2> QED
    BY <1>1, <1>2, <2>2, <2>3 DEF Remembered
<1>9. Untouched'
  BY <1>2, <1>3 DEF Untouched
<1> QED
  BY <1>0, <1>4, <1>5, <1>6, <1>7, <1>8, <1>9 DEF IndInv

(* The length measured is the length of the sequence.                      *)
LEMMA Measured ==
    ASSUME IndInv
    PROVE  MeasuredLength = Len(seq)
<1>1. TypeOK /\ NothingLost /\ Remembered
  BY DEF IndInv
<1>2. Len(iterator) \in Nat /\ index0 \in Int /\ Drawn \in {0, 1}
  BY <1>1, EmptyLength DEF TypeOK, Drawn
<1>3. Len(iterator) + index + Drawn = Len(seq)
  BY <1>1, <1>2 DEF NothingLost, index
<1> QED
  BY <1>1, <1>3 DEF MeasuredLength, TypeOK, Remembered

LEMMA LengthSound ==
    ASSUME IndInv, AskLength
    PROVE  IndInv'
<1> USE MissingAssumption
<1>0. Indicated'
  BY IndicatedSound DEF Next
<1>1. TypeOK /\ NothingLost /\ Remembered /\ Untouched
  BY DEF IndInv
<1>2. _length' = Len(seq) /\ Len(seq) \in Nat
  BY <1>1, Measured, EmptyLength DEF AskLength, TypeOK
<1>3. UNCHANGED <<seq, sized, iterator, index0, _after, _current, _before,
                  _last_changed_value, phase, indicator, completed>>
  BY DEF AskLength, Reply
<1>4. TypeOK' /\ NothingLost'
  BY <1>1, <1>2, <1>3 DEF TypeOK, NothingLost, index, Drawn
<1>5. Remembered' /\ Untouched'
  BY <1>1, <1>2, <1>3 DEF Remembered, Untouched, index
<1> QED
  BY <1>0, <1>4, <1>5 DEF IndInv

(* The steps of the generated code and the questions that leave the        *)
(* context, up to _last_changed_value, as it is.                           *)
LEMMA OtherSound ==
    ASSUME IndInv,
           \/ Stop \/ EndBody \/ Continue \/ Break \/ EndElse \/ AskPlain
           \/ (\E v \in Items : AskChanged(v)) \/ UNCHANGED vars
    PROVE  IndInv'
<1>0. Indicated'
  BY IndicatedSound DEF Next
<1>1. TypeOK /\ NothingLost /\ Remembered /\ Untouched
  BY DEF IndInv
<1>2. UNCHANGED <<seq, sized, iterator, index0, _length, _after, _current,
                  _before>>
  BY DEF Stop, EndBody, Continue, Break, EndElse, AskPlain, AskChanged, Reply,
         context, vars
<1>3. _last_changed_value' \in Items \cup {Missing}
  BY <1>1 DEF TypeOK, Stop, EndBody, Continue, Break, EndElse, AskPlain,
              AskChanged, context, vars
<1>4. /\ phase' \in {"next", "body", "else", "end"}
      /\ indicator' \in {0, 1} /\ completed' \in BOOLEAN
  BY <1>1 DEF TypeOK, Stop, EndBody, Continue, Break, EndElse, BehindLoop,
              AskPlain, AskChanged, Reply, vars
<1>5. phase' = "body" => phase = "body"
  BY DEF Stop, EndBody, Continue, Break, EndElse, BehindLoop, AskPlain,
         AskChanged, Reply, vars
<1>6. TypeOK' /\ NothingLost'
  BY <1>1, <1>2, <1>3, <1>4 DEF TypeOK, NothingLost, index, Drawn
<1>7. Remembered' /\ Untouched'
  BY <1>1, <1>2, <1>5 DEF Remembered, Untouched, index
<1> QED
  BY <1>0, <1>6, <1>7 DEF IndInv

LEMMA IndNext == IndInv /\ [Next]_vars => IndInv'
  BY AdvanceSound, AheadSound, LengthSound, OtherSound DEF Next

THEOREM Invariance == Spec => []IndInv
  BY IndInit, IndNext, PTL DEF Spec

(* The variables of a LoopContext and of the generated loop hold what they *)
(* may hold, whatever is looped over.                                      *)
THEOREM TypeCorrect == Spec => []TypeOK
  BY Invariance, PTL DEF IndInv

(* Drawing an item early for loop.last or loop.nextitem, and draining a    *)
(* generator for loop.length, lose, repeat and reorder no item.            *)
THEOREM KeepsEveryItem == Spec => []NothingLost
  BY Invariance, PTL DEF IndInv

-----------------------------------------------------------------------------
(* The refinement.                                                         *)

LEMMA RefInit == Init => ReferenceLoop!Init
  BY DEF Init, LeftByJumps, ReferenceLoop!Init, NoReply, ReferenceLoop!NoReply

LEMMA PlainAnswers ==
    ASSUME IndInv, InReach
    PROVE  LET A == ReferenceLoop!Answers IN
           /\ A["index"] = index
           /\ A["index0"] = index0
           /\ A["first"] = (index0 = 0)
           /\ A["odd"] = (index0 % 2 = 0)
           /\ A["previtem"] = IF index0 = 0 THEN Missing ELSE _before
<1>1. TypeOK /\ Remembered /\ index0 \in Int /\ index0 >= 0
  BY DEF IndInv, InReach, TypeOK
<1>2. (index0 + 1) - 1 = index0 /\ (index0 + 1 = 1 <=> index0 = 0)
  BY <1>1
<1>3. ((index0 + 1) % 2 = 1) = (index0 % 2 = 0)
  BY <1>1
<1> QED
  BY <1>1, <1>2, <1>3 DEF ReferenceLoop!Answers, index, Remembered

LEMMA LengthAnswers ==
    ASSUME IndInv, InReach
    PROVE  LET A == ReferenceLoop!Answers IN
           /\ A["length"] = MeasuredLength
           /\ A["revindex"] = MeasuredLength - index0
           /\ A["revindex0"] = MeasuredLength - index
<1>1. Len(seq) \in Nat /\ index0 \in Int
  BY EmptyLength DEF IndInv, TypeOK
<1>2. Len(seq) - (index0 + 1) + 1 = Len(seq) - index0
  BY <1>1
<1> QED
  BY <1>1, <1>2, Measured DEF ReferenceLoop!Answers, index

LEMMA AheadAnswers ==
    ASSUME IndInv, InReach
    PROVE  LET A == ReferenceLoop!Answers IN
           /\ A["last"] = (Peeked = Missing)
           /\ A["nextitem"] = Peeked
<1> USE MissingAssumption
<1>1. /\ TypeOK /\ NothingLost
      /\ index0 \in Int /\ Len(seq) \in Nat /\ Len(iterator) \in Nat
  BY EmptyLength DEF IndInv, TypeOK
<1>2. index = index0 + 1
  BY DEF index
<1>3. CASE _after # Missing
  <2>1. Peeked = _after /\ Peeked # Missing /\ Drawn = 1
    BY <1>3 DEF Peeked, Drawn
  <2>2. Peeked = seq[(index0 + 1) + 1] /\ index0 + 1 # Len(seq)
    BY <1>1, <1>2, <1>3, <2>1 DEF NothingLost
  <2> QED
    BY <2>1, <2>2 DEF ReferenceLoop!Answers
<1>4. CASE _after = Missing /\ iterator = <<>>
  <2>1. Peeked = Missing /\ Drawn = 0 /\ Len(iterator) = 0
    BY <1>4 DEF Peeked, Drawn
  <2>2. index0 + 1 = Len(seq)
    BY <1>1, <1>2, <2>1 DEF NothingLost
  <2> QED
    BY <2>1, <2>2 DEF ReferenceLoop!Answers
<1>5. CASE _after = Missing /\ iterator # <<>>
  <2>1. Peeked = Head(iterator) /\ Drawn = 0
    BY <1>5 DEF Peeked, Drawn
  <2>2. /\ Head(iterator) \in Items /\ Head(iterator) = iterator[1]
        /\ 1 \in 1..Len(iterator)
    BY <1>1, <1>5, HeadTail DEF TypeOK
  <2>3. index + Drawn + 1 = (index0 + 1) + 1
    BY <1>1, <1>2, <2>1
  <2>4. Peeked = seq[(index0 + 1) + 1]
    BY <1>1, <2>1, <2>2, <2>3 DEF NothingLost
  <2>5. index0 + 1 # Len(seq) /\ Peeked # Missing
    BY <1>1, <1>2, <2>1, <2>2 DEF NothingLost
  <2> QED
    BY <2>4, <2>5 DEF ReferenceLoop!Answers
<1> QED
  BY <1>3, <1>4, <1>5

(* The phase that module Loop sees.                                        *)
Phase == IF LeftByJumps THEN "end" ELSE phase

LEMMA PhaseSeen ==
    /\ phase \in {"next", "body", "end"} => Phase = phase
    /\ phase = "next" <=> Phase = "next"
    /\ phase' \in {"next", "body", "end"} => Phase' = phase'
    /\ UNCHANGED <<phase, index0, completed>> => Phase' = Phase
  BY DEF Phase, LeftByJumps

(* Behind the loop the else part is run if no iteration took place, or as  *)
(* LeftByJumps has it.                                                     *)
LEMMA BehindSeen ==
    ASSUME IndInv, phase' = BehindLoop, UNCHANGED <<index0, completed>>
    PROVE  Phase' = ReferenceLoop!After
<1>1. index0 \in Int /\ index0 >= -1 /\ Indicated
  BY DEF IndInv, TypeOK
<1>2. CASE indicator = 1
  <2>1. phase' = "else" /\ ~completed
    BY <1>1, <1>2 DEF BehindLoop, Indicated
  <2>2. Phase' = IF index0 >= 0 THEN "end" ELSE "else"
    BY <2>1 DEF Phase, LeftByJumps
  <2>3. index0 + 1 = 0 <=> ~(index0 >= 0)
    BY <1>1
  <2> QED
    BY <2>2, <2>3 DEF ReferenceLoop!After
<1>3. CASE indicator # 1
  <2>1. phase' = "end" /\ completed
    BY <1>1, <1>3 DEF BehindLoop, Indicated
  <2>2. Phase' = "end" /\ index0 >= 0
    BY <1>1, <2>1 DEF Phase, LeftByJumps, Indicated
  <2>3. index0 + 1 # 0
    BY <1>1, <2>2
  <2> QED
    BY <2>2, <2>3 DEF ReferenceLoop!After
<1> QED
  BY <1>2, <1>3

LEMMA RefControl ==
    ASSUME IndInv, Stop \/ EndBody \/ Continue \/ Break \/ EndElse
    PROVE  ReferenceLoop!Next \/ UNCHANGED ReferenceLoop!vars
<1>1. index0 \in Int
  BY DEF IndInv, TypeOK
<1>2. CASE Stop
  <2>1. index0 + 1 = Len(seq)
    BY <1>1, <1>2, EmptyLength
       DEF IndInv, TypeOK, NothingLost, Stop, index, Drawn
  <2>2. Phase = "next" /\ Phase' = ReferenceLoop!After
    BY <1>2, PhaseSeen, BehindSeen DEF Stop, context
  <2>3. ReferenceLoop!Exhaust
    BY <1>2, <2>1, <2>2 DEF Stop, context, Phase, ReferenceLoop!Exhaust
  <2> QED
    BY <2>3 DEF ReferenceLoop!Next
<1>3. CASE EndBody \/ Continue
  <2>1. Phase = "body" /\ Phase' = "next"
    BY <1>3, PhaseSeen DEF EndBody, Continue
  <2>2. ReferenceLoop!Complete
    BY <1>3, <2>1 DEF EndBody, Continue, context, Phase, ReferenceLoop!Complete
  <2> QED
    BY <2>2 DEF ReferenceLoop!Next
<1>4. CASE Break
  <2>1. Phase = "body" /\ Phase' = ReferenceLoop!After
    BY <1>4, PhaseSeen, BehindSeen DEF Break, context
  <2>2. ReferenceLoop!Break
    BY <1>4, <2>1 DEF Break, context, Phase, ReferenceLoop!Break
  <2> QED
    BY <2>2 DEF ReferenceLoop!Next
<1>5. CASE EndElse
  <2>1. phase = "else" /\ Phase' = "end"
    BY <1>5, PhaseSeen DEF EndElse
  <2>2. CASE LeftByJumps
    <3>1. Phase' = Phase
      BY <2>1, <2>2 DEF Phase
    <3> QED
      BY <1>5, <3>1 DEF EndElse, context, Phase, ReferenceLoop!vars
  <2>3. CASE ~LeftByJumps
    <3>1. Phase = "else"
      BY <2>1, <2>3 DEF Phase
    <3>2. ReferenceLoop!Finish
      BY <1>5, <2>1, <3>1 DEF EndElse, context, Phase, ReferenceLoop!Finish
    <3> QED
      BY <3>2 DEF ReferenceLoop!Next
  <2> QED
    BY <2>2, <2>3
<1> QED
  BY <1>2, <1>3, <1>4, <1>5

LEMMA RefAdvance ==
    ASSUME IndInv, Advance
    PROVE  ReferenceLoop!Next
<1>1. index0 \in Int /\ index0' = index0 + 1
  BY DEF IndInv, TypeOK, Advance
<1>2. index0 + 1 < Len(seq) /\ _current' = seq[index0 + 2]
  BY AdvanceSound
<1>3. (index0 + 1) + 1 = index0 + 2 /\ index0' + 1 = (index0 + 1) + 1
  BY <1>1
<1>4. Phase = "next" /\ Phase' = "body"
  BY PhaseSeen DEF Advance
<1>5. ReferenceLoop!Iterate
  BY <1>2, <1>3, <1>4 DEF Advance, Phase, ReferenceLoop!Iterate
<1> QED
  BY <1>5 DEF ReferenceLoop!Next

(* An answer of a question that moves only the lookahead or the length.    *)
LEMMA RefAsk ==
    ASSUME InReach, index0 \in Int, NEW q \in ReferenceLoop!Questions,
           Reply(q, ReferenceLoop!Answers[q]),
           UNCHANGED <<index0, _current, _last_changed_value>>
    PROVE  ReferenceLoop!Next
<1>1. Phase # "next" /\ Phase' = Phase
  BY PhaseSeen DEF InReach, Reply
<1>2. ReferenceLoop!Reachable
  BY <1>1 DEF InReach, Phase, ReferenceLoop!Reachable
<1>3. ReferenceLoop!Ask(q)
  BY <1>1, <1>2 DEF Reply, Phase, ReferenceLoop!Ask
<1> QED
  BY <1>3 DEF ReferenceLoop!Next

LEMMA RefQuestions ==
    ASSUME IndInv, AskPlain \/ AskLength \/ AskAhead
    PROVE  ReferenceLoop!Next
<1>1. InReach /\ index0 \in Int
  BY DEF IndInv, TypeOK, AskPlain, AskLength, AskAhead
<1>2. UNCHANGED <<index0, _current, _last_changed_value>>
  BY DEF AskPlain, AskLength, AskAhead, context
<1>3. ASSUME NEW q \in ReferenceLoop!Questions,
             Reply(q, ReferenceLoop!Answers[q])
      PROVE  ReferenceLoop!Next
  BY <1>1, <1>2, <1>3, RefAsk
<1>4. /\ {"index", "index0", "first", "odd", "previtem"}
            \subseteq ReferenceLoop!Questions
      /\ {"length", "revindex", "revindex0"} \subseteq ReferenceLoop!Questions
      /\ {"last", "nextitem"} \subseteq ReferenceLoop!Questions
  BY DEF ReferenceLoop!Questions
<1>5. CASE AskPlain
  BY <1>1, <1>3, <1>4, <1>5, PlainAnswers DEF AskPlain
<1>6. CASE AskLength
  BY <1>1, <1>3, <1>4, <1>6, LengthAnswers DEF AskLength
<1>7. CASE AskAhead
  BY <1>1, <1>3, <1>4, <1>7, AheadAnswers DEF AskAhead
<1> QED
  BY <1>5, <1>6, <1>7

LEMMA RefChanged ==
    ASSUME IndInv, NEW v \in Items, AskChanged(v)
    PROVE  ReferenceLoop!Next
<1>1. index0 \in Int /\ Phase # "next" /\ Phase' = Phase
  BY PhaseSeen DEF IndInv, TypeOK, AskChanged, InReach, Reply
<1>2. ReferenceLoop!AskChanged(v)
  BY <1>1 DEF AskChanged, InReach, Reply, Phase,
              ReferenceLoop!AskChanged, ReferenceLoop!Reachable
<1> QED
  BY <1>2 DEF ReferenceLoop!Next

LEMMA RefNext ==
    IndInv /\ [Next]_vars => [ReferenceLoop!Next]_(ReferenceLoop!vars)
<1> SUFFICES ASSUME IndInv, [Next]_vars
             PROVE  ReferenceLoop!Next \/ UNCHANGED ReferenceLoop!vars
  OBVIOUS
<1>1. CASE UNCHANGED vars
  BY <1>1 DEF vars, context, LeftByJumps, ReferenceLoop!vars
<1>2. CASE Next
  BY <1>2, RefAdvance, RefControl, RefQuestions, RefChanged DEF Next
<1> QED
  BY <1>1, <1>2

(* The generated for loop and its LoopContext implement module Loop: each  *)
(* attribute of "loop", asked at any moment and in any order, answers from *)
(* the sequence and the position alone, and the else part is run if no     *)
(* iteration took place, LeftByJumps apart.                                *)
THEOREM Implementation == Spec => ImplementsLoop
  BY RefInit, RefNext, Invariance, PTL
     DEF Spec, ImplementsLoop, ReferenceLoop!Spec

=============================================================================
