----------------------------- MODULE LoopContext -----------------------------
(***************************************************************************)
(* LoopContext and AsyncLoopContext (runtime.py) in the for loop the       *)
(* compiler generates (visit_For).  The iterable may be a list, which has  *)
(* a length, or a generator, which has none and yields each item once;     *)
(* the iterable of a loop with a filter is always such a generator.        *)
(* loop.last and loop.nextitem draw one item early and keep it in _after;  *)
(* loop.length of a generator drains it and iterates over the items        *)
(* drained instead.                                                        *)
(*                                                                         *)
(* Awaiting an item suspends only the render that owns the loop, so the    *)
(* asynchronous methods take the same steps as the others.                 *)
(***************************************************************************)
EXTENDS Integers, Sequences

CONSTANTS
    Items,      \* what a loop is over
    Missing     \* the sentinel "missing", and the undefined it turns into

ASSUME MissingAssumption == Missing \notin Items

VARIABLES
    seq,        \* every item the iterable yields, for the reader
    sized,      \* does the iterable have a __len__?
    iterator,   \* _iterator: the items it has yet to yield
    index0,
    _length,    \* Missing until it is known
    _after, _current, _before, _last_changed_value,
    phase,      \* the part of the generated code that runs
    indicator,  \* iteration_indicator: 1 until a body has run to its end
    reply,      \* the last question the template asked, and the answer
    completed   \* for the reader: has a body run to its end?

context == <<iterator, index0, _length, _after, _current, _before,
             _last_changed_value>>
vars == <<seq, sized, context, phase, indicator, reply, completed>>

NoReply == [asked |-> "nothing", answer |-> Missing]

(* A for loop is about to run over any iterable.                           *)
Init ==
    /\ seq \in Seq(Items)
    /\ sized \in BOOLEAN
    /\ iterator = seq
    /\ index0 = -1
    /\ _length = Missing
    /\ _after = Missing
    /\ _current = Missing
    /\ _before = Missing
    /\ _last_changed_value = Missing
    /\ phase = "next"
    /\ indicator = 1
    /\ reply = NoReply
    /\ completed = FALSE

-----------------------------------------------------------------------------
(* The generated code.                                                     *)

(* Mutant of Advance: the item drawn early is handed out and kept.         *)
AdvanceKeepsAfter ==
    /\ phase = "next"
    /\ \/ /\ _after # Missing
          /\ _current' = _after
          /\ UNCHANGED iterator
       \/ /\ _after = Missing
          /\ iterator # <<>>
          /\ _current' = Head(iterator)
          /\ iterator' = Tail(iterator)
    /\ index0' = index0 + 1
    /\ _before' = _current
    /\ phase' = "body"
    /\ UNCHANGED <<seq, sized, _length, _after, _last_changed_value, indicator,
                   reply, completed>>

(* __next__ hands out the item drawn early, or draws one.                  *)
Advance ==
    /\ phase = "next"
    /\ \/ /\ _after # Missing
          /\ _current' = _after
          /\ _after' = Missing
          /\ UNCHANGED iterator
       \/ /\ _after = Missing
          /\ iterator # <<>>
          /\ _current' = Head(iterator)
          /\ iterator' = Tail(iterator)
          /\ UNCHANGED _after
    /\ index0' = index0 + 1
    /\ _before' = _current
    /\ phase' = "body"
    /\ UNCHANGED <<seq, sized, _length, _last_changed_value, indicator, reply,
                   completed>>

(* The code behind the loop: "if iteration_indicator" guards the else part.*)
BehindLoop == IF indicator = 1 THEN "else" ELSE "end"

(* __next__ lets the iterator's StopIteration through.                     *)
Stop ==
    /\ phase = "next"
    /\ _after = Missing
    /\ iterator = <<>>
    /\ phase' = BehindLoop
    /\ UNCHANGED <<seq, sized, context, indicator, reply, completed>>

(* The last statement of the loop resets the indicator.                    *)
EndBody ==
    /\ phase = "body"
    /\ indicator' = 0
    /\ completed' = TRUE
    /\ phase' = "next"
    /\ UNCHANGED <<seq, sized, context, reply>>

(* continue and break jump over that statement.                            *)
Continue ==
    /\ phase = "body"
    /\ phase' = "next"
    /\ UNCHANGED <<seq, sized, context, indicator, reply, completed>>

Break ==
    /\ phase = "body"
    /\ phase' = BehindLoop
    /\ UNCHANGED <<seq, sized, context, indicator, reply, completed>>

EndElse ==
    /\ phase = "else"
    /\ phase' = "end"
    /\ UNCHANGED <<seq, sized, context, indicator, reply, completed>>

-----------------------------------------------------------------------------
(* The attributes of "loop".  A template can hold on to the variable in a  *)
(* namespace and ask it when the loop is over.                             *)
InReach == phase # "next" /\ index0 >= 0

Reply(q, a) ==
    /\ reply' = [asked |-> q, answer |-> a]
    /\ UNCHANGED <<seq, sized, phase, indicator, completed>>

index == index0 + 1
Drawn == IF _after # Missing THEN 1 ELSE 0

(* Those that only read the context.                                       *)
AskPlain ==
    /\ InReach
    /\ UNCHANGED context
    /\ \/ Reply("index", index)
       \/ Reply("index0", index0)
       \/ Reply("first", index0 = 0)
       \/ Reply("odd", index0 % 2 = 0)
       \/ Reply("previtem", IF index0 = 0 THEN Missing ELSE _before)

(* Mutant of MeasuredLength: the item drawn early is not counted.          *)
MeasuredLengthForgetsDrawn ==
    IF _length # Missing THEN _length
    ELSE IF sized THEN Len(seq) ELSE Len(iterator) + index

(* length: known, or len(iterable), or the drained rest plus what has been *)
(* handed out or drawn; the items drained stay to be iterated over.        *)
MeasuredLength ==
    IF _length # Missing THEN _length
    ELSE IF sized THEN Len(seq) ELSE Len(iterator) + index + Drawn

(* Mutant of AskLength: the drained iterator is not replaced.              *)
AskLengthDrains ==
    /\ InReach
    /\ _length' = MeasuredLength
    /\ iterator' = IF _length = Missing /\ ~sized THEN <<>> ELSE iterator
    /\ UNCHANGED <<index0, _after, _current, _before, _last_changed_value>>
    /\ Reply("length", MeasuredLength)

AskLength ==
    /\ InReach
    /\ _length' = MeasuredLength
    /\ UNCHANGED <<iterator, index0, _after, _current, _before,
                   _last_changed_value>>
    /\ \/ Reply("length", MeasuredLength)
       \/ Reply("revindex", MeasuredLength - index0)
       \/ Reply("revindex0", MeasuredLength - index)

(* _peek_next keeps an item drawn earlier, and draws one otherwise.        *)
Peeked == IF _after # Missing \/ iterator = <<>> THEN _after ELSE Head(iterator)

AskAhead ==
    /\ InReach
    /\ _after' = Peeked
    /\ iterator' = IF _after # Missing \/ iterator = <<>>
                   THEN iterator ELSE Tail(iterator)
    /\ UNCHANGED <<index0, _length, _current, _before, _last_changed_value>>
    /\ \/ Reply("last", Peeked = Missing)
       \/ Reply("nextitem", Peeked)

AskChanged(v) ==
    /\ InReach
    /\ _last_changed_value' = v
    /\ Reply("changed", _last_changed_value # v)
    /\ UNCHANGED <<iterator, index0, _length, _after, _current, _before>>

-----------------------------------------------------------------------------
Next ==
    \/ Advance \/ Stop \/ EndBody \/ Continue \/ Break \/ EndElse
    \/ AskPlain \/ AskLength \/ AskAhead
    \/ \E v \in Items : AskChanged(v)

Spec == Init /\ [][Next]_vars

-----------------------------------------------------------------------------
(* Properties.                                                             *)

(* The variables hold what the code may put there.                         *)
TypeOK ==
    /\ seq \in Seq(Items)
    /\ sized \in BOOLEAN
    /\ iterator \in Seq(Items)
    /\ index0 \in -1..(Len(seq) - 1)
    /\ _length \in Nat \cup {Missing}
    /\ {_after, _current, _before, _last_changed_value}
            \subseteq Items \cup {Missing}
    /\ phase \in {"next", "body", "else", "end"}
    /\ indicator \in {0, 1}
    /\ completed \in BOOLEAN

(* The item handed out, the one drawn early and those the iterator still   *)
(* has are the items of the iterable at their places: drawing early and    *)
(* draining lose none, repeat none and reorder none.                       *)
NothingLost ==
    /\ Len(seq) = index + Drawn + Len(iterator)
    /\ \A i \in 1..Len(iterator) : iterator[i] = seq[index + Drawn + i]
    /\ _after # Missing => _after = seq[index + 1]

(* What loop.previtem and loop.length rely on.                             *)
Remembered ==
    /\ _current = IF index0 >= 0 THEN seq[index] ELSE Missing
    /\ _before = IF index0 >= 1 THEN seq[index0] ELSE Missing
    /\ _length # Missing => _length = Len(seq)

(* Before the first item is handed out nothing can have been asked.        *)
Untouched == index0 = -1 => _after = Missing /\ phase # "body"

(* The indicator, and so the else part, follows the bodies that ran to     *)
(* their end.                                                              *)
Indicated ==
    /\ indicator = (IF completed THEN 0 ELSE 1)
    /\ completed => index0 >= 0
    /\ phase = "else" => ~completed

IndInv == TypeOK /\ NothingLost /\ Remembered /\ Untouched /\ Indicated

(* Where the code departs from the documentation: behind a loop each of    *)
(* whose bodies was left by continue or break, the else part is run as     *)
(* well (compiler.py:1279-1280).                                           *)
LeftByJumps == phase = "else" /\ index0 >= 0 /\ ~completed

(* The generated loop and its LoopContext implement the for loop of module *)
(* Loop: whatever has been asked, and in whatever order, every answer is   *)
(* the one computed from the whole sequence and the position in it, the    *)
(* body sees each item once and in order, and the else part is run exactly *)
(* if no iteration took place, or, which is the one exception, as          *)
(* LeftByJumps has it.                                                     *)
ReferenceLoop == INSTANCE Loop WITH
    pos <- index0 + 1, item <- _current, noted <- _last_changed_value,
    phase <- IF LeftByJumps THEN "end" ELSE phase
ImplementsLoop == ReferenceLoop!Spec

(* docs/templates.rst:787 states when the else part is rendered: "If no    *)
(* iteration took place because the sequence was empty or the filtering    *)
(* removed all the items from the sequence".  TLC refutes this claim.       *)
ElseOnlyWithoutIterations == phase = "else" => index0 = -1
=============================================================================
