-------------------------------- MODULE Loop --------------------------------
(***************************************************************************)
(* What a for loop promises to the template: the body sees the items of    *)
(* one sequence in order, each once, and whatever it has asked before, the *)
(* special variable "loop" answers from the sequence and the position in   *)
(* it alone (the table of docs/templates.rst).                             *)
(***************************************************************************)
EXTENDS Integers, Sequences

CONSTANTS Items, Missing

VARIABLES
    seq,        \* the items the loop is over
    pos,        \* how many iterations have begun
    item,       \* the loop target's value
    phase,      \* "next", "body", "else" or "end"
    noted,      \* the value last given to loop.changed
    reply       \* the last question and its answer

vars == <<seq, pos, item, phase, noted, reply>>

(* The answers the documentation tabulates.                                *)
Answers ==
    [index     |-> pos,
     index0    |-> pos - 1,
     length    |-> Len(seq),
     revindex  |-> Len(seq) - pos + 1,
     revindex0 |-> Len(seq) - pos,
     first     |-> pos = 1,
     last      |-> pos = Len(seq),
     previtem  |-> IF pos = 1 THEN Missing ELSE seq[pos - 1],
     nextitem  |-> IF pos = Len(seq) THEN Missing ELSE seq[pos + 1],
     odd       |-> pos % 2 = 1]

Questions == {"index", "index0", "length", "revindex", "revindex0", "first",
              "last", "previtem", "nextitem", "odd"}

NoReply == [asked |-> "nothing", answer |-> Missing]

-----------------------------------------------------------------------------
Init ==
    /\ seq \in Seq(Items)
    /\ pos = 0
    /\ item = Missing
    /\ phase = "next"
    /\ noted = Missing
    /\ reply = NoReply

Iterate ==
    /\ phase = "next"
    /\ pos < Len(seq)
    /\ pos' = pos + 1
    /\ item' = seq[pos + 1]
    /\ phase' = "body"
    /\ UNCHANGED <<seq, noted, reply>>

(* The else part is rendered if no iteration took place                    *)
(* (docs/templates.rst:787).                                               *)
After == IF pos = 0 THEN "else" ELSE "end"

Exhaust ==
    /\ phase = "next"
    /\ pos = Len(seq)
    /\ phase' = After
    /\ UNCHANGED <<seq, pos, item, noted, reply>>

(* A body ends by running through or by continue.                          *)
Complete ==
    /\ phase = "body"
    /\ phase' = "next"
    /\ UNCHANGED <<seq, pos, item, noted, reply>>

Break ==
    /\ phase = "body"
    /\ phase' = After
    /\ UNCHANGED <<seq, pos, item, noted, reply>>

Finish ==
    /\ phase = "else"
    /\ phase' = "end"
    /\ UNCHANGED <<seq, pos, item, noted, reply>>

(* The variable "loop" can be asked from the body and, where the template  *)
(* has stored it in a namespace, after the loop.                           *)
Reachable == phase # "next" /\ pos > 0

Ask(q) ==
    /\ Reachable
    /\ reply' = [asked |-> q, answer |-> Answers[q]]
    /\ UNCHANGED <<seq, pos, item, phase, noted>>

AskChanged(v) ==
    /\ Reachable
    /\ noted' = v
    /\ reply' = [asked |-> "changed", answer |-> v # noted]
    /\ UNCHANGED <<seq, pos, item, phase>>

Next ==
    \/ Iterate \/ Exhaust \/ Complete \/ Break \/ Finish
    \/ \E q \in Questions : Ask(q)
    \/ \E v \in Items : AskChanged(v)

Spec == Init /\ [][Next]_vars
=============================================================================
