-------------------------- MODULE ImportStatements --------------------------
(* Templates that import one template, lib, and what their names stand for *)
(* lib is  {{ x }}{% set y = x %}{% macro m(...) %}...{% endmacro %}       *)
(* {% set _p = x %}  and awaits something while it is rendered.  The one   *)
(* name that globals and variables give a value to is x.                   *)
EXTENDS Integers, Sequences

CONSTANTS Tasks, Identifiers,
          Texts,  \* the strings that x and set statements give
          Macros, Calls

None == << >>  \* no value: no x in a dictionary, no call in a statement
Assigned == <<"set">>
ASSUME NamesAssumption == "x" \in Identifiers
ASSUME TextsAssumption == None \notin Texts /\ Assigned \in Texts

NoAttribute == "none"
Attributes == {"y", "m", "_p", "nope"}
Dictionaries == Texts \cup {None}  \* the x in it

(* A statement; x is never bound to lib or its macro.                      *)
Statements ==
    {s \in [op : {"import", "from", "set", "out", "call"}, name : Identifiers,
            attr : Attributes \cup {NoAttribute}, with_context : BOOLEAN, call : Calls \cup {None}] :
        /\ s.op = "from" => s.attr # NoAttribute
        /\ s.op = "call" => s.call # None
        /\ s.name = "x" => s.op # "import" /\ (s.op = "from" => s.attr # "m")}

value(kind, is) == [kind |-> kind, is |-> is, module |-> 0]
Undefined == value("undefined", None)
string(is) == value("string", is)
Resolve(x) == IF x = None THEN Undefined ELSE string(x)
x_of(v) == IF v.kind = "undefined" THEN None ELSE v.is
Public(name) == name # "_p"
=============================================================================
