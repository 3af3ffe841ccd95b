----------------------------- MODULE MCImports -----------------------------
(* Either two tasks that import lib in every way, or one that calls every  *)
(* macro of up to MaxParams parameters in every way.                       *)
EXTENDS ImportMeaning

CONSTANTS MaxStatements, MaxParams \* bounds
MCIdentifiers == {"x", "y", "_p", "m", "lib"}
MCTexts == {Assigned, <<"lib">>, <<"globals">>, <<"variable">>, <<"other globals">>, <<"other variable">>}

blank == [op |-> "", name |-> "", attr |-> NoAttribute, with_context |-> FALSE, call |-> << >>]
Plain == {[blank EXCEPT !.op = "set", !.name = "x"], [blank EXCEPT !.op = "set", !.name = "y"],
          [blank EXCEPT !.op = "out", !.name = "x"], [blank EXCEPT !.op = "out", !.name = "y"],
          [blank EXCEPT !.op = "out", !.name = "lib", !.attr = "y"]}
Imported == {[blank EXCEPT !.op = "import", !.name = "lib", !.with_context = w] : w \in BOOLEAN}
            \cup {[blank EXCEPT !.op = "from", !.name = to, !.attr = from, !.with_context = w] :
                     to \in {"x", "y"}, from \in {"y", "m", "nope"}, w \in BOOLEAN}
Menu == {s \in Plain \cup Imported : s.attr \in {"m", "nope"} => s.name = "y" /\ ~s.with_context}
(* What comes behind the last output cannot be seen, and lib.y fails where *)
(* lib is not bound: one program does that.                                *)
Programs == {p \in UNION {[1 .. n -> Menu] : n \in 1 .. MaxStatements} :
               /\ p[Len(p)].op = "out"
               /\ \A i \in DOMAIN p : p[i].op = "out" /\ p[i].name = "lib" =>
                      Len(p) = 1 \/ \E j \in 1 .. i - 1 : p[j].op = "import"}
Others == {<<[blank EXCEPT !.op = "from", !.name = "y", !.attr = "y"], [blank EXCEPT !.op = "out", !.name = "y"]>>}
Plainest == [params |-> << >>, defaults |-> << >>, body |-> << >>]
Values(where) == {None, <<where>>}

t1 == CHOOSE t \in Tasks : TRUE
On(t, one, other) == [u \in Tasks |-> IF u = t THEN one ELSE other]
Sharing == \E mine \in Programs, other \in Others, x \in Values("lib"), g1, g2 \in BOOLEAN,
              p1 \in {None, <<"globals">>, <<"variable">>} :
    /\ ~g1 => p1 # <<"globals">>
    /\ Start(On(t1, mine, other), Plainest, x,
            On(t1, IF g1 THEN <<"globals">> ELSE None, IF g2 THEN <<"other globals">> ELSE None),
            On(t1, p1, IF g2 THEN <<"other globals">> ELSE <<"other variable">>))

Load(name) == [op |-> "load", name |-> name]
Bodies == {SetToSeq({Load(name) : name \in S}) : S \in SUBSET Specials}
          \cup {<<Load("caller"), [op |-> "store", name |-> "varargs"], Load("varargs")>>}
ParamLists == {ps \in UNION {[1 .. n -> {"a", "b", "caller", "varargs"}] : n \in 0 .. MaxParams} :
                  /\ \A i, j \in DOMAIN ps : i # j => ps[i] # ps[j]
                  /\ Contains(ps, "b") => Contains(ps, "a")}
MCMacros == UNION {[params : {ps}, defaults : UNION {[1 .. n -> {"const", "a"}] : n \in 0 .. Len(ps)}, body : Bodies] : ps \in ParamLists}
Keys == {SetToSeq(S) : S \in {T \in SUBSET {"a", "class", "caller"} : Cardinality(T) <= 2}}
MCCalls == {c \in [args : {<< >>, <<"1">>, <<"1", "2">>}, dyn_args : {<< >>, <<"3">>}, kwargs : Keys, dyn_kwargs : Keys,
                 forward_caller : BOOLEAN] : /\ Len(c.kwargs) + Len(c.dyn_kwargs) + Len(c.dyn_args) <= 2
                                             /\ Len(c.args) + Len(c.dyn_args) <= MaxParams}
Binding_ == \E m \in MCMacros, c \in MCCalls :
    Start(On(t1, <<[blank EXCEPT !.op = "import", !.name = "lib", !.with_context = TRUE],
                   [blank EXCEPT !.op = "call", !.name = "lib", !.attr = "m", !.call = c]>>, << >>),
          m, None, On(t1, None, None), On(t1, <<"variable">>, None))

MCInit == Sharing \/ Binding_
MCSpec == MCInit /\ [][Next]_allvars
=============================================================================
