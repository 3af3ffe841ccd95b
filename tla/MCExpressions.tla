--------------------------- MODULE MCExpressions ---------------------------
(* Every small expression in a plain output and in an autoescape block,    *)
(* and a few telling expressions in nested blocks and in loops with jumps. *)
EXTENDS AutoescapeBlocks

Leaf(op, name) == [op |-> op, name |-> name, kids |-> << >>]
Node(op, name, kids) == [op |-> op, name |-> name, kids |-> kids]
Const(name) == Leaf("const", name)
Name(name) == Leaf("name", name)
Apply(name, node) == Node("filter", name, <<node>>)
Is(name, node) == Node("test", name, <<node>>)
Two(op, a, b) == Node(op, "", <<a, b>>)
Compare(op, a, b) == Node("compare", op, <<a, b>>)

Data == Leaf("data", "")  \* text between the tags, an output by itself
Leaves == {Const("lt"), Const("zero"), Name("x"), Name("m"), Name("u")}
Unary(E) == {Apply(f, e) : f \in {"safe", "escape", "upper", "from_context"}, e \in E}
            \cup {Is(t, e) : t \in {"defined", "string"}, e \in E}
            \cup {Node(op, "", <<e>>) : op \in {"not", "marksafe", "marksafe_if_autoescape"}, e \in E}
Binary(D, E) == {Two(op, d, e) : op \in {"concat", "and", "or", "cond"}, d \in D, e \in E}
Texts == {Const("lt"), Name("x"), Name("m"), Apply("safe", Const("lt")), Apply("escape", Name("x"))}
Lists == {Node("list", "", <<a, b>>) : a \in Texts, b \in {Const("a"), Name("m")}}
Small == Leaves \cup Unary(Leaves) \cup Binary(Leaves, Leaves)
Others == {Two("add", a, b) : a \in Texts, b \in Texts} \cup {Apply("join", l) : l \in Lists}
          \cup {Two("getitem", l, i) : l \in Lists, i \in {Const("zero"), Const("one")}}
          \cup {Compare(op, a, l) : op \in {"in", "=="}, a \in Texts, l \in Lists}
          \cup {Node("compare", "==", <<a, b, c>>) : a, b, c \in {Const("lt"), Name("x"), Const("zero")}}
          \cup {Node("cond", "", <<a, b, c>>) : a \in Leaves, b, c \in Texts}
Deep == Unary(Binary({Const("lt"), Name("m"), Apply("safe", Const("lt"))}, {Const("lt"), Name("u")}) \cup Others)
        \cup Binary(Texts, {Apply("join", l) : l \in Lists})

Out1(node) == [op |-> "out", node |-> node, match |-> 0]
EnterIf(node) == [op |-> "enter", node |-> node, match |-> 0]
Do(op) == [op |-> op, node |-> Const("empty"), match |-> 0]
Flags == {Const("zero"), Const("true"), Name("flag")}
Telling == {Name("x"), Const("lt"), Apply("join", Node("list", "", <<Name("x"), Name("m")>>)),
            Two("concat", Name("x"), Name("m")), Apply("escape", Const("lt"))}
Outputs == {Data} \cup Small \cup Others \cup Deep
MCNodes == Outputs \cup Flags \cup Telling \cup {Const("empty")}

(* Each instruction with the one that matches it.                          *)
Balance(t, i, j) == LET count(ops) == Cardinality({p \in i .. j : t[p].op \in ops})
                    IN  count({"enter", "for"}) - count({"leave", "endfor"})
Match(t, p) ==
    CASE t[p].op \in {"enter", "for"} -> Min({j \in p .. Len(t) : Balance(t, p, j) = 0})
      [] t[p].op \in {"leave", "endfor"} -> Max({j \in 1 .. p : Balance(t, j, p) = 0})
      [] t[p].op \in {"break", "continue"} -> Max({j \in 1 .. p : t[j].op = "for"})
      [] OTHER -> 0
Matched(t) == [p \in DOMAIN t |-> [t[p] EXCEPT !.match = Match(t, p)]]

Programs ==
    {<<Out1(e)>> : e \in Outputs}
    \cup {<<EnterIf(f), Out1(e), Do("leave")>> : f \in Flags, e \in {Data} \cup Small \cup Others}
    \cup {<<EnterIf(f), Out1(d), EnterIf(g), Out1(e), Do("leave"), Out1(e), Do("leave"), Out1(d)>> :
              f, g \in Flags, d, e \in Telling}
    \cup {<<Do("for"), Out1(e), EnterIf(f)>> \o jump \o <<Out1(d), Do("leave"), Do("endfor"), Out1(e)>> :
              f \in Flags, d, e \in Telling, jump \in {<< >>, <<Do("continue")>>, <<Do("break")>>}}
    \cup {<<EnterIf(f), Do("for"), Out1(e), Do(jump), Do("endfor"), Do("leave"), Out1(e)>> :
              f \in Flags, e \in Telling, jump \in {"continue", "break"}}
    \cup {<<Do("for"), EnterIf(f), Do("for"), Out1(e), EnterIf(g), Out1(e), Do("leave"), Do("break"), Do("endfor"),
             Do("leave"), Out1(e), Do("endfor")>> : f, g \in Flags, e \in Telling}
MCTemplates == {Matched(t) : t \in Programs}
MCContexts == {[x |-> Str(<<"<">>), m |-> Markup(<<"<">>), u |-> undefined, flag |-> Bool(flag)] : flag \in BOOLEAN}
=============================================================================
