----------------------------- MODULE MCScoping -----------------------------
(* Templates of nested statements that set and read one variable, x, that  *)
(* is also passed to render.                                               *)
EXTENDS LexicalScopes

MCGiven == "x" :> <<"given">>
Node(op, name, value, read, body, else_) ==
    [op |-> op, name |-> name, value |-> value, read |-> read, body |-> body, else_ |-> else_]
Leaf(op, name) == Node(op, name, << >>, FALSE, << >>, << >>)
Read_x == Leaf("out", "x")
Set_x == Node("set", "x", <<"1">>, FALSE, << >>, << >>)
Add_x == Node("set", "x", <<"2">>, TRUE, << >>, << >>)
Block(name, scoped, body) == Node("block", name, << >>, scoped, body, << >>)
Blocks == {Block("b", scoped, body) : scoped \in BOOLEAN, body \in {<<Read_x>>, <<Add_x, Leaf("call", "x")>>}}

Loop(name, items, body, else_) == Node("for", name, items, FALSE, body, else_)
Containers(B) ==
    {Node("if", "", << >>, taken, b, << >>) : taken \in BOOLEAN, b \in B}
    \cup {Loop(name, <<"i", "j">>, b, << >>) : name \in {"x", "item"}, b \in B}
    \cup {Node("with", "x", <<"3">>, read, b, << >>) : read \in BOOLEAN, b \in B}
    \cup {Node("setblock", name, << >>, FALSE, b, << >>) : name \in {"x", "y"}, b \in B}
    \cup {Node("filter", "", << >>, FALSE, b, << >>) : b \in B}
Halves(B) ==
    {Node("if", "", << >>, taken, b, <<Add_x>>) : taken \in BOOLEAN, b \in B}
    \cup {Loop("item", items, b, <<Add_x, Read_x>>) : items \in {<< >>, <<"i">>}, b \in B}
Macros(name, B) == {<<Node("macro", name, << >>, FALSE, b, << >>), s, Leaf("callmacro", name)>> : b \in B, s \in {Add_x, Read_x}}

Leaves == {Read_x, Set_x, Add_x, Leaf("include", "x"), Leaf("call", "x")}
Bodies == {<<a>> : a \in Leaves} \cup {<<a, b>> : a, b \in Leaves}
Inside == {<<a, c, b>> : a \in {Set_x, Leaf("include", "x")}, b \in {Read_x, Add_x, Leaf("call", "x")},
                         c \in Containers({<<Add_x, Read_x>>, <<Read_x>>}) \cup Halves({<<Read_x>>, <<Set_x>>}) \cup Blocks}
          \cup {<<c, b>> : b \in {Read_x, Add_x}, c \in Containers({<<Add_x>>, <<Read_x>>}) \cup Halves({<<Set_x>>}) \cup Blocks}
          \cup Macros("m", {<<Read_x>>, <<Add_x, Read_x>>})
Outer == Containers(Bodies \cup Inside) \cup Halves(Bodies \cup Inside) \cup Blocks
Templates ==
    {<<a, c, b>> : a \in {Set_x, Read_x}, c \in Outer, b \in {Read_x, Block("z", FALSE, <<Read_x>>)}}
    \cup {<<c, b, Read_x>> : c \in Outer, b \in {Add_x, Leaf("include", "x")}}
    \cup {<<a>> \o ms \o <<Read_x>> : a \in {Set_x, Read_x}, ms \in Macros("n", Bodies \cup Inside)}

MCInit == \E template \in Templates : Init(template)
Done == pc > Len(code) /\ UNCHANGED vars
MCSpec == MCInit /\ [][Next \/ Done]_vars
=============================================================================
