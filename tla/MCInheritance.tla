---------------------------- MODULE MCInheritance ----------------------------
(* Four templates: child may extend mid or base, mid may extend base, and  *)
(* inc is included, and may extend lay.  The roots and the blocks of each  *)
(* are taken from small menus; every combination is a program.             *)
EXTENDS InheritanceReference
CONSTANTS child, mid, base, inc, lay, x, y

S(op, arg) == [op |-> op, arg |-> arg, wrapped |-> FALSE]
W(op, arg) == [op |-> op, arg |-> arg, wrapped |-> TRUE]
P(op)      == S(op, None)

Roots(n) ==
    CASE n = child ->
           {<<S("extends", mid), P("set"), S("block", x)>>,
            <<P("set"), S("extends_if", base), P("text"), S("block", x)>>,
            <<S("extends_unless", base), S("block", x), S("include", inc)>>,
            <<P("text"), S("extends", mid), W("include", inc), S("block", y)>>,
            <<S("extends_if", mid), S("block", x), S("extends", base)>>,
            <<S("extends", mid), W("inner_block", x), P("set"), P("value")>>,
            <<S("block", x), S("extends", base), S("extends_unless", mid)>>,
            <<S("include_alone", mid), S("self", y), S("block", x)>>,
            <<S("extends", mid), S("extends_if", base)>>}
      [] n = mid ->
           {<<S("extends", base), P("set"), S("block", x)>>,
            <<S("block", x), P("value"), S("extends_if", base), S("self", x)>>,
            <<P("set"), S("block", y), S("extends_unless", base), S("self", y)>>,
            <<S("extends_unless", base), S("extends_if", base), P("value")>>}
      [] n = base ->
           {<<P("text"), S("block", x), P("value")>>,
            <<S("block", y), S("self", x), W("include_alone", inc)>>,
            <<P("set"), S("include", inc), S("block", x)>>}
      [] n = inc ->
           {<<P("value")>>,
            <<P("set"), S("extends", lay), S("block", x)>>}
      [] n = lay -> {<<W("inner_block", x), P("value")>>}

Bodies(n) ==
    CASE n = child -> {<<P("super"), P("value")>>, <<P("super_super")>>,
                       <<P("text"), S("self", y)>>, <<W("include", inc)>>,
                       <<W("inner_block", y), P("super")>>, <<W("super", None), P("text")>>}
      [] n = mid   -> {<<P("text"), P("super")>>, <<W("inner_block", y)>>, <<>>}
      [] n = base  -> {<<P("value")>>, <<W("inner_block", y), P("text")>>, <<>>}
      [] n = inc   -> {<<P("super"), P("value")>>}
      [] n = lay   -> {<<P("text")>>}

Places(body, b) == \E i \in DOMAIN body :
    body[i].op \in {"block", "inner_block"} /\ body[i].arg = b

(* The block y nests nothing; a block x without a body may be required.    *)
Template(root, bx, by, required) ==
    LET hasX == Places(root, x)
        hasY == Places(root, y) \/ (hasX /\ Places(bx, y))
    IN [root |-> root,
        defines |-> {b \in Blocks : (b = x /\ hasX) \/ (b = y /\ hasY)},
        required |-> {b \in {x} : hasX /\ bx = <<>> /\ required},
        body |-> [b \in Blocks |-> IF b = x /\ hasX THEN bx
                                   ELSE IF b = y /\ hasY THEN by
                                   ELSE <<>>]]

Templates(n) ==
    {Template(root, bx, IF n = child THEN <<P("text"), P("super")>>
                       ELSE <<P("value")>>, required) :
        root \in Roots(n), bx \in Bodies(n), required \in BOOLEAN}

MCPrograms ==
    {[n \in Names |-> CASE n = child -> c [] n = mid -> m [] n = base -> b
                        [] n = inc -> i [] n = lay -> l] :
        c \in Templates(child), m \in Templates(mid), b \in Templates(base),
        i \in Templates(inc), l \in Templates(lay)}
=============================================================================
