------------------------------ MODULE MCParser ------------------------------
(* Templates written from every tree of two levels of operators and from   *)
(* nested statements, and templates of tokens and of tags in any order.    *)
EXTENDS TemplateGrammar
CONSTANTS MaxTokens, MaxTags

MCNames == {"x", "y", "_x", "true", "none", "if", "else", "elif", "not", "and", "or", "in", "is", "for", "set",
            "with", "without", "context", "ignore", "missing", "as", "import", "from", "include", "extends",
            "block", "scoped", "required", "macro", "call", "filter", "print", "autoescape", "recursive", "do"}
           \cup {"end" \o t : t \in DOMAIN EndTokens}
N(kind, kids) == [op |-> kind, kids |-> kids]
X == Leaf("x")
Y == Leaf("y")
F == N("name", <<X>>)
Arg(e) == N("arg", <<e>>)

Unary(S) ==
    UNION {{N(op, <<e>>) : op \in {"neg", "pos", "not", "list", "tuple"}} : e \in S} \cup
    UNION {{N("getattr", <<e, Y>>), N("call", <<e>>), N("filter", <<e, F>>), N("test", <<e, F>>),
            N("not", <<N("test", <<e, F>>)>>), N("test", <<X, F, Arg(e)>>),
            N("filter", <<X, N("name", <<X, Y>>), Arg(e), N("keyword", <<Y, e>>)>>),
            N("call", <<X, Arg(e), N("keyword", <<Y, e>>), N("dyn_args", <<e>>), N("dyn_kwargs", <<e>>)>>),
            N("getitem", <<e, Leaf("1")>>), N("getitem", <<X, e>>), N("getitem", <<X, N("slice", <<e, None, None>>)>>),
            N("getitem", <<X, N("tuple", <<N("slice", <<None, None, e>>), e>>)>>),
            N("dict", <<N("pair", <<e, e>>)>>), N("tuple", <<e, X>>), N("cond", <<e, X, None>>),
            N("cond", <<X, e, Y>>), N("cond", <<X, Y, e>>)} : e \in S}
Pairs(S, T) ==
    UNION {{N(op, <<a, b>>) : op \in {"or", "and", "+", "-", "concat", "*", "%", "**"}} : a \in S, b \in T} \cup
    UNION {{N("compare", <<a, N(op, <<b>>)>>) : op \in {"<", "in", "notin"}} : a \in S, b \in T}
Atoms == {X, Leaf("1"), N("string", <<Leaf("'s'"), Leaf("'s'")>>), N("tuple", << >>), N("list", << >>)}
One == Unary(Atoms) \cup Pairs({X}, {Y}) \cup {N("compare", <<X, N("<", <<Y>>), N("in", <<X>>)>>), N("concat", <<X, Y, X>>)}
Trees == Atoms \cup One \cup Unary(One) \cup Pairs(One, {X}) \cup Pairs({X}, One)
              \cup Pairs(Pairs({X}, {Y}), Pairs({X}, {Y}))

Output(leaf) == N("output", <<leaf>>)
Inner == {N("body", << >>), N("body", <<Output(Leaf("data"))>>), N("body", <<N("output", <<Leaf("blank"), X>>)>>)}
Calls == {N("call", <<X>>), N("call", <<X, N("keyword", <<Y, X>>)>>)}
Signatures == {N("signature", << >>), N("signature", <<N("param", <<X>>), N("param", <<Y, Leaf("1")>>)>>)}
Targets == {X, N("tuple", <<X, Y>>)}
Simple ==
    {N("set", <<N("assign", <<t, e>>)>>) : t \in Targets \cup {N("nsref", <<X, Y>>)}, e \in {X, N("tuple", <<X>>)}} \cup
    {N("extends", <<X>>), N("print", <<X, Y>>), N("print", << >>)} \cup
    UNION {{N("include", <<N("string", <<Leaf("'s'")>>), Leaf("ignore"), c>>), N("include", <<X, c>>),
            N("import", <<X, Y, c>>), N("from", <<X, N("name", <<Y>>), c>>),
            N("from", <<X, N("name", <<X, Y>>), N("name", <<X>>), c>>)} : c \in {Leaf("with"), Leaf("without")}}
Blocks(bodies) ==
    UNION {{N("for", <<t, X, e>> \o r \o <<b>>) : t \in Targets, e \in {None, N("test", <<X, F>>)},
                r \in {<< >>, <<Leaf("recursive")>>}} : b \in bodies} \cup
    UNION {{N("for", <<X, Y, None, b, Leaf("else"), c>>), N("if", <<X, b, Leaf("else"), c>>),
            N("if", <<X, b, Leaf("elif"), Y, c>>), N("if", <<X, b, Leaf("elif"), Y, c, Leaf("else"), b>>)}
               : b \in bodies, c \in bodies} \cup
    UNION {{N("set", <<X, f, b>>) : f \in {None, N("filter", <<None, F>>)}} : b \in bodies} \cup
    UNION {{N("if", <<N("or", <<X, Y>>), b>>), N("with", <<b>>), N("with", <<X, Y, Y, N("cond", <<X, X, X>>), b>>),
            N("autoescape", <<X, b>>), N("block", <<X, b>>), N("block", <<X, Leaf("scoped"), b>>),
            N("filter", <<N("filter", <<N("filter", <<None, F, Arg(X)>>), F>>), b>>)} : b \in bodies} \cup
    UNION {{N("macro", <<X, s, b>>), N("call", <<s, c, b>>), N("call", <<None, c, b>>)}
               : s \in Signatures, c \in Calls, b \in bodies} \cup
    {N("block", <<X, Leaf("required"), b>>) : b \in {N("body", << >>), N("body", <<Output(Leaf("blank"))>>)}}
Statements == Simple \cup Blocks(Inner)
Templates ==
    {N("body", <<Output(e)>>) : e \in Trees} \cup
    {N("body", <<Output(Leaf("data")), s>>) : s \in Statements} \cup
    {N("body", <<s, Output(Leaf("blank"))>>) :
        s \in Blocks({N("body", <<s>>) : s \in {N("extends", <<X>>), N("if", <<X, N("body", << >>)>>),
                                               N("for", <<X, Y, None, N("body", << >>)>>)}})}

Tokens == {"x", "not", "if", "else", "in", "is", "1", "-", "**", "~", "<", "|", ".", ",", "(", ")", "[", "]", ":", "="}
Heads == {<<"include">>, <<"import", "x">>, <<"from", "x", "import">>, <<"set">>, <<"set", "true">>, <<"for", "x">>,
          <<"for", "x", "in">>, <<"with">>, <<"block", "x">>, <<"macro", "x", "(">>, <<"call", "(">>, <<"filter">>}
HeadTokens == {"x", "true", "as", "with", "without", "context", "ignore", "missing", "=", ",", "(", ")", "if", "|"}
TagPieces ==
    {<<"data">>, <<"blank">>, Enclosed(<<"if", "x">>), Enclosed(<<"for", "x", "in", "x">>), Enclosed(<<"elif", "x", ":">>),
     Enclosed(<<"else">>), Enclosed(<<"endif">>), Enclosed(<<"endfor">>), Enclosed(<<"block", "y", "required">>),
     Enclosed(<<"endblock", "y">>), Enclosed(<<"set", "x">>), Enclosed(<<"endset">>), Enclosed(<<"do">>),
     Enclosed(<<"1">>), Enclosed(<<"block", "x", "-", "y">>), Enclosed(<<"endblock", "x">>)}

MCInit ==
    \/ \E t \in Templates : tree = <<t>> /\ Start(WrittenBody(t))
    \/ /\ tree = << >>
       /\ \/ \E s \in BoundedSeq(Tokens, MaxTokens) : Start(<<"variable_begin", "x">> \o s \o <<"variable_end">>)
          \/ \E h \in Heads, s \in BoundedSeq(HeadTokens, MaxTokens) : Start(Enclosed(h \o s))
          \/ \E s \in BoundedSeq(TagPieces, MaxTags) : Start(FlattenSeq(s))
MCNext == Next /\ UNCHANGED tree
MCSpec == MCInit /\ [][MCNext]_<<parser_vars, tree>>
=============================================================================
