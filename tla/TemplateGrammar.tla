-------------------------- MODULE TemplateGrammar --------------------------
(* How a tree is written: with the parentheses its operators need by their *)
(* precedence and no others. The parser is to read what is written.        *)
EXTENDS Parser, FiniteSets

VARIABLE tree  \* the nodes the input was written from, or << >>

Precedence(node) ==
    LET levels == <<{"cond"}, {"or"}, {"and"}, {"not"}, {"compare"}, {"+", "-"}, {"concat"},
                    {"*", "/", "//", "%"}, {"**"}, {"filter", "test"}, {"neg", "pos"},
                    {"getattr", "getitem", "call"}>>
        at == {i \in DOMAIN levels : node.op \in levels[i]}
    IN  IF node.kids = << >> \/ at = {} THEN 13 ELSE CHOOSE i \in at : TRUE

Join(seqs, separator) ==
    FlattenSeq([i \in DOMAIN seqs |-> (IF i = 1 THEN << >> ELSE separator) \o seqs[i]])

RECURSIVE Written(_)
In(node, level) ==
    IF Precedence(node) >= level THEN Written(node) ELSE <<"(">> \o Written(node) \o <<")">>
List(nodes) == Join([i \in DOMAIN nodes |-> Written(nodes[i])], <<",">>)
Arguments(nodes) == IF nodes = << >> THEN << >> ELSE <<"(">> \o List(nodes) \o <<")">>
From(node, i) == SubSeq(node.kids, i, Len(node.kids))
Subscript(node) ==
    CASE node.op = "slice" ->
             Written(node.kids[1]) \o <<":">> \o Written(node.kids[2]) \o <<":">> \o Written(node.kids[3])
      [] OTHER -> Written(node)

Written(node) ==
    LET kid(i) == node.kids[i]
        n == Len(node.kids)
        level == Precedence(node)
        op == node.op
    IN  CASE node = None -> << >>
          [] op = "tuple" -> <<"(">> \o List(node.kids) \o (IF n = 1 THEN <<",">> ELSE << >>) \o <<")">>
          [] op = "list" -> <<"[">> \o List(node.kids) \o <<"]">>
          [] op = "dict" -> <<"{">> \o List(node.kids) \o <<"}">>
          [] node.kids = << >> -> <<op>>
          [] op = "cond" -> In(kid(1), 2) \o <<"if">> \o In(kid(2), 2) \o
                 (IF kid(3) = None THEN << >> ELSE <<"else">> \o In(kid(3), 1))
          [] op \in UNION {Binary[r].ops : r \in DOMAIN Binary} /\ n = 2 ->
                 In(kid(1), level) \o <<op>> \o In(kid(2), level + 1)
          [] op = "not" -> <<"not">> \o In(kid(1), 4)
          [] op = "compare" ->
                 In(kid(1), 6) \o FlattenSeq([i \in 1 .. n - 1 |->
                     (IF kid(i + 1).op = "notin" THEN <<"not", "in">> ELSE <<kid(i + 1).op>>)
                     \o In(kid(i + 1).kids[1], 6)])
          [] op = "concat" -> Join([i \in 1 .. n |-> In(kid(i), 8)], <<"~">>)
          [] op = "neg" -> <<"-">> \o In(kid(1), 11)
          [] op = "pos" -> <<"+">> \o In(kid(1), 11)
          [] op = "getattr" -> In(kid(1), 12) \o <<".">> \o Written(kid(2))
          [] op = "getitem" -> In(kid(1), 12) \o <<"[">> \o
                 (IF kid(2).op = "tuple" /\ Len(kid(2).kids) # 1
                  THEN Join([i \in DOMAIN kid(2).kids |-> Subscript(kid(2).kids[i])], <<",">>)
                  ELSE Subscript(kid(2))) \o <<"]">>
          [] op = "call" -> In(kid(1), 12) \o <<"(">> \o List(From(node, 2)) \o <<")">>
          [] op = "filter" -> In(kid(1), 10) \o <<"|">> \o Written(kid(2)) \o Arguments(From(node, 3))
          [] op = "test" -> In(kid(1), 10) \o <<"is">> \o Written(kid(2)) \o
                 (IF n = 3 /\ kid(3).op = "arg" /\ Precedence(kid(3).kids[1]) >= 12 /\ Head(Written(kid(3))) # "("
                  THEN Written(kid(3)) ELSE <<"(">> \o List(From(node, 3)) \o <<")">>)
          [] op = "name" -> Join([i \in 1 .. n |-> Written(kid(i))], <<".">>)
          [] op = "nsref" -> Written(kid(1)) \o <<".">> \o Written(kid(2))
          [] op = "string" -> FlattenSeq([i \in 1 .. n |-> Written(kid(i))])
          [] op = "arg" -> Written(kid(1))
          [] op = "keyword" -> Written(kid(1)) \o <<"=">> \o Written(kid(2))
          [] op = "dyn_args" -> <<"*">> \o Written(kid(1))
          [] op = "dyn_kwargs" -> <<"**">> \o Written(kid(1))
          [] op = "pair" -> Written(kid(1)) \o <<":">> \o Written(kid(2))
          [] op = "slice" -> Subscript(node)

-----------------------------------------------------------------------------
(* Tags and their bodies.                                                  *)
Enclosed(tokens) == <<"block_begin">> \o tokens \o <<"block_end">>
Parameter(node) ==
    Written(node.kids[1]) \o (IF Len(node.kids) = 1 THEN << >> ELSE <<"=">> \o Written(node.kids[2]))
Signature(node) ==
    IF node = None THEN << >>
    ELSE <<"(">> \o Join([i \in DOMAIN node.kids |-> Parameter(node.kids[i])], <<",">>) \o <<")">>
Context(leaf) == <<leaf.op, "context">>

RECURSIVE WrittenBody(_), WrittenParts(_, _)
(* The nodes of a statement behind its content: bodies, and elif and else. *)
WrittenParts(tag, kids) ==
    IF kids = << >> THEN Enclosed(<<"end" \o tag>>)
    ELSE CASE Head(kids).op = "body" -> WrittenBody(Head(kids)) \o WrittenParts(tag, Tail(kids))
           [] Head(kids).op = "elif" ->
                  Enclosed(<<"elif">> \o In(kids[2], 2)) \o WrittenParts(tag, Tail(Tail(kids)))
           [] Head(kids).op = "else" -> Enclosed(<<"else">>) \o WrittenParts(tag, Tail(kids))
WrittenTag(node) ==
    LET kid(i) == node.kids[i]
        n == Len(node.kids)
        bodies == SelectInSeq(node.kids, LAMBDA k : k.op = "body")
        flags(i) == [j \in 1 .. bodies - i |-> kid(i + j - 1).op]
    IN  CASE node.op = "set" ->
               IF bodies = 0 THEN Written(kid(1).kids[1]) \o <<"=">> \o Written(kid(1).kids[2])
               ELSE Written(kid(1)) \o Written(kid(2))
          [] node.op = "for" ->
               Written(kid(1)) \o <<"in">> \o In(kid(2), 2) \o
               (IF kid(3) = None THEN << >> ELSE <<"if">> \o Written(kid(3))) \o flags(4)
          [] node.op = "if" -> In(kid(1), 2)
          [] node.op = "with" ->
               Join([i \in 1 .. (bodies - 1) \div 2 |->
                   Written(kid(2 * i - 1)) \o <<"=">> \o Written(kid(2 * i))], <<",">>)
          [] node.op \in {"autoescape", "extends"} -> Written(kid(1))
          [] node.op = "block" -> flags(1)
          [] node.op = "macro" -> Written(kid(1)) \o Signature(kid(2))
          [] node.op = "call" -> Signature(kid(1)) \o Written(kid(2))
          [] node.op = "filter" -> Tail(Written(kid(1)))
          [] node.op = "include" ->
               Written(kid(1)) \o (IF n = 3 THEN <<"ignore", "missing">> ELSE << >>) \o Context(kid(n))
          [] node.op = "import" -> Written(kid(1)) \o <<"as">> \o Written(kid(2)) \o Context(kid(3))
          [] node.op = "from" ->
               Written(kid(1)) \o <<"import">> \o
               Join([i \in 1 .. n - 2 |-> Join([j \in DOMAIN kid(i + 1).kids |->
                   Written(kid(i + 1).kids[j])], <<"as">>)], <<",">>) \o Context(kid(n))
          [] node.op = "print" -> List(node.kids)
WrittenStatement(node) ==
    LET bodies == SelectInSeq(node.kids, LAMBDA k : k.op = "body")
    IN  Enclosed(<<node.op>> \o WrittenTag(node)) \o
        (IF bodies = 0 THEN << >> ELSE WrittenParts(node.op, From(node, bodies)))
WrittenPiece(node) ==
    IF node.op \in {"data", "blank"} THEN <<node.op>>
    ELSE <<"variable_begin">> \o Written(node) \o <<"variable_end">>
WrittenBody(body) == FlattenSeq([i \in DOMAIN body.kids |->
    IF body.kids[i].op = "output"
    THEN FlattenSeq([j \in DOMAIN body.kids[i].kids |-> WrittenPiece(body.kids[i].kids[j])])
    ELSE WrittenStatement(body.kids[i])])

-----------------------------------------------------------------------------
(* Nothing a template holds is dropped or invented: an accepted template,  *)
(* written again, has as many of every name, literal and operator, and its *)
(* text in the same order. (A block's name in its end tag is repeated.)    *)
Structural == {"(", ")", "[", "]", "{", "}", ",", ":", ".", "block_begin", "block_end"}
Optional == {"with", "without", "context"}
Count(tokens, t) ==
    Cardinality({i \in DOMAIN tokens : tokens[i] = t /\ (i = 1 \/ tokens[i - 1] # "endblock")})
Texts(tokens) == SelectSeq(tokens, LAMBDA t : t \in {"data", "blank", "variable_begin"})
NothingDropped ==
    LET again == WrittenBody(Body(frames[1]))
    IN  Parsed =>
            /\ Texts(again) = Texts(input)
            /\ \A t \in Range(input) \cup Range(again) :
                   t \notin Structural \cup Optional => Count(again, t) = Count(input, t)

(* Reading what was written gives the tree it was written from: operators  *)
(* group as documented, and every optional part of a tag is told from the  *)
(* others. From any other template the parser accepts, nothing is dropped. *)
ReadsWhatIsWritten ==
    /\ tree # << >> => error = NoError /\ (Parsed => Body(frames[1]) = tree[1])
    /\ NothingDropped

(* Whenever the parser stops at an unknown tag or the end of the template, *)
(* it names the innermost tag that is open there, told from the tags alone *)
(* (_fail_ut_eof reads _tag_stack and _end_token_stack).                   *)
IsTag(i) == i < Len(input) /\ input[i] = "block_begin"
Opens(i) == IsTag(i) /\ input[i + 1] \in DOMAIN EndTokens
            /\ ~(input[i + 1] = "set" /\ input[i + 3] = "=")
Closes(i) == IsTag(i) /\ \E t \in DOMAIN EndTokens : input[i + 1] = "end" \o t
Many(P(_), i, j) == Len(SelectSeq([k \in 1 .. j - i |-> P(i + k - 1)], LAMBDA b : b))
Unclosed == {i \in 1 .. pos - 1 : Opens(i) /\ \A j \in i + 1 .. pos : Many(Closes, i, j) < Many(Opens, i, j)}
InnermostNamed ==
    error.message \in {"unknown tag", "nesting mistake", "Unexpected end of template"} =>
        error.innermost = IF Unclosed = {} THEN ""
                          ELSE input[1 + CHOOSE i \in Unclosed : \A j \in Unclosed : j <= i]

TypeOK ==
    /\ pos \in 1 .. Len(input) + 1
    /\ frames # << >> /\ frames[1].tag = "template"
    /\ \A i \in 2 .. Len(frames) : frames[i].tag \in DOMAIN EndTokens
                                   /\ frames[i].end_tokens \in SUBSET EndTokens[frames[i].tag] \ {{}}
=============================================================================
