------------------------- MODULE ParserExpressions -------------------------
(* The expression half of parser.py: Parse(rule, p) is what parse_<rule>   *)
(* makes of the tokens that start at place p. The result is the place      *)
(* behind what was read, 0 after an error, and the nodes that were read.   *)
(* A node is its kind and its children; a name, number or string is a node *)
(* without children.                                                       *)
EXTENDS Integers, SequencesExt

CONSTANT Names  \* the names, keywords included: the lexer knows no keywords
VARIABLE input  \* the tokens

Tok(p) == IF p \in DOMAIN input THEN input[p] ELSE "eof"
Constants == {"true", "none", "1", "'s'"}
Leaf(token) == [op |-> token, kids |-> << >>]
None == Leaf("no value")

Read(p, nodes) == [at |-> p, nodes |-> nodes, error |-> ""]
Fail(message) == [at |-> 0, nodes |-> << >>, error |-> message]
Node(kind, r) == IF r.at = 0 THEN r ELSE Read(r.at, <<[op |-> kind, kids |-> r.nodes]>>)
Expect(token, p) == IF Tok(p) = token THEN Read(p + 1, << >>) ELSE Fail("expected")
ExpectName(p) == IF Tok(p) \in Names THEN Read(p + 1, <<Leaf(Tok(p))>>) ELSE Fail("expected")

RECURSIVE Parse(_, _)
(* What r has read, and behind it what s has, or a rule reads, or a token. *)
Both(r, s) == IF r.at = 0 THEN r ELSE IF s.at = 0 THEN s ELSE Read(s.at, r.nodes \o s.nodes)
Then(r, rule) == Both(r, Parse(rule, r.at))
ThenExpect(r, token) == Both(r, Expect(token, r.at))

(* Items of a rule up to a closing token, with commas between them and,    *)
(* where trailing, perhaps behind the last one.                            *)
RECURSIVE Items(_, _, _, _, _)
Separated(r, n) == IF n = 0 THEN r ELSE ThenExpect(r, ",")
FurtherItem(r, n, rule, close, trailing) ==
    IF r.at # 0 /\ n # 0 /\ trailing /\ Tok(r.at) = close THEN Read(r.at + 1, r.nodes)
    ELSE Items(Then(r, rule), n + 1, rule, close, trailing)
Items(r, n, rule, close, trailing) ==
    IF r.at = 0 THEN r
    ELSE IF Tok(r.at) = close THEN Read(r.at + 1, r.nodes)
    ELSE FurtherItem(Separated(r, n), n, rule, close, trailing)

-----------------------------------------------------------------------------
(* The binary operators, from the loosest to the tightest: all of them,    *)
(* pow too, are grouped from the left.                                     *)
Binary == [or    |-> [ops |-> {"or"}, operand |-> "and"],
           and   |-> [ops |-> {"and"}, operand |-> "not"],
           math1 |-> [ops |-> {"+", "-"}, operand |-> "concat"],
           math2 |-> [ops |-> {"*", "/", "//", "%"}, operand |-> "pow"],
           pow   |-> [ops |-> {"**"}, operand |-> "unary"]]
compare_operators == {"==", "!=", "<", "<=", ">", ">="}

RECURSIVE parse_binary(_, _), parse_condexpr(_), CompareOps(_), ConcatArgs(_)
parse_binary(left, rule) ==
    IF left.at = 0 \/ Tok(left.at) \notin Binary[rule].ops THEN left
    ELSE parse_binary(Node(Tok(left.at), Then(Read(left.at + 1, left.nodes), Binary[rule].operand)), rule)

(* A conditional expression without else may be followed by another if.    *)
parse_condexpr(r) ==
    IF r.at = 0 \/ Tok(r.at) # "if" THEN r
    ELSE LET otherwise(test) == IF test.at # 0 /\ Tok(test.at) = "else"
                                THEN Then(Read(test.at + 1, test.nodes), "condexpr")
                                ELSE [test EXCEPT !.nodes = Append(@, None)]
         IN  parse_condexpr(Node("cond", otherwise(Then(Read(r.at + 1, r.nodes), "or"))))

parse_not(p) == IF Tok(p) = "not" THEN Node("not", Parse("not", p + 1)) ELSE Parse("compare", p)

CompareOps(r) ==
    LET op(kind, p) == CompareOps(Both(r, Node(kind, Parse("math1", p))))
    IN  IF r.at = 0 THEN r
        ELSE CASE Tok(r.at) \in compare_operators \cup {"in"} -> op(Tok(r.at), r.at + 1)
               [] Tok(r.at) = "not" /\ Tok(r.at + 1) = "in" -> op("notin", r.at + 2)
               [] OTHER -> r
NodeOfMany(kind, r) == IF Len(r.nodes) = 1 THEN r ELSE Node(kind, r)
parse_compare(p) == NodeOfMany("compare", CompareOps(Parse("math1", p)))

ConcatArgs(r) ==
    IF r.at = 0 \/ Tok(r.at) # "~" THEN r ELSE ConcatArgs(Then(Read(r.at + 1, r.nodes), "math2"))
parse_concat(p) == NodeOfMany("concat", ConcatArgs(Parse("math2", p)))

-----------------------------------------------------------------------------
(* A sign takes attributes, subscripts and calls with it, but no filter or *)
(* test: those apply to the signed value.                                  *)
RECURSIVE parse_postfix(_), parse_filter_expr(_), Strings(_), Dotted(_)
parse_unary(p, with_filter) ==
    LET node == parse_postfix(CASE Tok(p) = "-" -> Node("neg", Parse("unary_without_filter", p + 1))
                                [] Tok(p) = "+" -> Node("pos", Parse("unary_without_filter", p + 1))
                                [] OTHER -> Parse("primary", p))
    IN  IF with_filter THEN parse_filter_expr(node) ELSE node

(* Adjacent strings are one constant.                                      *)
Strings(r) == IF Tok(r.at) # "'s'" THEN r ELSE Strings(Read(r.at + 1, Append(r.nodes, Leaf("'s'"))))

parse_primary(p, with_namespace) ==
    CASE Tok(p) \in Names ->
            IF with_namespace /\ Tok(p) \notin Constants /\ Tok(p + 1) = "."
            THEN LET attr == ExpectName(p + 2)
                 IN  Node("nsref", [attr EXCEPT !.nodes = <<Leaf(Tok(p))>> \o @])
            ELSE Read(p + 1, <<Leaf(Tok(p))>>)
      [] Tok(p) = "'s'" -> Node("string", Strings(Read(p, << >>)))
      [] Tok(p) = "1" -> Read(p + 1, <<Leaf("1")>>)
      [] Tok(p) = "(" -> ThenExpect(Parse("tuple_in_parentheses", p + 1), ")")
      [] Tok(p) = "[" -> Node("list", Items(Read(p + 1, << >>), 0, "condexpr", "]", TRUE))
      [] Tok(p) = "{" -> Node("dict", Items(Read(p + 1, << >>), 0, "pair", "}", TRUE))
      [] OTHER -> Fail("unexpected")

parse_pair(p) == Node("pair", Then(ThenExpect(Parse("condexpr", p), ":"), "condexpr"))

(* Expressions separated by commas are a tuple, one without a comma is     *)
(* itself, none is the empty tuple only in parentheses.                    *)
RECURSIVE TupleItems(_, _, _, _)
TupleItem(r, rule, ends, is_tuple) ==
    LET behind(s) == IF s.at # 0 /\ Tok(s.at) = "," THEN TupleItems(s, rule, ends, TRUE)
                     ELSE [r |-> s, is_tuple |-> is_tuple]
    IN  IF r.at = 0 THEN [r |-> r, is_tuple |-> FALSE]
        ELSE IF Tok(r.at) \in ends THEN [r |-> r, is_tuple |-> is_tuple]
        ELSE behind(Then(r, rule))
TupleItems(r, rule, ends, is_tuple) ==
    TupleItem(IF r.nodes = << >> THEN r ELSE ThenExpect(r, ","), rule, ends, is_tuple)
parse_tuple(p, rule, extra_end_rules, explicit_parentheses) ==
    LET made(t) == IF t.r.at = 0 \/ (~t.is_tuple /\ t.r.nodes # << >>) THEN t.r
                   ELSE IF t.is_tuple \/ explicit_parentheses THEN Node("tuple", t.r)
                   ELSE Fail("Expected an expression")
    IN  made(TupleItems(Read(p, << >>), rule, {"variable_end", "block_end", ")"} \cup extra_end_rules, FALSE))

-----------------------------------------------------------------------------
(* Subscripts: one part is the subscript, several (or none) are a tuple. A *)
(* slice has three parts, each of which may be missing.                    *)
parse_subscribed(p) ==
    LET part(r, ends) ==
            IF r.at = 0 THEN r
            ELSE IF Tok(r.at) \in ends THEN [r EXCEPT !.nodes = Append(@, None)]
            ELSE Then(r, "condexpr")
        step(r) == IF r.at # 0 /\ Tok(r.at) = ":" THEN part([r EXCEPT !.at = @ + 1], {"]", ","})
                   ELSE [r EXCEPT !.nodes = Append(@, None)]
        slice(r) == IF r.at = 0 \/ Tok(r.at) # ":" THEN r
                    ELSE Node("slice", step(part([r EXCEPT !.at = @ + 1], {":", "]", ","})))
    IN  slice(part(Read(p, << >>), {":"}))

parse_subscript(r) ==
    LET base == Head(r.nodes)
        arg(nodes) == IF Len(nodes) = 1 THEN nodes[1] ELSE [op |-> "tuple", kids |-> nodes]
    IN  CASE Tok(r.at) = "[" ->
               Node("getitem", [Items(Read(r.at + 1, << >>), 0, "subscribed", "]", FALSE)
                                    EXCEPT !.nodes = <<base, arg(@)>>])
          [] Tok(r.at + 1) \in Names -> Node("getattr", Read(r.at + 2, <<base, Leaf(Tok(r.at + 1))>>))
          [] Tok(r.at + 1) = "1" -> Node("getitem", Read(r.at + 2, <<base, Leaf("1")>>))
          [] OTHER -> Fail("expected name or number")

(* Arguments: positional ones come first; nothing but keywords and one     *)
(* mapping may follow a sequence, and nothing but that follows a mapping.  *)
(* The call holds them by kind, not in the order they are written.         *)
Kinds == <<"arg", "keyword", "dyn_args", "dyn_kwargs">>
parse_call_arg(p) ==
    CASE Tok(p) = "*" -> Node("dyn_args", Parse("condexpr", p + 1))
      [] Tok(p) = "**" -> Node("dyn_kwargs", Parse("condexpr", p + 1))
      [] Tok(p) \in Names /\ Tok(p + 1) = "=" ->
             Node("keyword", Then(Read(p + 2, <<Leaf(Tok(p))>>), "condexpr"))
      [] OTHER -> Node("arg", Parse("condexpr", p))
ArgumentsOk(args) ==
    \A i, j \in DOMAIN args : i < j =>
        CASE args[j].op = "arg" -> args[i].op = "arg"
          [] args[j].op = "keyword" -> args[i].op # "dyn_kwargs"
          [] args[j].op = "dyn_args" -> args[i].op \notin {"dyn_args", "dyn_kwargs"}
          [] args[j].op = "dyn_kwargs" -> args[i].op # "dyn_kwargs"
Sorted(r) ==
    LET ofKind(kind) == SelectSeq(r.nodes, LAMBDA n : n.op = kind)
    IN  IF r.at = 0 THEN r
        ELSE IF ~ArgumentsOk(r.nodes) THEN Fail("invalid syntax for function call expression")
        ELSE [r EXCEPT !.nodes = FlattenSeq([k \in 1 .. 4 |-> ofKind(Kinds[k])])]
parse_call_args(p) == Sorted(Items(Read(p + 1, << >>), 0, "call_arg", ")", TRUE))
WithArgs(kind, r) == Node(kind, IF Tok(r.at) # "(" THEN r ELSE Both(r, parse_call_args(r.at)))
parse_call(r) == WithArgs("call", r)

parse_postfix(r) ==
    IF r.at = 0 THEN r
    ELSE CASE Tok(r.at) \in {".", "["} -> parse_postfix(parse_subscript(r))
           [] Tok(r.at) = "(" -> parse_postfix(parse_call(r))
           [] OTHER -> r

(* Names of filters and tests may be dotted.                               *)
Dotted(r) ==
    IF r.at = 0 \/ Tok(r.at) # "." THEN r
    ELSE Dotted(Both(r, ExpectName(r.at + 1)))
Named(r, p) == Both(r, Node("name", Dotted(ExpectName(p))))

parse_filter(r) == WithArgs("filter", Named(r, r.at + 1))

(* The argument of a test needs no parentheses: whatever name, literal or  *)
(* bracket comes next is one, unless it is else, or, and.                  *)
BareArgument(t) ==
    IF Tok(t.at) = "is" THEN Fail("You cannot chain multiple tests with is")
    ELSE Node("test", Both(t, Node("arg", parse_postfix(parse_primary(t.at, FALSE)))))
TestArguments(t) ==
    IF Tok(t.at) \in (Names \cup {"'s'", "1", "[", "{"}) \ {"else", "or", "and"}
    THEN BareArgument(t) ELSE WithArgs("test", t)
parse_test(r) ==
    IF Tok(r.at + 1) = "not" THEN Node("not", TestArguments(Named(r, r.at + 2)))
    ELSE TestArguments(Named(r, r.at + 1))

parse_filter_expr(r) ==
    IF r.at = 0 THEN r
    ELSE CASE Tok(r.at) = "|" -> parse_filter_expr(parse_filter(r))
           [] Tok(r.at) = "is" -> parse_filter_expr(parse_test(r))
           [] Tok(r.at) = "(" -> parse_filter_expr(parse_call(r))
           [] OTHER -> r

-----------------------------------------------------------------------------
Parse(rule, p) ==
    CASE rule = "condexpr" -> parse_condexpr(Parse("or", p))
      [] rule \in DOMAIN Binary -> parse_binary(Parse(Binary[rule].operand, p), rule)
      [] rule = "not" -> parse_not(p)
      [] rule = "compare" -> parse_compare(p)
      [] rule = "concat" -> parse_concat(p)
      [] rule = "unary" -> parse_unary(p, TRUE)
      [] rule = "unary_without_filter" -> parse_unary(p, FALSE)
      [] rule = "primary" -> parse_primary(p, FALSE)
      [] rule = "primary_with_namespace" -> parse_primary(p, TRUE)
      [] rule = "pair" -> parse_pair(p)
      [] rule = "subscribed" -> parse_subscribed(p)
      [] rule = "call_arg" -> parse_call_arg(p)
      [] rule = "tuple" -> parse_tuple(p, "condexpr", {}, FALSE)
      [] rule = "tuple_in_parentheses" -> parse_tuple(p, "condexpr", {}, TRUE)
      [] rule = "for_iter" -> parse_tuple(p, "or", {"recursive"}, FALSE)
      [] rule = "if_test" -> parse_tuple(p, "or", {}, FALSE)
      [] rule = "target" -> parse_tuple(p, "primary", {}, FALSE)
      [] rule = "for_target" -> parse_tuple(p, "primary", {"in"}, FALSE)
      [] rule = "set_target" -> parse_tuple(p, "primary_with_namespace", {}, FALSE)

(* Assignment targets: names, namespace attributes (of set) and tuples.    *)
RECURSIVE can_assign(_)
can_assign(node) ==
    \/ node.kids = << >> /\ node.op \in Names \ Constants
    \/ node.op = "nsref"
    \/ node.op = "tuple" /\ \A i \in DOMAIN node.kids : can_assign(node.kids[i])
parse_assign_target(rule, p) ==
    LET checked(r) == IF r.at # 0 /\ ~can_assign(Head(r.nodes)) THEN Fail("can't assign") ELSE r
    IN  checked(Parse(rule, p))
=============================================================================
