------------------------------- MODULE Parser -------------------------------
(* The statement half of parser.py. The calls of parse_statement and       *)
(* subparse that have not returned are the frames of a stack; one step is  *)
(* one turn of the loop in subparse, which reads one piece of the template *)
(* or one tag, or the return of a statement at its end tag.                *)
EXTENDS ParserExpressions

VARIABLES pos,
          frames, \* tag, end_tokens, nodes (the statement's so far), body, data_buffer
          error   \* [message, looking, innermost] of the TemplateSyntaxError
parser_vars == <<input, pos, frames, error>>

NoError == [message |-> "", looking |-> {}, innermost |-> ""]
Top == Last(frames)
Frame(tag, end_tokens, nodes) ==
    [tag |-> tag, end_tokens |-> end_tokens, nodes |-> nodes, body |-> << >>, data_buffer |-> << >>]

SkipIf(r, token) ==
    IF r.at # 0 /\ Tok(r.at) = token THEN Read(r.at + 1, Append(r.nodes, Leaf(token))) ELSE r
Target(r, rule) == Both(r, parse_assign_target(rule, r.at))
Name(r) == Both(r, IF Tok(r.at) \in Names \cap Constants THEN Fail("can't assign") ELSE ExpectName(r.at))

-----------------------------------------------------------------------------
(* What a tag holds behind its name. Filters without a value are applied   *)
(* to the body.                                                            *)
RECURSIVE Filters(_), WithItems(_, _), FromNames(_, _), Parameters(_, _, _)
Filters(r) ==
    IF r.at = 0 \/ Tok(r.at) # "|" THEN r ELSE Filters(parse_filter(r))
InlineFilter(p) ==
    Filters(WithArgs("filter", Named(Read(p, <<None>>), p)))

parse_set(p) ==
    LET behind(target) ==
            IF target.at # 0 /\ Tok(target.at) = "="
            THEN Node("assign", Then(Read(target.at + 1, target.nodes), "tuple"))
            ELSE Both(target, Filters(Read(target.at, <<None>>)))
    IN  behind(parse_assign_target("set_target", p))

parse_for(p) ==
    LET test(iter) == IF iter.at # 0 /\ Tok(iter.at) = "if"
                      THEN Then(Read(iter.at + 1, iter.nodes), "condexpr")
                      ELSE [iter EXCEPT !.nodes = Append(@, None)]
    IN  SkipIf(test(Then(ThenExpect(parse_assign_target("for_target", p), "in"), "for_iter")), "recursive")

WithItems(r, n) ==
    IF r.at = 0 \/ Tok(r.at) = "block_end" THEN r
    ELSE WithItems(Then(ThenExpect(Target(Separated(r, n), "target"), "="), "condexpr"), n + 1)

parse_block(p) ==
    LET r == SkipIf(SkipIf(ExpectName(p), "scoped"), "required")
    IN  IF r.at # 0 /\ Tok(r.at) = "-" THEN Fail("Block names may not contain hyphens") ELSE r

(* Parameters that have no default come before those that have one.        *)
NextParameter(r, n, defaults, name) ==
    IF name.at # 0 /\ Tok(name.at) = "="
    THEN Parameters(Both(r, Node("param", Then(Read(name.at + 1, name.nodes), "condexpr"))), n + 1, TRUE)
    ELSE IF name.at # 0 /\ defaults THEN Fail("non-default argument follows default argument")
    ELSE Parameters(Both(r, Node("param", name)), n + 1, FALSE)
Parameters(r, n, defaults) ==
    LET next(q) == NextParameter(q, n, defaults, IF q.at = 0 THEN q ELSE Name(Read(q.at, << >>)))
    IN  IF r.at = 0 THEN r
        ELSE IF Tok(r.at) = ")" THEN Read(r.at + 1, r.nodes)
        ELSE next(Separated(r, n))
parse_signature(r) == IF r.at = 0 THEN r ELSE Node("signature", Parameters(Expect("(", r.at), 0, FALSE))
parse_macro(p) ==
    LET signed(name) == Both(name, parse_signature(Read(name.at, << >>))) IN signed(Name(Read(p, << >>)))
parse_call_block(p) ==
    LET checked(r) == IF r.at # 0 /\ Last(r.nodes).op # "call" THEN Fail("expected call") ELSE r
    IN  checked(Then(IF Tok(p) = "(" THEN parse_signature(Read(p, << >>)) ELSE Read(p, <<None>>), "condexpr"))

(* The context an include or import gets; only "with" or "without"         *)
(* followed by "context" is about it.                                      *)
HasContext(p) == Tok(p) \in {"with", "without"} /\ Tok(p + 1) = "context"
parse_import_context_default(r, default) ==  \* mutated: the default whatever is written
    LET given == r.at # 0 /\ HasContext(r.at)
    IN  [r EXCEPT !.nodes = Append(@, Leaf(default)), !.at = IF given THEN @ + 2 ELSE @]
parse_import_context(r, default) ==
    IF r.at # 0 /\ HasContext(r.at)
    THEN Read(r.at + 2, Append(r.nodes, Leaf(Tok(r.at))))
    ELSE [r EXCEPT !.nodes = Append(@, Leaf(default))]
parse_include(p) ==
    LET missing(r) == IF r.at # 0 /\ Tok(r.at) = "ignore" /\ Tok(r.at + 1) = "missing"
                      THEN Read(r.at + 2, Append(r.nodes, Leaf("ignore"))) ELSE r
    IN  parse_import_context(missing(Parse("condexpr", p)), "with")
parse_import(p) ==
    parse_import_context(Name(ThenExpect(Parse("condexpr", p), "as")), "without")

(* A name of the list, perhaps under another name. *)
FromName(r) ==
    LET renamed(name) == IF name.at # 0 /\ Tok(name.at) = "as" THEN Name(Read(name.at + 1, name.nodes)) ELSE name
    IN  IF Tok(r.at) = "_x" THEN Fail("names starting with an underline can not be imported")
        ELSE Both(r, Node("name", renamed(Name(Read(r.at, << >>)))))
FromNames(r, n) ==
    LET further(q) == IF q.at = 0 \/ HasContext(q.at) \/ Tok(q.at) # "," THEN q ELSE FromNames(q, n + 1)
        named(q) == IF q.at = 0 \/ HasContext(q.at) THEN q ELSE further(FromName(q))
    IN  named(Separated(r, n))
parse_from(p) ==
    parse_import_context(FromNames(ThenExpect(Parse("condexpr", p), "import"), 0), "without")

RECURSIVE PrintItems(_, _)
PrintItems(r, n) ==
    IF r.at = 0 \/ Tok(r.at) = "block_end" THEN r
    ELSE PrintItems(Then(Separated(r, n), "condexpr"), n + 1)

-----------------------------------------------------------------------------
(* The tags: what they hold, and for those with a body where it may end.   *)
Content(tag, p) ==
    CASE tag = "set" -> parse_set(p)
      [] tag = "for" -> parse_for(p)
      [] tag \in {"if", "elif"} -> Parse("if_test", p)
      [] tag = "with" -> WithItems(Read(p, << >>), 0)
      [] tag = "autoescape" -> Parse("condexpr", p)
      [] tag = "block" -> parse_block(p)
      [] tag = "macro" -> parse_macro(p)
      [] tag = "call" -> parse_call_block(p)
      [] tag = "filter" -> InlineFilter(p)
      [] tag = "extends" -> Parse("condexpr", p)
      [] tag = "include" -> parse_include(p)
      [] tag = "import" -> parse_import(p)
      [] tag = "from" -> parse_from(p)
      [] tag = "print" -> PrintItems(Read(p, << >>), 0)
EndTokens == [set |-> {"endset"}, for |-> {"endfor", "else"}, if |-> {"elif", "else", "endif"},
              with |-> {"endwith"}, autoescape |-> {"endautoescape"}, block |-> {"endblock"},
              macro |-> {"endmacro"}, call |-> {"endcall"}, filter |-> {"endfilter"}]
Tags == DOMAIN EndTokens \cup {"extends", "include", "import", "from", "print"}
HasBody(tag, content) ==
    tag \in DOMAIN EndTokens /\ ~(tag = "set" /\ content.nodes[1].op = "assign")

(* flush_data: text and expressions in a row are one Output node.          *)
flush_data(frame) ==
    IF frame.data_buffer = << >> THEN frame
    ELSE [frame EXCEPT !.data_buffer = << >>,
                       !.body = Append(@, [op |-> "output", kids |-> frame.data_buffer])]
Put(frame, node) == [flush_data(frame) EXCEPT !.body = Append(@, node)]
Body(frame) == [op |-> "body", kids |-> flush_data(frame).body]

Go(p, stack) == pos' = p /\ frames' = stack /\ UNCHANGED <<input, error>>
Error(message) ==
    /\ error' = [message |-> message, looking |-> {}, innermost |-> ""]
    /\ UNCHANGED <<input, pos, frames>>
_fail_ut_eof_outermost(message) ==  \* mutated: looks at the bottom of the stack
    /\ error' = [message |-> message, looking |-> Top.end_tokens,
                 innermost |-> IF Len(frames) = 1 THEN "" ELSE frames[2].tag]
    /\ UNCHANGED <<input, pos, frames>>
_fail_ut_eof(message) ==
    /\ error' = [message |-> message, looking |-> Top.end_tokens,
                 innermost |-> IF Len(frames) = 1 THEN "" ELSE Top.tag]
    /\ UNCHANGED <<input, pos, frames>>
Running == error = NoError /\ frames # << >> /\ ~(Len(frames) = 1 /\ Tok(pos) = "eof")

Data ==
    /\ Running /\ Tok(pos) \in {"data", "blank"}
    /\ Go(pos + 1, [frames EXCEPT ![Len(frames)].data_buffer = Append(@, Leaf(Tok(pos)))])

Variable ==
    /\ Running /\ Tok(pos) = "variable_begin"
    /\ \E r \in {ThenExpect(Parse("tuple", pos + 1), "variable_end")} :
           IF r.at = 0 THEN Error(r.error)
           ELSE Go(r.at, [frames EXCEPT ![Len(frames)].data_buffer = Append(@, Head(r.nodes))])

(* The tag at pos, whose name the parser looks at before anything else.    *)
Tag == IF Tok(pos) = "block_begin" THEN Tok(pos + 1) ELSE ""
AtEndTag == Tag \in Top.end_tokens
Held == Content(Tag, pos + 2)
BodyStart(r) == ThenExpect(IF r.at # 0 /\ Tok(r.at) = ":" THEN [r EXCEPT !.at = @ + 1] ELSE r, "block_end")

SimpleTag ==
    /\ Running /\ Tag \in Tags /\ ~AtEndTag
    /\ \E held \in {Held} :
           /\ held.at # 0 /\ ~HasBody(Tag, held)
           /\ IF Tok(held.at) # "block_end" THEN Error("expected")
              ELSE Go(held.at + 1, Append(Front(frames), Put(Top, [op |-> Tag, kids |-> held.nodes])))

Began(tag, held, start) ==
    IF start.at = 0 THEN Error(start.error)
    ELSE Go(start.at, Append(Append(Front(frames), flush_data(Top)), Frame(tag, EndTokens[tag], held.nodes)))
BeginTag ==
    /\ Running /\ Tag \in Tags /\ ~AtEndTag
    /\ \E held \in {Held} : held.at # 0 /\ HasBody(Tag, held) /\ Began(Tag, held, BodyStart(held))

BadTag ==
    /\ Running /\ Tag \in Tags /\ ~AtEndTag
    /\ \E held \in {Held} : held.at = 0 /\ Error(held.error)

HeldByBody == IF Tag = "elif" THEN Held ELSE Read(pos + 2, << >>)
Continued(held, ends) ==
    LET start == BodyStart(held)
        nodes == Top.nodes \o <<Body(Top), Leaf(Tag)>> \o held.nodes
    IN  IF start.at = 0 THEN Error(start.error)
        ELSE Go(start.at, Append(Front(frames), Frame(Top.tag, ends, nodes)))
NextBodyOfIf ==  \* mutated: else is only ended by endif
    /\ Running /\ AtEndTag /\ Tag \in {"elif", "else"}
    /\ \E held \in {HeldByBody} : Continued(held, IF Tag = "elif" THEN Top.end_tokens ELSE {"endif"})
(* elif and else go on with another body of the same statement.            *)
NextBody ==
    /\ Running /\ AtEndTag /\ Tag \in {"elif", "else"}
    /\ \E held \in {HeldByBody} :
           Continued(held, IF Tag = "elif" THEN Top.end_tokens ELSE EndTokens[Top.tag] \ {"elif", "else"})

(* A block may repeat its name in its end tag; the body of a required one  *)
(* may only hold blank text.                                               *)
Required == Top.tag = "block" /\ Leaf("required") \in Range(Tail(Top.nodes))
Blank(body) == \A i \in DOMAIN body.kids :
    body.kids[i].op = "output" /\ \A j \in DOMAIN body.kids[i].kids : body.kids[i].kids[j].op = "blank"
EndTag ==
    /\ Running /\ AtEndTag /\ Tag \notin {"elif", "else"}
    /\ LET named == Top.tag = "block" /\ Tok(pos + 2) = Top.nodes[1].op
           end == Expect("block_end", pos + (IF named THEN 3 ELSE 2))
           node == [op |-> Top.tag, kids |-> Append(Top.nodes, Body(Top))]
           outer == Front(frames)
       IN  IF Required /\ ~Blank(Body(Top))
           THEN Error("Required blocks can only contain comments or whitespace")
           ELSE IF end.at = 0 THEN Error(end.error)
           ELSE Go(end.at, Append(Front(outer), Put(Last(outer), node)))

(* A tag nobody expects, or the end of the template inside a statement:    *)
(* the message names what the innermost open statement looks for.          *)
UnknownTag ==
    /\ Running /\ Tok(pos) = "block_begin" /\ ~AtEndTag /\ Tag \notin Tags
    /\ IF Tag \in Names
       THEN _fail_ut_eof(IF \E i \in DOMAIN frames : Tag \in frames[i].end_tokens
                         THEN "nesting mistake" ELSE "unknown tag")
       ELSE Error("tag name expected")
UnexpectedEnd ==
    /\ error = NoError /\ Len(frames) > 1 /\ Tok(pos) = "eof"
    /\ _fail_ut_eof("Unexpected end of template")

Start(tokens) ==
    /\ input = tokens /\ pos = 1 /\ error = NoError
    /\ frames = <<Frame("template", {}, << >>)>>
Next == \/ Data \/ Variable \/ SimpleTag \/ BeginTag \/ BadTag \/ NextBody \/ EndTag
        \/ UnknownTag \/ UnexpectedEnd
Parsed == error = NoError /\ Len(frames) = 1 /\ Tok(pos) = "eof"
=============================================================================
