---------------------------- MODULE Expressions ----------------------------
(* What an expression is worth: folded while the template is compiled      *)
(* (as_const of nodes.py, Optimizer of optimizer.py), and computed by the  *)
(* generated code (the expression visitors of compiler.py) when it is not. *)
(* A string is a sequence of characters; "<" stands for what escape        *)
(* replaces and "&lt;" for what it puts there.                             *)
(* The context of running code has the autoescape of its eval context and  *)
(* the variables of the template.                                          *)
EXTENDS Integers, SequencesExt

(* Values: their type, their text, and the items of a list.                *)
Value(type, text) == [type |-> type, text |-> text, items |-> << >>]
Str(text) == Value("str", text)
Markup(text) == Value("Markup", text)
Bool(b) == Value("bool", IF b THEN <<"True">> ELSE <<"False">>)
ListOf(items) == [type |-> "list", text |-> << >>, items |-> items]
undefined == Value("Undefined", << >>)
error == Value("error", << >>)            \* an exception
Impossible == Value("Impossible", << >>)  \* cannot be folded

IsText(v) == v.type \in {"str", "Markup"}
Fails(v) == v.type \in {"error", "Impossible"}
Truth(v) == CASE v.type = "list" -> v.items # << >>
              [] v.type \in {"Undefined", "none"} -> FALSE
              [] IsText(v) -> v.text # << >>
              [] OTHER -> v.text \notin {<<"0">>, <<"False">>}

EscapeChar(c) == CASE c = "<" -> "&lt;" [] c = "&lt;" -> "&amp;lt;" [] OTHER -> c
escape(v) == IF v.type = "Markup" THEN v ELSE Markup([i \in DOMAIN v.text |-> EscapeChar(v.text[i])])
Concat(values) == FlattenSeq([i \in DOMAIN values |-> values[i].text])
str_join(values) == Str(Concat(values))
markup_join(values) ==
    IF \E i \in DOMAIN values : values[i].type = "Markup"
    THEN Markup(Concat([i \in DOMAIN values |-> escape(values[i])]))
    ELSE str_join(values)

-----------------------------------------------------------------------------
(* Operations on values. Joining an eval context filter: it reads the      *)
(* context's autoescape when it is called.                                 *)
Add(a, b) ==
    CASE ~IsText(a) \/ ~IsText(b) -> error
      [] "Markup" \in {a.type, b.type} -> Markup(escape(a).text \o escape(b).text)
      [] OTHER -> Str(a.text \o b.text)
Upper(c) == CASE c = "a" -> "A" [] c = "&lt;" -> "&LT;" [] c = "True" -> "TRUE" [] c = "False" -> "FALSE"
              [] c = "None" -> "NONE" [] OTHER -> c
Items(v) == IF v.type = "list" THEN v.items ELSE [i \in DOMAIN v.text |-> Str(<<v.text[i]>>)]
CallFilter(name, v, context) ==
    CASE name = "safe" -> Markup(v.text)
      [] name = "escape" -> escape(v)
      [] name = "upper" -> [v EXCEPT !.text = [i \in DOMAIN v.text |-> Upper(v.text[i])],
                                     !.type = IF @ = "Markup" THEN @ ELSE "str"]
      [] name = "join" -> IF v.type \notin {"list", "str", "Markup", "Undefined"} THEN error
                          ELSE IF context.autoescape THEN markup_join(Items(v)) ELSE str_join(Items(v))
      [] name = "from_context" -> context.variables["x"]
CallTest(name, v) ==
    CASE name = "defined" -> Bool(v.type # "Undefined")
      [] name = "string" -> Bool(IsText(v))
pass_context == {"from_context"}
getitem(v, i) ==
    IF v.type # "list" THEN undefined
    ELSE CASE i.text = <<"0">> /\ v.items # << >> -> v.items[1]
           [] i.text = <<"1">> /\ Len(v.items) > 1 -> v.items[2]
           [] OTHER -> undefined
Same(a, b) == IF IsText(a) /\ IsText(b) THEN a.text = b.text ELSE a = b
CompareOp(op, a, b) ==
    CASE op = "==" -> Bool(Same(a, b))
      [] op = "in" -> IF b.type # "list" THEN error
                      ELSE Bool(\E i \in DOMAIN b.items : Same(a, b.items[i]))

(* A node is its operator, a name (of a variable, filter, test, constant,  *)
(* comparison) and its operands. Strict operators take all their operands  *)
(* first; the others decide with the operands they have which to take.     *)
Constants == [lt |-> Str(<<"<">>), a |-> Str(<<"a">>), empty |-> Str(<< >>), zero |-> Value("int", <<"0">>),
              one |-> Value("int", <<"1">>), true |-> Bool(TRUE), none |-> Value("none", <<"None">>)]
Strict == {"list", "add", "not", "getitem", "filter", "test", "marksafe", "concat"}
Operate(node, values, context) ==
    CASE \E i \in DOMAIN values : Fails(values[i]) ->
             values[CHOOSE i \in DOMAIN values : Fails(values[i]) /\ \A j \in 1 .. i - 1 : ~Fails(values[j])]
      [] node.op = "list" -> ListOf(values)
      [] node.op = "add" -> Add(values[1], values[2])
      [] node.op = "not" -> Bool(~Truth(values[1]))
      [] node.op = "getitem" -> getitem(values[1], values[2])
      [] node.op = "filter" -> CallFilter(node.name, values[1], context)
      [] node.op = "test" -> CallTest(node.name, values[1])
      [] node.op = "marksafe" -> Markup(values[1].text)
      [] node.op = "concat" -> str_join(values)
(* The operators that may leave an operand alone, given what each is worth.*)
Choose(node, value) ==
    LET first == value[1]
    IN  CASE Fails(first) -> first
          [] node.op = "and" -> IF Truth(first) THEN value[2] ELSE first
          [] node.op = "or" -> IF Truth(first) THEN first ELSE value[2]
          [] node.op = "cond" -> IF Truth(first) THEN value[2]
                                 ELSE IF Len(node.kids) = 3 THEN value[3] ELSE undefined
          [] node.op = "compare" ->  \* a chain of two comparisons at most
                LET second == value[2]
                    result == CompareOp(node.name, first, second)
                    third == value[3]
                IN  IF Fails(second) THEN second
                    ELSE IF Len(node.kids) = 2 \/ Fails(result) \/ ~Truth(result) THEN result
                    ELSE IF Fails(third) THEN third ELSE CompareOp(node.name, second, third)

-----------------------------------------------------------------------------
(* as_const: an eval context is what the compiler knows of autoescape, and *)
(* whether that is volatile. Any exception makes a node impossible to fold,*)
(* and so does a filter or test that asks for the context.                 *)
Markup_if(autoescape, v) == IF autoescape /\ ~Fails(v) THEN Markup(v.text) ELSE v
TemplateData_as_const(ctx) == IF ctx.volatile THEN Impossible ELSE Markup_if(ctx.autoescape, Str(<<"<">>))
MarkSafeIfAutoescape_as_const(v, ctx) == IF ctx.volatile THEN Impossible ELSE Markup_if(ctx.autoescape, v)
FilterTest_foldable(node, ctx) == ~ctx.volatile /\ node.name \notin pass_context
CondExpr_without_else(node, test) == Len(node.kids) = 2 /\ ~Fails(test) /\ ~Truth(test)

RECURSIVE as_const(_, _)
as_const(node, ctx) ==
    LET kid(i) == as_const(node.kids[i], ctx)
        value == CASE node.op = "const" -> Constants[node.name]
                   [] node.op = "name" -> Impossible
                   [] node.op = "data" -> TemplateData_as_const(ctx)
                   [] node.op \in {"filter", "test"} /\ ~FilterTest_foldable(node, ctx) -> Impossible
                   [] node.op \in Strict ->
                          Operate(node, [i \in DOMAIN node.kids |-> kid(i)], ctx)
                   [] node.op = "marksafe_if_autoescape" -> MarkSafeIfAutoescape_as_const(kid(1), ctx)
                   [] node.op = "cond" /\ CondExpr_without_else(node, kid(1)) -> Impossible
                   [] OTHER -> Choose(node, [i \in DOMAIN node.kids |-> kid(i)])
    IN  IF Fails(value) THEN Impossible ELSE value

(* Only values with a representation in source code take a node's place,   *)
(* and none does in a volatile context.                                    *)
RECURSIVE has_safe_repr(_)
has_safe_repr(v) ==
    /\ v.type \notin {"Undefined", "error", "Impossible"}
    /\ \A i \in DOMAIN v.items : has_safe_repr(v.items[i])
optimizeconst(node, ctx) ==
    IF ctx.optimized /\ ~ctx.volatile /\ has_safe_repr(as_const(node, ctx)) THEN as_const(node, ctx) ELSE Impossible

(* The value the code of a node computes. ctx is the compiler's eval       *)
(* context; the one of the running code is never volatile.                 *)
visit_TemplateData(context) == Markup_if(context.autoescape, Str(<<"<">>))
visit_Concat(node, kids, ctx, context) ==
    IF \E i \in DOMAIN kids : Fails(kids[i]) THEN error
    ELSE IF ~ctx.volatile /\ ctx.autoescape THEN markup_join(kids) ELSE Operate(node, kids, context)
RECURSIVE visit(_, _, _)
visit(node, ctx, context) ==
    LET folded == optimizeconst(node, ctx)
        kid(i) == visit(node.kids[i], ctx, context)
        kids == [i \in DOMAIN node.kids |-> kid(i)]
    IN  CASE node.op = "const" -> Constants[node.name]
          [] node.op = "name" -> context.variables[node.name]
          [] node.op = "data" -> visit_TemplateData(context)
          [] ~Fails(folded) -> folded
          [] node.op = "concat" -> visit_Concat(node, kids, ctx, context)
          [] node.op \in Strict -> Operate(node, kids, context)
          [] node.op = "marksafe_if_autoescape" -> Markup_if(context.autoescape, kid(1))
          [] OTHER -> Choose(node, kids)

(* visit_Output: a node that can be folded is text in the module,          *)
(* whatever the optimizer; the others are escaped, or not, as they run.    *)
_output_child_to_const(node, ctx) ==
    LET const == as_const(node, ctx)
    IN  IF Fails(const) THEN const ELSE IF ctx.autoescape THEN escape(const) ELSE const
_output_child_preKnown(ctx, context) == ctx.autoescape  \* mutated: trusts the compiler though it is volatile
_output_child_pre(ctx, context) == IF ctx.volatile THEN context.autoescape ELSE ctx.autoescape
Output(node, ctx, context) ==
    LET const == _output_child_to_const(node, ctx)
        value == visit(node, ctx, context)
    IN  CASE ~Fails(const) -> Str(const.text)
          [] Fails(const) /\ Fails(value) -> error
          [] OTHER -> Str(IF _output_child_pre(ctx, context) THEN escape(value).text ELSE value.text)

(* The option of an autoescape block: what the compiler makes of it when   *)
(* it can fold it, and what the running code does.                         *)
option_foldable(node, ctx) == ~Fails(as_const(node, ctx))
option_const(node, ctx) == Truth(as_const(node, ctx))
option(node, ctx, context) == Truth(visit(node, ctx, context))

(* What the documentation says: the operators and filters at run time,     *)
(* under the autoescape of the block the expression is in, with nothing    *)
(* folded (docs/templates.rst, "Autoescape Overrides").                    *)
RECURSIVE Meaning(_, _)
Meaning(node, context) ==
    LET kid(i) == Meaning(node.kids[i], context)
        kids == [i \in DOMAIN node.kids |-> kid(i)]
        failing == \E i \in DOMAIN kids : Fails(kids[i])
    IN  CASE node.op = "const" -> Constants[node.name]
          [] node.op = "name" -> context.variables[node.name]
          [] node.op = "data" -> Markup(<<"<">>)
          [] node.op = "concat" /\ ~failing -> IF context.autoescape THEN markup_join(kids) ELSE str_join(kids)
          [] node.op = "marksafe_if_autoescape" /\ ~failing -> IF context.autoescape THEN Markup(kids[1].text) ELSE kids[1]
          [] failing /\ node.op \in Strict \cup {"marksafe_if_autoescape"} -> error
          [] node.op \in Strict -> Operate(node, kids, context)
          [] OTHER -> Choose(node, kids)
Written(node, context) ==
    LET v == Meaning(node, context)
    IN  IF Fails(v) THEN error ELSE Str(IF context.autoescape THEN escape(v).text ELSE v.text)
=============================================================================
