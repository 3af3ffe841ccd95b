---------------------------- MODULE MacroBinding ----------------------------
(* How a macro gets its arguments: the function macro_body generates for   *)
(* it, the call that signature generates, Macro.__call__ between the two,  *)
(* and the defaults the function fills in.                                 *)
(*                                                                         *)
(* A macro has params, defaults for the last of them (a constant, or a     *)
(* name that is read) and a body, of which only the loads and stores of    *)
(* names count.  A value is a sequence of strings: one says where it comes *)
(* from, more say what varargs and kwargs hold.                            *)
EXTENDS Integers, SequencesExt

Specials == {"caller", "kwargs", "varargs"}
missing == <<"missing">>
undefined == <<"undefined">>

(* UndeclaredNameVisitor: a name loaded before anything stores it.         *)
find_undeclared(body) ==
    LET visit(seen, node) ==
            IF seen.undeclared = seen.names THEN seen
            ELSE IF node.op = "load" /\ node.name \in seen.names
                 THEN [seen EXCEPT !.undeclared = @ \cup {node.name}]
                 ELSE IF node.op = "store" THEN [seen EXCEPT !.names = @ \ {node.name}] ELSE seen
    IN  FoldLeft(visit, [names |-> Specials, undeclared |-> {}], body).undeclared

(* The parameters of the generated function, and what the Macro object is  *)
(* told of it.                                                             *)
HasDefault(macro, i) == i > Len(macro.params) - Len(macro.defaults)
explicit_caller(macro) == SelectInSeq(macro.params, LAMBDA name : name = "caller")
macro_body(macro) ==
    LET undeclared == find_undeclared(macro.body)
        accesses(name) == name \in undeclared /\ ~Contains(macro.params, name)
        declared(name) == IF accesses(name) THEN <<name>> ELSE << >>
        at == explicit_caller(macro)
    IN  [fails |-> "caller" \in undeclared /\ at # 0 /\ ~HasDefault(macro, at),
         parameters |-> macro.params \o declared("caller") \o declared("kwargs") \o declared("varargs"),
         caller |-> "caller" \in undeclared,
         catch_kwargs |-> accesses("kwargs"), catch_varargs |-> accesses("varargs")]

-----------------------------------------------------------------------------
(* Keyword arguments in their order, a sequence of names and values.       *)
Pairs(names, value) == [i \in DOMAIN names |-> <<names[i], value>>]
Names(pairs) == {pairs[i][1] : i \in DOMAIN pairs}
Of(pairs, name) == <<pairs[SelectInSeq(pairs, LAMBDA pair : pair[1] = name)][2]>>
Without(pairs, names) == SelectSeq(pairs, LAMBDA pair : pair[1] \notin names)
(* A dict display or dict(): a later value takes the place of an earlier.  *)
Put(pairs, pair) ==
    LET at == SelectInSeq(pairs, LAMBDA p : p[1] = pair[1])
    IN  IF at = 0 THEN Append(pairs, pair) ELSE [pairs EXCEPT ![at] = pair]

(* The call that is generated, run by Python: if a keyword argument is a   *)
(* keyword of Python all of them go through one dict.  forward_caller is   *)
(* what a call block adds.                                                 *)
is_python_keyword(name) == name = "class"
signature(call) ==
    LET extra == IF call.forward_caller THEN <<"caller">> ELSE << >>
        named == Pairs(call.kwargs, "named") \o Pairs(extra, "block")
        dyn == Pairs(call.dyn_kwargs, "dyn")
        kwarg_workaround == \E pair \in ToSet(named) : is_python_keyword(pair[1])
        given(error, kwargs) == [error |-> error, args |-> call.args \o call.dyn_args, kwargs |-> kwargs]
    IN  IF kwarg_workaround THEN given("", FoldLeft(Put, << >>, named \o dyn))
        ELSE IF Cardinality(Names(named)) # Len(named) THEN given("keyword argument repeated", << >>)
        ELSE IF Names(named) \cap Names(dyn) # {} THEN given("multiple values for keyword argument", << >>)
        ELSE given("", named \o dyn)

(* Macro.__call__                                                          *)
consumeNamed(macro, args, kwargs) ==  \* mutated: a caller given by position is not seen
    LET off == IF Len(args) < Len(macro.params) THEN Len(args) ELSE Len(macro.params)
        rest == SubSeq(macro.params, off + 1, Len(macro.params))
        pop(name) == IF name \in Names(kwargs) THEN Of(kwargs, name) ELSE missing
    IN  [arguments |-> [i \in 1 .. off |-> <<args[i]>>] \o [i \in DOMAIN rest |-> pop(rest[i])],
         kwargs |-> Without(kwargs, ToSet(rest)),
         found_caller |-> Contains(rest, "caller")]
consume(macro, args, kwargs) ==
    LET off == IF Len(args) < Len(macro.params) THEN Len(args) ELSE Len(macro.params)
        rest == SubSeq(macro.params, off + 1, Len(macro.params))
        pop(name) == IF name \in Names(kwargs) THEN Of(kwargs, name) ELSE missing
    IN  [arguments |-> [i \in 1 .. off |-> <<args[i]>>] \o [i \in DOMAIN rest |-> pop(rest[i])],
         kwargs |-> Without(kwargs, ToSet(rest)),
         found_caller |-> IF rest # << >> THEN Contains(rest, "caller") ELSE explicit_caller(macro) # 0]
Macro_call(macro, args, given_kwargs) ==
    LET ref == macro_body(macro)
        eaten == consume(macro, args, given_kwargs)
        pop_caller == ref.caller /\ ~eaten.found_caller
        caller == IF "caller" \in Names(eaten.kwargs) THEN Of(eaten.kwargs, "caller") ELSE undefined
        kwargs == IF pop_caller THEN Without(eaten.kwargs, {"caller"}) ELSE eaten.kwargs
        varargs == SubSeq(args, Len(macro.params) + 1, Len(args))
        also(condition, value) == IF condition THEN <<value>> ELSE << >>
        error == IF ~ref.catch_kwargs /\ "caller" \in Names(kwargs) THEN "two values for caller"
                 ELSE IF ~ref.catch_kwargs /\ kwargs # << >> THEN "takes no keyword argument"
                 ELSE IF ~ref.catch_varargs /\ varargs # << >> THEN "takes not more arguments" ELSE ""
    IN  [error |-> error,
         arguments |-> eaten.arguments \o also(pop_caller, caller)
                       \o also(ref.catch_kwargs, <<"**">> \o FlattenSeq(kwargs)) \o also(ref.catch_varargs, <<"*">> \o varargs)]

(* The generated function, from its call to its body: one parameter after  *)
(* the other is given its default.  A default that reads a parameter which *)
(* is not there yet reads an undefined value.                              *)
default(macro, i, bound, outer) ==
    LET expr == macro.defaults[i - (Len(macro.params) - Len(macro.defaults))]
    IN  IF ~HasDefault(macro, i) THEN undefined
        ELSE IF expr = "const" THEN <<"default">>
        ELSE IF expr \notin DOMAIN bound THEN outer
        ELSE IF bound[expr] = missing THEN undefined ELSE bound[expr]
Invoke(macro, arguments, outer) ==
    LET parameters == macro_body(macro).parameters
        bound == [name \in ToSet(parameters) |-> arguments[SelectInSeq(parameters, LAMBDA p : p = name)]]
        fill(b, i) == IF b[macro.params[i]] = missing
                      THEN [b EXCEPT ![macro.params[i]] = default(macro, i, b, outer)] ELSE b
    IN  IF Len(arguments) # Len(parameters) THEN [error |-> "wrong number of arguments", bound |-> << >>]
        ELSE [error |-> "", bound |-> FoldLeft(fill, bound, [i \in DOMAIN macro.params |-> i])]

Failure(error) == [error |-> error, bound |-> << >>]
succeeds(outcome) == outcome.error = ""
visit_Call(macro, call, outer) ==
    LET given == signature(call)
        taken == Macro_call(macro, given.args, given.kwargs)
    IN  IF given.error # "" THEN Failure(given.error)
        ELSE IF taken.error # "" THEN Failure(taken.error)
        ELSE Invoke(macro, taken.arguments, outer)
=============================================================================
