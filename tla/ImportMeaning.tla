--------------------------- MODULE ImportMeaning ---------------------------
(* Imports implements ImportsAlone, in which no task shares anything with  *)
(* another; and what a call of a macro means, told from its declaration.   *)
EXTENDS Imports

-----------------------------------------------------------------------------
(* An argument of a macro is the positional one in its place, the keyword  *)
(* one of its name or its default, which may read parameters before it;    *)
(* what is left over goes to kwargs and varargs, or is too much.           *)
Positional(call) == call.args \o call.dyn_args
Keywords(call) ==
    LET named == Pairs(call.kwargs, "named") \o (IF call.forward_caller THEN <<(<<"caller", "block">>)>> ELSE << >>)
        dyn == Pairs(call.dyn_kwargs, "dyn")
        last(name) == IF name \in Names(dyn) THEN "dyn" ELSE IF name = "caller" /\ call.forward_caller THEN "block" ELSE "named"
        names == FoldLeft(LAMBDA ns, pair : IF Contains(ns, pair[1]) THEN ns ELSE Append(ns, pair[1]), << >>, named \o dyn)
    IN  [i \in DOMAIN names |-> <<names[i], last(names[i])>>]
(* A name given twice is an error of Python; that it is not where one of   *)
(* the names is a keyword of Python is a deviation.                        *)
Ambiguous(call) ==
    LET n == Len(call.kwargs) + Len(call.dyn_kwargs) + (IF call.forward_caller THEN 1 ELSE 0)
    IN  n # Len(Keywords(call)) /\ ~Contains(call.kwargs, "class")
LoadedFirst(name) ==
    \E i \in DOMAIN macro.body : /\ macro.body[i] = [op |-> "load", name |-> name]
                                 /\ \A j \in 1 .. i - 1 : macro.body[j].name # name
ParameterValues(call, outer) ==
    LET P == Positional(call)
        K == Keywords(call)
        n == Len(macro.params)
        given[i \in 1 .. n] == IF i <= Len(P) THEN <<P[i]>>
                               ELSE IF macro.params[i] \in Names(K) THEN Of(K, macro.params[i]) ELSE missing
        final[i \in 1 .. n] ==
            LET expr == macro.defaults[i - (n - Len(macro.defaults))]
                place == SelectInSeq(macro.params, LAMBDA p : p = expr)
            IN  IF given[i] # missing THEN given[i]
                ELSE IF i <= n - Len(macro.defaults) THEN undefined
                ELSE IF expr = "const" THEN <<"default">>
                ELSE IF place = 0 THEN outer
                ELSE IF place < i THEN final[place]
                ELSE IF given[place] = missing THEN undefined ELSE given[place]
    IN  final
Binding(call, outer) ==
    LET P == Positional(call)
        K == Keywords(call)
        n == Len(macro.params)
        special(name) == LoadedFirst(name) /\ ~Contains(macro.params, name)
        taken == {macro.params[i] : i \in {j \in 1 .. n : j > Len(P)}} \cup (IF special("caller") THEN {"caller"} ELSE {})
        left == Without(K, taken)
        values == ParameterValues(call, outer)
        names == ToSet(macro.params) \cup {name \in Specials : special(name)}
        meaning(name) ==
            IF Contains(macro.params, name) THEN values[SelectInSeq(macro.params, LAMBDA p : p = name)]
            ELSE CASE name = "caller" -> IF name \in Names(K) THEN Of(K, name) ELSE undefined
                   [] name = "kwargs" -> <<"**">> \o FlattenSeq(left)
                   [] name = "varargs" -> <<"*">> \o SubSeq(P, n + 1, Len(P))
        fits == /\ ~Ambiguous(call)
                /\ left # << >> => special("kwargs")
                /\ Len(P) > n => special("varargs")
    IN  [fits |-> fits, bound |-> IF fits THEN [name \in names |-> meaning(name)] ELSE << >>]

(* compiler.py says that a parameter called caller is an error unless it   *)
(* is the last one; it is accepted, and a call that gives it by position   *)
(* but not one behind it fails.                                            *)
CallerBeforeOthers(call) ==
    LET at == explicit_caller(macro)
    IN  LoadedFirst("caller") /\ at # 0 /\ at < Len(macro.params) /\ at <= Len(Positional(call))

-----------------------------------------------------------------------------
(* A template outputs what it means alone, whichever tasks share lib and   *)
(* however they interleave: no import sees another task's variables or     *)
(* globals, nor half a module.  To its own importers it exports only what  *)
(* it has set itself.                                                      *)
Meaning(v) == IF v.kind = "module" THEN value("lib", modules[v.module]._body_stream) ELSE v
scope == [t \in Tasks |-> [name \in Identifiers |-> Meaning(resolve_or_missing(t, name))]]
Alone == INSTANCE ImportsAlone WITH exported <- exported_vars
ImplementsAlone == Alone!Spec

(* A call of a macro binds its parameters as its declaration says, or      *)
(* fails where the arguments do not fit.                                   *)
BindsAsDeclared == [][
    \A t \in {u \in Tasks : Reads(u, "call") /\ Read(u).kind = "macro" /\ log'[u] # log[u]} :
        LET free == Read(t).is
            call == Stmt(t).call
            meant == Binding(call, IF free = None THEN undefined ELSE free)
            outcome == log'[t][Len(log'[t])].is
        IN  \/ CallerBeforeOthers(call)
            \/ succeeds(outcome) = meant.fits /\ outcome.bound = meant.bound
    ]_allvars

(* Of every macro that is accepted the parameters are those of the         *)
(* function that is generated for it.                                      *)
AlwaysBinds ==
    \A t \in Tasks :
        Reads(t, "call") => Called(macro, Read(t), Stmt(t).call).error # "wrong number of arguments"
=============================================================================
