---------------------------- MODULE ImportsAlone ----------------------------
(* What templates with imports output, each told from its own text, its    *)
(* own globals and its own variables: no step of a task reads what another *)
(* one has done, an import runs lib anew, and nothing is kept of it but    *)
(* the x that lib has seen.  Which macros are no templates, and what a     *)
(* call of one gives, is left open.                                        *)
EXTENDS ImportStatements

CONSTANTS Rejected(_), Called(_, _, _), succeeds(_)

VARIABLES
    program, macro, lib_globals, globals, parent,  \* as in Imports
    scope,     \* scope[t]: what each name stands for
    exported,  \* exported[t]: the names t exports to those that import it
    pc, log
vars == <<program, macro, lib_globals, globals, parent, scope, exported, pc, log>>

Lib(x) == value("lib", x)
Attribute(x, name) ==
    CASE name = "y" -> Resolve(x)
      [] name = "m" -> value("macro", x)
      [] OTHER -> Undefined

Stmt(t) == program[t][pc[t]]
At(t, ops) == pc[t] <= Len(program[t]) /\ Stmt(t).op \in ops

(* x as lib sees it: without context only what the importing template has  *)
(* as a global or, if lib has that global itself, lib's own.  A variable   *)
(* the template is rendered with stands in for its global (a deviation).   *)
Seen(t) ==
    IF Stmt(t).with_context THEN x_of(scope[t]["x"])
    ELSE IF lib_globals # None \/ globals[t] = None THEN lib_globals
    ELSE parent[t]
(* An import fails only if lib is no template, or in a template that is    *)
(* included where its own globals are not (a deviation).                   *)
Failing(t) ==
    IF Rejected(macro) THEN "TemplateAssertionError"
    ELSE IF /\ ~Stmt(t).with_context /\ lib_globals = None
            /\ globals[t] # None /\ parent[t] = None THEN "KeyError"
    ELSE "none"

Goto(t, next) == pc' = [pc EXCEPT ![t] = next]
End(t) == Len(program[t]) + 1
Fail(t, error) ==
    /\ log' = [log EXCEPT ![t] = Append(@, value("error", error))]
    /\ Goto(t, End(t))
    /\ UNCHANGED <<scope, exported>>

(* A name is bound; it is exported if the template itself has set it.      *)
Bind(t, v, own) ==
    LET name == Stmt(t).name IN
    /\ scope' = [scope EXCEPT ![t][name] = v]
    /\ exported' = [exported EXCEPT ![t] = (@ \ {name}) \cup {n \in {name} : own /\ Public(n)}]
    /\ Goto(t, pc[t] + 1)
    /\ UNCHANGED log

Import(t) ==
    /\ At(t, {"import", "from"}) /\ Failing(t) = "none"
    /\ Bind(t, IF Stmt(t).op = "import" THEN Lib(Seen(t)) ELSE Attribute(Seen(t), Stmt(t).attr), FALSE)
ImportFails(t) ==
    At(t, {"import", "from"}) /\ Failing(t) # "none" /\ Fail(t, Failing(t))
Set(t) == At(t, {"set"}) /\ Bind(t, string(Assigned), TRUE)

(* A name, or an attribute of what it stands for.                          *)
Named(t) == scope[t][Stmt(t).name]
HasValue(t) == Stmt(t).attr = NoAttribute \/ Named(t).kind # "undefined"
Read(t) ==
    IF Stmt(t).attr = NoAttribute THEN Named(t)
    ELSE IF Named(t).kind = "lib" THEN Attribute(Named(t).is, Stmt(t).attr) ELSE Undefined
ReadFails(t) == At(t, {"out", "call"}) /\ ~HasValue(t) /\ Fail(t, "UndefinedError")

(* A macro is printed as its name, lib as what it renders.                 *)
Text(v) == CASE v.kind = "lib" -> value("rendered", v.is)
             [] v.kind = "macro" -> value("repr", None)
             [] OTHER -> v
Out(t) ==
    /\ At(t, {"out"}) /\ HasValue(t)
    /\ log' = [log EXCEPT ![t] = Append(@, Text(Read(t)))]
    /\ Goto(t, pc[t] + 1)
    /\ UNCHANGED <<scope, exported>>
Call(t) ==
    LET outcome == Called(macro, Read(t), Stmt(t).call) IN
    /\ At(t, {"call"}) /\ HasValue(t)
    /\ log' = [log EXCEPT ![t] = Append(@, value("call", outcome))]
    /\ Goto(t, IF succeeds(outcome) THEN pc[t] + 1 ELSE End(t))
    /\ UNCHANGED <<scope, exported>>

Init ==
    /\ scope = [t \in Tasks |-> [name \in Identifiers |-> IF name = "x" THEN Resolve(parent[t]) ELSE Undefined]]
    /\ exported = [t \in Tasks |-> {}]
    /\ pc = [t \in Tasks |-> 1]
    /\ log = [t \in Tasks |-> << >>]

Step(t) == Import(t) \/ ImportFails(t) \/ Set(t) \/ ReadFails(t) \/ Out(t) \/ Call(t)
Next == /\ \E t \in Tasks : Step(t)
        /\ UNCHANGED <<program, macro, lib_globals, globals, parent>>
Spec == Init /\ [][Next]_vars
=============================================================================
