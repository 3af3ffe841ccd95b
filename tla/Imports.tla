------------------------------ MODULE Imports ------------------------------
(* Several tasks render templates that import the same template, lib, from *)
(* one environment: with context they render it for themselves, otherwise  *)
(* they share its default module unless they have globals it has not.      *)
EXTENDS ImportStatements, MacroBinding

VARIABLES
    program,      \* program[t]: the statements of the template t renders
    macro,        \* the macro lib defines
    lib_globals,  \* lib.globals
    globals,      \* globals[t]: of the template t renders
    parent,       \* parent[t]: Context.parent
    vars,         \* vars[t]: Context.vars, and the template's local names
    exported_vars,\* exported_vars[t]: of the same context
    _module,      \* lib._module, an index of modules or 0
    modules,      \* the TemplateModules of lib there are
    pc,           \* pc[t]: the statement of program[t] that comes next
    waiting,      \* waiting[t]: t renders the default module
    log           \* log[t]: what t has output
templates == <<program, macro, lib_globals, globals, parent>>
allvars == <<templates, vars, exported_vars, _module, modules, pc, waiting, log>>

Missing == value("missing", None)  \* of a name that is not in vars
ModuleValue(n) == [kind |-> "module", is |-> None, module |-> n]  \* modules[n]

(* TemplateModule: what the root function of lib renders in a context      *)
(* whose parent has this x, and what the context exports then.             *)
root_render_func(x) ==
    [_body_stream |-> x, exported |-> [y |-> Resolve(x), m |-> value("macro", x)]]
(* A value is called: the free names of the macro are those of lib.        *)
Rejected(m) == macro_body(m).fails
Called(m, f, call) ==
    IF f.kind = "macro" THEN visit_Call(m, call, IF f.is = None THEN undefined ELSE f.is)
    ELSE Failure("not callable")
getattr(module, name) == IF name \in {"y", "m"} THEN module.exported[name] ELSE Undefined

Stmt(t) == program[t][pc[t]]
At(t, ops) == pc[t] <= Len(program[t]) /\ Stmt(t).op \in ops
resolve_or_missing(t, name) ==
    IF vars[t][name] # Missing THEN vars[t][name]
    ELSE IF name = "x" THEN Resolve(parent[t]) ELSE Undefined

-----------------------------------------------------------------------------
Goto(t, next) == pc' = [pc EXCEPT ![t] = next]
Raise(t, error) ==
    /\ log' = [log EXCEPT ![t] = Append(@, value("error", error))]
    /\ Goto(t, Len(program[t]) + 1)
    /\ UNCHANGED <<templates, vars, exported_vars, _module, modules, waiting>>

(* visit_Import and visit_FromImport, once module n is there.              *)
Bind(t, n, module) ==
    LET s == Stmt(t) IN
    /\ vars' = [vars EXCEPT ![t][s.name] = IF s.op = "import" THEN ModuleValue(n)
                                           ELSE getattr(module, s.attr)]
    /\ exported_vars' = [exported_vars EXCEPT ![t] = IF Public(s.name) THEN @ \ {s.name} ELSE @]
    /\ Goto(t, pc[t] + 1)

(* make_module, with the whole context or with the globals lib has not.    *)
Import(t) == At(t, {"import", "from"}) /\ ~waiting[t]
Importing(t) == Import(t) /\ ~Rejected(macro)
make_module(t, x) ==
    /\ modules' = Append(modules, root_render_func(x))
    /\ Bind(t, Len(modules) + 1, root_render_func(x))
    /\ UNCHANGED <<templates, _module, waiting, log>>
ImportWithContext(t) ==
    Importing(t) /\ Stmt(t).with_context /\ make_module(t, x_of(resolve_or_missing(t, "x")))

(* _get_default_module                                                     *)
keys(t) == IF globals[t] # None /\ lib_globals = None THEN {"x"} ELSE {}
ImportWithGlobalsShared(t) ==  \* mutated: the module made for one importer becomes the default one
    /\ Importing(t) /\ ~Stmt(t).with_context /\ keys(t) # {} /\ parent[t] # None
    /\ modules' = Append(modules, root_render_func(parent[t]))
    /\ _module' = Len(modules) + 1
    /\ Bind(t, Len(modules) + 1, root_render_func(parent[t]))
    /\ UNCHANGED <<templates, waiting, log>>
ImportWithGlobals(t) ==
    Importing(t) /\ ~Stmt(t).with_context /\ keys(t) # {} /\ parent[t] # None /\ make_module(t, parent[t])
(* lib does not compile, or ctx.parent[k] has no such key.                 *)
LibFails(t) == Import(t) /\ Rejected(macro) /\ Raise(t, "TemplateAssertionError")
GlobalsFail(t) ==
    Importing(t) /\ ~Stmt(t).with_context /\ keys(t) # {} /\ parent[t] = None /\ Raise(t, "KeyError")
ImportDefault(t) ==
    /\ Importing(t) /\ ~Stmt(t).with_context /\ keys(t) = {} /\ _module # 0
    /\ Bind(t, _module, modules[_module])
    /\ UNCHANGED <<templates, _module, modules, waiting, log>>
RenderDefault(t) ==
    /\ Importing(t) /\ ~Stmt(t).with_context /\ keys(t) = {} /\ _module = 0
    /\ waiting' = [waiting EXCEPT ![t] = TRUE]
    /\ UNCHANGED <<templates, vars, exported_vars, _module, modules, pc, log>>
DefaultRendered(t) ==
    LET module == root_render_func(lib_globals) IN
    /\ waiting[t]
    /\ waiting' = [waiting EXCEPT ![t] = FALSE]
    /\ modules' = Append(modules, module)
    /\ _module' = Len(modules) + 1
    /\ Bind(t, Len(modules) + 1, module)
    /\ UNCHANGED <<templates, log>>

-----------------------------------------------------------------------------
Set(t) ==
    LET name == Stmt(t).name IN
    /\ At(t, {"set"})
    /\ vars' = [vars EXCEPT ![t][name] = string(Assigned)]
    /\ exported_vars' = [exported_vars EXCEPT ![t] = IF Public(name) THEN @ \cup {name} ELSE @]
    /\ Goto(t, pc[t] + 1)
    /\ UNCHANGED <<templates, _module, modules, waiting, log>>

(* A name, or an attribute of what it stands for: an undefined value has   *)
(* none and raises, any other is asked for it.                             *)
Named(t) == resolve_or_missing(t, Stmt(t).name)
Undefined_getattr(t) ==
    /\ At(t, {"out", "call"}) /\ Stmt(t).attr # NoAttribute /\ Named(t).kind = "undefined"
    /\ Raise(t, "UndefinedError")
Reads(t, op) == At(t, {op}) /\ (Stmt(t).attr # NoAttribute => Named(t).kind # "undefined")
Read(t) ==
    IF Stmt(t).attr = NoAttribute THEN Named(t)
    ELSE IF Named(t).kind = "module" THEN getattr(modules[Named(t).module], Stmt(t).attr) ELSE Undefined
str(v) == CASE v.kind = "module" -> value("rendered", modules[v.module]._body_stream)
            [] v.kind = "macro" -> value("repr", None)
            [] OTHER -> v
Out(t) ==
    /\ Reads(t, "out")
    /\ log' = [log EXCEPT ![t] = Append(@, str(Read(t)))]
    /\ Goto(t, pc[t] + 1)
    /\ UNCHANGED <<templates, vars, exported_vars, _module, modules, waiting>>

Call(t) ==
    LET outcome == Called(macro, Read(t), Stmt(t).call) IN
    /\ Reads(t, "call")
    /\ log' = [log EXCEPT ![t] = Append(@, value("call", outcome))]
    /\ Goto(t, IF succeeds(outcome) THEN pc[t] + 1 ELSE Len(program[t]) + 1)
    /\ UNCHANGED <<templates, vars, exported_vars, _module, modules, waiting>>

Start(programs, macros, x_in, x_of_globals, x_of_parent) ==
    /\ program = programs /\ macro = macros
    /\ lib_globals = x_in /\ globals = x_of_globals /\ parent = x_of_parent
    /\ vars = [t \in Tasks |-> [name \in Identifiers |-> Missing]]
    /\ exported_vars = [t \in Tasks |-> {}]
    /\ _module = 0 /\ modules = << >>
    /\ pc = [t \in Tasks |-> 1]
    /\ waiting = [t \in Tasks |-> FALSE]
    /\ log = [t \in Tasks |-> << >>]
Init ==
    \E programs \in [Tasks -> Seq(Statements)], macros \in Macros, x_in \in Dictionaries,
       x_of_globals \in [Tasks -> Dictionaries], x_of_parent \in [Tasks -> Dictionaries] :
        Start(programs, macros, x_in, x_of_globals, x_of_parent)

Step(t) == \/ ImportWithContext(t) \/ ImportWithGlobals(t) \/ LibFails(t) \/ GlobalsFail(t)
           \/ ImportDefault(t) \/ RenderDefault(t) \/ DefaultRendered(t)
           \/ Set(t) \/ Undefined_getattr(t) \/ Out(t) \/ Call(t)
Next == \E t \in Tasks : Step(t)
Spec == Init /\ [][Next]_allvars
=============================================================================
