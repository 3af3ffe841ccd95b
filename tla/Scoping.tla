------------------------------ MODULE Scoping ------------------------------
(* The code that CompilerFrames writes for a template is run, a statement  *)
(* a step: root function, block functions and macros with their local      *)
(* variables, and the contexts that blocks, includes and functions get.    *)
EXTENDS CompilerFrames

CONSTANT Given  \* the variables passed to render

VARIABLES
    program,
    code, pc,     \* the Python statements, and the one to run next
    locals,       \* the Python variables that are bound
    contexts,     \* of the root function and the block functions
    set_vars,     \* the dictionaries _loop_vars and _block_vars of each function
    calls,        \* where the functions being run return to
    buffers,      \* the output, and the buffers on top of it
    loops         \* the iterations done, for each loop being run
vars == <<program, code, pc, locals, contexts, set_vars, calls, buffers, loops>>

Empty == << >>
NewContext(parent) == [vars |-> Empty, parent |-> parent, exported_vars |-> {}]
Init(template) ==
    /\ program = template
    /\ code = visit_Template(template) /\ pc = 1
    /\ locals = Empty
    /\ contexts = "root" :> NewContext(Given)
    /\ set_vars = Empty
    /\ calls = << >> /\ buffers = <<<< >>>> /\ loops = << >>

Here == code[pc]
Running(op) == pc \in DOMAIN code /\ Here.op = op
Read(ref) == IF ref \in DOMAIN locals THEN locals[ref] ELSE <<"UnboundLocalError">>
get_all(context) == context.vars @@ context.parent
Lookup(dict, name) == IF name \in DOMAIN dict THEN dict[name] ELSE missing
(* new_context: locals that are missing hide nothing.                      *)
With(context, refs) ==
    LET bound == {name \in DOMAIN refs : Read(refs[name]) # missing}
    IN  [name \in bound |-> Read(refs[name])] @@ get_all(context)
Written(value) == [buffers EXCEPT ![Len(buffers)] = @ \o Text(value)]
Bind(target, value) == locals' = target :> value @@ locals
On(n) == pc' = pc + n

Enter ==
    /\ Running("enter") /\ On(1)
    /\ LET Value(l) == CASE l.action = "resolve" -> Lookup(get_all(contexts[Here.unit]), l.name)
                         [] l.action = "alias" -> Read(l.param)
                         [] l.action = "undefined" -> missing
           set == {l \in Here.loads : l.action # "param"}
       IN  locals' = [t \in {l.target : l \in set} |-> Value(CHOOSE l \in set : l.target = t)] @@ locals
    /\ UNCHANGED <<program, code, contexts, set_vars, calls, buffers, loops>>
Leave ==
    /\ Running("leave") /\ On(1)
    /\ locals' = [t \in Here.targets |-> missing] @@ locals
    /\ UNCHANGED <<program, code, contexts, set_vars, calls, buffers, loops>>
Assign ==
    /\ Running("assign") /\ On(1)
    /\ Bind(Here.target, IF Here.source = None THEN Here.value ELSE Text(Read(Here.source)) \o Here.value)
    /\ UNCHANGED <<program, code, contexts, set_vars, calls, buffers, loops>>
Track ==
    /\ Running("track") /\ On(1)
    /\ LET entry == Here.name :> Read(Here.ref)
       IN  IF Here.dict = "context"
           THEN /\ contexts' = [contexts EXCEPT !["root"].vars = entry @@ @, !["root"].exported_vars = @ \cup {Here.name}]
                /\ UNCHANGED set_vars
           ELSE /\ set_vars' = <<Here.func, Here.dict>> :> (entry @@ set_vars[<<Here.func, Here.dict>>]) @@ set_vars
                /\ UNCHANGED contexts
    /\ UNCHANGED <<program, code, locals, calls, buffers, loops>>
Out ==
    /\ Running("out") /\ On(1)
    /\ buffers' = Written(Read(Here.ref))
    /\ UNCHANGED <<program, code, locals, contexts, set_vars, calls, loops>>

Branch ==
    /\ Running("if") /\ On(IF Here.taken THEN 1 ELSE 1 + Here.size)
    /\ UNCHANGED <<program, code, locals, contexts, set_vars, calls, buffers, loops>>
Jump ==
    /\ (Running("jump") \/ Running("def")) /\ On(1 + Here.size)
    /\ UNCHANGED <<program, code, locals, contexts, set_vars, calls, buffers, loops>>
Iterate ==
    /\ Running("iter") /\ On(1)
    /\ loops' = Append(loops, 0)
    /\ UNCHANGED <<program, code, locals, contexts, set_vars, calls, buffers>>
ForEach ==
    /\ Running("for")
    /\ IF Last(loops) < Len(Here.items)
       THEN /\ Bind(Here.target, <<Here.items[Last(loops) + 1]>>)
            /\ loops' = [loops EXCEPT ![Len(loops)] = @ + 1]
            /\ On(1)
       ELSE On(1 + Here.size) /\ UNCHANGED <<locals, loops>>
    /\ UNCHANGED <<program, code, contexts, set_vars, calls, buffers>>
LoopVars ==
    /\ Running("loop_vars") /\ On(1)
    /\ set_vars' = <<Here.func, "loop">> :> Empty @@ set_vars
    /\ UNCHANGED <<program, code, locals, contexts, calls, buffers, loops>>
ElseOnly ==  \* mutated: the loop is not left
    /\ Running("else") /\ On(IF Last(loops) = 0 THEN 1 ELSE 1 + Here.size)
    /\ UNCHANGED <<program, code, locals, contexts, set_vars, calls, buffers, loops>>
Else ==
    /\ Running("else") /\ On(IF Last(loops) = 0 THEN 1 ELSE 1 + Here.size)
    /\ loops' = Front(loops)
    /\ UNCHANGED <<program, code, locals, contexts, set_vars, calls, buffers>>

Buffer ==
    /\ Running("buffer") /\ On(1)
    /\ buffers' = Append(buffers, << >>)
    /\ UNCHANGED <<program, code, locals, contexts, set_vars, calls, loops>>
Capture ==
    /\ Running("capture") /\ On(1)
    /\ Bind(Here.target, Last(buffers))
    /\ buffers' = Front(buffers)
    /\ UNCHANGED <<program, code, contexts, set_vars, calls, loops>>
Filter ==
    /\ Running("filter") /\ On(1)
    /\ buffers' = Append(SubSeq(buffers, 1, Len(buffers) - 2), buffers[Len(buffers) - 1] \o Last(buffers))
    /\ UNCHANGED <<program, code, locals, contexts, set_vars, calls, loops>>

(* A function starts with none of its own variables bound.                 *)
Called(func, return) ==
    /\ calls' = Append(calls, return)
    /\ locals' = [ref \in {r \in DOMAIN locals : r[1] # func} |-> locals[ref]]
CallMacro ==
    /\ Running("callmacro") /\ Read(Here.ref) = macro
    /\ Called(Here.name, pc + 1)
    /\ pc' = (CHOOSE i \in DOMAIN code : code[i].op = "def" /\ code[i].name = Here.name) + 1
    /\ UNCHANGED <<program, code, contexts, set_vars, buffers, loops>>
CallBlock ==
    /\ Running("block") /\ On(1)
    /\ Called(Here.name, pc + 1 + Here.size)
    /\ contexts' = Here.name :> (IF Here.stores = None THEN contexts[Here.unit]
                                 ELSE NewContext(With(contexts[Here.unit], Here.stores))) @@ contexts
    /\ set_vars' = <<Here.name, "block">> :> Empty @@ set_vars
    /\ UNCHANGED <<program, code, buffers, loops>>
Return ==
    /\ Running("return")
    /\ pc' = Last(calls) /\ calls' = Front(calls)
    /\ UNCHANGED <<program, code, locals, contexts, set_vars, buffers, loops>>

(* An included template, and a function that is passed the context, look   *)
(* a name up in it.                                                        *)
Include ==
    /\ Running("include") /\ On(1)
    /\ buffers' = Written(Lookup(With(contexts[Here.unit], Here.stores), Here.name))
    /\ UNCHANGED <<program, code, locals, contexts, set_vars, calls, loops>>
CallFunction ==
    /\ Running("call") /\ On(1)
    /\ LET passed == (IF Here.block THEN set_vars[<<Here.func, "block">>] ELSE Empty)
                     @@ (IF Here.loop THEN set_vars[<<Here.func, "loop">>] ELSE Empty)
       IN  buffers' = Written(Lookup(passed @@ get_all(contexts[Here.unit]), Here.name))
    /\ UNCHANGED <<program, code, locals, contexts, set_vars, calls, loops>>

Next == \/ Enter \/ Leave \/ Assign \/ Track \/ Out \/ Branch \/ Jump \/ Iterate \/ ForEach \/ LoopVars \/ Else
        \/ Buffer \/ Capture \/ Filter \/ CallMacro \/ CallBlock \/ Return \/ Include \/ CallFunction

-----------------------------------------------------------------------------
TypeOK ==
    /\ pc \in 1 .. Len(code) + 1
    /\ buffers # << >> /\ \A i \in DOMAIN loops : loops[i] \in Nat
    /\ pc > Len(code) => calls = << >> /\ loops = << >> /\ Len(buffers) = 1
=============================================================================
