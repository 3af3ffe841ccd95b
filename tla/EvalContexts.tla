---------------------------- MODULE EvalContexts ----------------------------
(* A template of outputs, autoescape blocks and loops is compiled, node by *)
(* node, under the compiler's eval context (frame.eval_ctx), and then run  *)
(* under the run-time one (context.eval_ctx). Both are changed and         *)
(* reverted by visit_ScopedEvalContextModifier and the code it writes.     *)
(* What expressions are worth is left to the operators among the constants *)
(* (Expressions has them).                                                 *)
EXTENDS Integers, Sequences

CONSTANTS
    Nodes, Templates,  \* expressions, and the programs made of them
    Contexts,          \* the variables a program can be run with
    Iterations,        \* bound: of a loop
    Foldable(_, _), Folded(_, _),  \* an option, as the compiler knows it
    Computed(_, _, _),             \* an option, as the code computes it
    Text(_, _, _), Error           \* what an output writes, or that it fails

VARIABLES
    program,    \* instructions: out, enter (autoescape), leave, for, endfor, break, continue
    environment_autoescape, optimized,
    variables,
    pc,
    eval_ctx,   \* the compiler's
    saved_ctx,  \* one per modifier that is being compiled
    code,       \* for each instruction compiled, the context it was compiled under
    now,        \* context.eval_ctx.autoescape
    old_ctx,    \* the temporary variable of each modifier, by its place
    left,       \* iterations a loop has left, by its place
    output      \* what was written, and by which instruction
vars == <<program, environment_autoescape, optimized, variables, pc, eval_ctx, saved_ctx, code, now, old_ctx, left,
          output>>

(* The instructions of a node stand around those of its body, and match    *)
(* each other; the match of a jump is the loop it is in.                   *)
Instruction == [op : {"out", "enter", "leave", "for", "endfor", "break", "continue"}, node : Nodes, match : Nat]
Begins(t, p) == t[p].op \in {"enter", "for"}
EndOf == [enter |-> "leave", for |-> "endfor"]
WellNested(t) ==
    /\ t \in Seq(Instruction)
    /\ \A p \in DOMAIN t :
           LET match == t[p].match
           IN  /\ Begins(t, p) => match \in p + 1 .. Len(t) /\ t[match].op = EndOf[t[p].op] /\ t[match].match = p
               /\ t[p].op \in {"leave", "endfor"} =>
                      match \in 1 .. p - 1 /\ Begins(t, match) /\ t[match].match = p
               /\ t[p].op \in {"break", "continue"} => match \in 1 .. p - 1 /\ t[match].op = "for" /\ p < t[match].match
    /\ \A p, q \in DOMAIN t : Begins(t, p) /\ Begins(t, q) /\ p < q /\ q < t[p].match => t[q].match < t[p].match
EvalContext == [autoescape : BOOLEAN, volatile : BOOLEAN, optimized : BOOLEAN]
Context == [autoescape : BOOLEAN, variables : Contexts]

ASSUME TemplatesAssumption == Iterations \in Nat /\ \A t \in Templates : WellNested(t)
ASSUME OptionsAssumption ==
    \A t \in Templates : \A p \in DOMAIN t : t[p].op = "enter" =>
        \A ctx \in EvalContext :
            /\ Foldable(t[p].node, ctx) => Folded(t[p].node, ctx) \in BOOLEAN
            /\ \A running \in Context : Computed(t[p].node, ctx, running) \in BOOLEAN

static == <<program, environment_autoescape, optimized, variables>>
runtime == <<now, old_ctx, left, output>>
context == [autoescape |-> now, variables |-> variables]
Compiling == Len(code) < Len(program)
Here == program[pc]
Environment == [autoescape |-> environment_autoescape, volatile |-> FALSE, optimized |-> optimized]

Init ==
    /\ program \in Templates
    /\ environment_autoescape \in BOOLEAN /\ optimized \in BOOLEAN
    /\ variables \in Contexts
    /\ pc = 1
    /\ eval_ctx = Environment
    /\ saved_ctx = << >> /\ code = << >>
    /\ now = environment_autoescape
    /\ old_ctx = [p \in DOMAIN program |-> FALSE]
    /\ left = [p \in DOMAIN program |-> 0]
    /\ output = << >>

Compiled(ctx) ==
    /\ code' = Append(code, eval_ctx)
    /\ eval_ctx' = ctx
    /\ pc' = IF Len(code) + 1 = Len(program) THEN 1 ELSE pc + 1
    /\ UNCHANGED <<static, runtime>>

(* visit_EvalContextModifier: a value the compiler does not know makes the *)
(* context volatile, and leaves its autoescape as it was.                  *)
CompileEnter ==
    /\ Compiling /\ Here.op = "enter"
    /\ Compiled(IF Foldable(Here.node, eval_ctx) THEN [eval_ctx EXCEPT !.autoescape = Folded(Here.node, eval_ctx)]
                ELSE [eval_ctx EXCEPT !.volatile = TRUE])
    /\ saved_ctx' = Append(saved_ctx, eval_ctx)
CompileLeaveSaved ==  \* mutated: the saved context stays saved
    /\ Compiling /\ Here.op = "leave"
    /\ Compiled(saved_ctx[Len(saved_ctx)])
    /\ UNCHANGED saved_ctx
CompileLeave ==
    /\ Compiling /\ Here.op = "leave"
    /\ Compiled(saved_ctx[Len(saved_ctx)])
    /\ saved_ctx' = SubSeq(saved_ctx, 1, Len(saved_ctx) - 1)
CompileOther ==
    /\ Compiling /\ Here.op \notin {"enter", "leave"}
    /\ Compiled(eval_ctx)
    /\ UNCHANGED saved_ctx

-----------------------------------------------------------------------------
Running(op) == ~Compiling /\ pc \in DOMAIN program /\ Here.op = op
compiled == <<static, eval_ctx, saved_ctx, code>>

Out ==
    /\ Running("out")
    /\ LET text == Text(Here.node, code[pc], context)
       IN  /\ output' = Append(output, [at |-> pc, text |-> text])
           /\ pc' = IF text = Error THEN Len(program) + 1 ELSE pc + 1
    /\ UNCHANGED <<compiled, now, old_ctx, left>>

Enter ==
    /\ Running("enter")
    /\ old_ctx' = [old_ctx EXCEPT ![pc] = now]
    /\ now' = Computed(Here.node, code[pc], context)
    /\ pc' = pc + 1
    /\ UNCHANGED <<compiled, left, output>>
LeaveOn ==  \* mutated: no revert at run time
    /\ Running("leave")
    /\ pc' = pc + 1
    /\ UNCHANGED <<compiled, runtime>>
Leave ==
    /\ Running("leave")
    /\ now' = old_ctx[Here.match]
    /\ pc' = pc + 1
    /\ UNCHANGED <<compiled, old_ctx, left, output>>

(* A loop over any number of items. Nothing reverts the context when a     *)
(* jump leaves the block.                                                  *)
Again(loop) ==
    /\ IF left[loop] = 0 THEN pc' = program[loop].match + 1 /\ UNCHANGED left
       ELSE pc' = loop + 1 /\ left' = [left EXCEPT ![loop] = @ - 1]
    /\ UNCHANGED <<compiled, now, old_ctx, output>>
For ==
    /\ Running("for")
    /\ \E n \in 0 .. Iterations :
           IF n = 0 THEN pc' = Here.match + 1 /\ UNCHANGED left
           ELSE pc' = pc + 1 /\ left' = [left EXCEPT ![pc] = n - 1]
    /\ UNCHANGED <<compiled, now, old_ctx, output>>
EndFor == Running("endfor") /\ Again(Here.match)
Continue == Running("continue") /\ Again(Here.match)
Break == /\ Running("break")
         /\ pc' = program[Here.match].match + 1
         /\ UNCHANGED <<compiled, runtime>>

Finished == ~Compiling /\ pc > Len(program) /\ UNCHANGED vars
Next == \/ CompileEnter \/ CompileLeave \/ CompileOther
        \/ Out \/ Enter \/ Leave \/ For \/ EndFor \/ Continue \/ Break
        \/ Finished
Spec == Init /\ [][Next]_vars

-----------------------------------------------------------------------------
TypeOK ==
    /\ pc \in 1 .. Len(program) + 1
    /\ eval_ctx \in EvalContext /\ saved_ctx \in Seq(EvalContext) /\ code \in Seq(EvalContext)
    /\ Len(code) <= Len(program)
    /\ Compiling => pc = Len(code) + 1
    /\ saved_ctx # << >> => Compiling
    /\ now \in BOOLEAN /\ old_ctx \in [DOMAIN program -> BOOLEAN] /\ left \in [DOMAIN program -> 0 .. Iterations]

(* The autoescape blocks an instruction is written in.                     *)
Enclosing(p) == {e \in 1 .. p - 1 : program[e].op = "enter" /\ p < program[e].match}
JumpsOut ==
    \E p \in DOMAIN program : program[p].op \in {"continue", "break"} /\ \E e \in Enclosing(p) : e > program[p].match

(* "Modifies the eval context and reverts it later" (nodes.py, the class   *)
(* ScopedEvalContextModifier): an instruction behind a block is compiled   *)
(* under the context the block was, and outside of all blocks both the     *)
(* compiler's context and the run-time one are the environment's, unless   *)
(* a jump has left a block.                                                *)
Stopped == output # << >> /\ output[Len(output)].text = Error
Reverted ==
    /\ \A p \in 1 .. Len(code) : program[p].op = "leave" =>
           (IF p < Len(code) THEN code[p + 1] ELSE eval_ctx) = code[program[p].match]
    /\ \A p \in 1 .. Len(code) : Enclosing(p) = {} /\ program[p].op # "leave" => code[p] = Environment
    /\ ~Compiling /\ Enclosing(pc) = {} /\ (pc \in DOMAIN program => Here.op # "leave") =>
           now = environment_autoescape \/ JumpsOut \/ Stopped
=============================================================================
