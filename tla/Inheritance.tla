----------------------------- MODULE Inheritance -----------------------------
(***************************************************************************)
(* Rendering templates that extend and include one another: the generated  *)
(* root and block functions (compiler.py), the Context they run in, with   *)
(* its blocks and variables, and super and self (runtime.py).  The body of *)
(* a template is a sequence of statements, an activation is a running root *)
(* or block function, and "extends" is decided partly when the template is *)
(* compiled and partly when it runs.                                       *)
(*                                                                         *)
(* One render, one variable; expressions, loops and macros are left out.   *)
(* An inner frame is the body of a for, with or filter: its statements are *)
(* no longer at the top level.  A wrapped statement is in a filter section *)
(* of its own, whose frame has a buffer.                                   *)
(***************************************************************************)
EXTENDS Integers, SequencesExt

CONSTANTS
    Names,      \* the templates
    Blocks,     \* names of blocks
    Programs,   \* sets of templates: functions from Names
    Start,      \* the template that is rendered
    Async,      \* Environment(enable_async)
    None

Extending == {"extends", "extends_if", "extends_unless"}
Placing   == {"block", "inner_block"}
Statements ==
    [op : {"text", "value", "set", "super", "super_super"},
     arg : {None}, wrapped : BOOLEAN]
        \cup [op : {"self"} \cup Placing, arg : Blocks, wrapped : BOOLEAN]
        \cup [op : {"include", "include_alone"} \cup Extending,
              arg : Names, wrapped : BOOLEAN]

(* extends, and the set that is modelled, stand at the top level; super    *)
(* stands in blocks, and what is in a section is no top level.             *)
TopLevel == {s \in Statements :
    /\ s.op \notin {"super", "super_super"}
    /\ s.wrapped => s.op \notin {"set", "block"} \cup Extending}
InBlock == {s \in Statements :
    s.op \notin {"set", "block"} \cup Extending}

(* The blocks that a body places, which its template then defines.         *)
Placed(code) == {code[i].arg : i \in {j \in DOMAIN code : code[j].op \in Placing}}

ASSUME ProgramsAssumption ==
    \A program \in Programs : \A n \in Names :
        /\ program[n].root \in Seq(TopLevel)
        /\ program[n].defines \subseteq Blocks
        /\ program[n].required \subseteq program[n].defines
        /\ program[n].body \in [Blocks -> Seq(InBlock)]
        /\ Placed(program[n].root) \subseteq program[n].defines
        /\ \A b \in Blocks : Placed(program[n].body[b]) \subseteq program[n].defines
ASSUME StartAssumption == Start \in Names
ASSUME NoneAssumption == None \notin Names \cup Blocks

VARIABLES
    program,    \* program[n]: the root, the blocks and the required blocks of n
    contexts,   \* the Contexts of the render and of the includes under way
    stack,      \* the activations, the running one last
    out,        \* what has been rendered, or the exception
    chains      \* history: the templates whose blocks each context has got

vars == <<program, contexts, stack, out, chains>>

-----------------------------------------------------------------------------
(* What the compiler knows before statement i of the root of n: does the   *)
(* template extend at all, has an extends come before (extends_so_far),    *)
(* and one outside of an if (has_known_extends)?                           *)
Before(n, i, ops) == \E j \in 1..(i - 1) : program[n].root[j].op \in ops
HaveExtends(n)    == Before(n, Len(program[n].root) + 1, Extending)
SomeExtends(n, i) == Before(n, i, Extending)

(* Mutant: an extends in an if is taken for a known one.                   *)
KnownExtendsIf(n, i) == Before(n, i, {"extends", "extends_if", "extends_unless"})
KnownExtends(n, i) == Before(n, i, {"extends"})

(* A Context: its blocks, each with the templates that define it, the most *)
(* derived one first, the variable in its vars and in its parent, where    *)
(* None is no variable.                                                    *)
NewContext(n, parent) ==
    [blocks |-> [b \in Blocks |-> IF b \in program[n].defines THEN <<n>> ELSE <<>>],
     vars   |-> None,
     parent |-> parent]

(* resolve_or_missing, and the one variable of get_all *)
Resolve(c) == IF c.vars # None THEN c.vars ELSE c.parent

(* A running function, and how many buffers of filter sections its events  *)
(* go through.                                                             *)
Root(n, sections) ==
    [tpl |-> n, block |-> None, at |-> 1, extended |-> None,
     sections |-> sections]

Init ==
    /\ program \in Programs
    /\ contexts = <<NewContext(Start, None)>>
    /\ stack = <<Root(Start, 0)>>
    /\ out = <<>>
    /\ chains = <<<<Start>>>>

-----------------------------------------------------------------------------
Running == stack # <<>>
Top     == Last(stack)
Ctx     == Last(contexts)
Code    == IF Top.block = None THEN program[Top.tpl].root
           ELSE program[Top.tpl].body[Top.block]
AtEnd   == Top.at > Len(Code)
Stmt    == Code[Top.at]
AtStmt(ops) == Running /\ ~AtEnd /\ Stmt.op \in ops

Moved        == [Top EXCEPT !.at = @ + 1]
Proceed      == stack' = Front(stack) \o <<Moved>>
Enter(a)     == stack' = Front(stack) \o <<Moved, a>>
Through      == Top.sections + IF Stmt.wrapped THEN 1 ELSE 0

Item(what, value) ==
    [what |-> what, tpl |-> Top.tpl, block |-> Top.block, value |-> value,
     sections |-> Through]

(* An exception ends the render, which returns nothing. *)
Raise(what) ==
    /\ out' = <<[what |-> what, tpl |-> Top.tpl, block |-> Top.block,
                 value |-> None, sections |-> 0]>>
    /\ stack' = <<>>
    /\ UNCHANGED <<program, contexts, chains>>

(* "if parent_template is None:", which visit_Output and visit_Block leave *)
(* out where the compiler knows better                                     *)
OutputSuppressed ==
    /\ Top.block = None
    /\ HaveExtends(Top.tpl)
    /\ KnownExtends(Top.tpl, Top.at) \/ Top.extended # None
BlockSuppressed ==
    /\ Top.block = None
    /\ \/ KnownExtends(Top.tpl, Top.at)
       \/ SomeExtends(Top.tpl, Top.at) /\ Top.extended # None

Suppressed ==
    \/ Stmt.op \in {"text", "value", "self"} /\ OutputSuppressed
    \/ Stmt.op = "block" /\ BlockSuppressed

(* An if that does not hold. *)
NotTaken == Stmt.op = "extends_unless"

Skip ==
    /\ AtStmt({"text", "value", "self", "block", "extends_unless"})
    /\ Suppressed \/ NotTaken
    /\ Proceed
    /\ UNCHANGED <<program, contexts, out, chains>>

Text ==
    /\ AtStmt({"text", "value"})
    /\ ~Suppressed
    /\ out' = Append(out,
                 Item(Stmt.op, IF Stmt.op = "value" THEN Resolve(Ctx) ELSE None))
    /\ Proceed
    /\ UNCHANGED <<program, contexts, chains>>

(* A set at the top level: context.vars[...] = ..., whatever is extended.  *)
Set ==
    /\ AtStmt({"set"})
    /\ contexts' = Front(contexts) \o <<[Ctx EXCEPT !.vars = Top.tpl]>>
    /\ Proceed
    /\ UNCHANGED <<program, out, chains>>

-----------------------------------------------------------------------------
(* Blocks.                                                                 *)

(* The generated function of block b, of the template at place l of        *)
(* context.blocks[b].                                                      *)
Activation(b, l) ==
    [tpl |-> Ctx.blocks[b][l], block |-> b, at |-> 1, extended |-> None,
     sections |-> Through]

(* visit_Block: context.blocks[name][0](context), after the test of a      *)
(* required block                                                          *)
CallBlock ==
    LET b == Stmt.arg IN
    /\ AtStmt({"block", "inner_block"})
    /\ ~Suppressed
    /\ IF b \in program[Top.tpl].required /\ Len(Ctx.blocks[b]) <= 1
       THEN Raise("required block not found")
       ELSE /\ Enter(Activation(b, 1))
            /\ UNCHANGED <<program, contexts, out, chains>>

(* BlockReference.__call__ of the block at place l, or the call of the     *)
(* undefined object there is where there is no such place                  *)
CallPlace(b, l) ==
    IF l <= Len(Ctx.blocks[b])
    THEN /\ Enter(Activation(b, l))
         /\ UNCHANGED <<program, contexts, out, chains>>
    ELSE Raise("undefined")

(* self.b(): TemplateReference.__getitem__, an output statement *)
CallSelf ==
    /\ AtStmt({"self"})
    /\ ~Suppressed
    /\ CallPlace(Stmt.arg, 1)

(* Mutant: super skips a level where there is one more.                    *)
CallSuperFar ==
    LET b == Top.block
        n == Len(Ctx.blocks[b])
        here == CHOOSE i \in 1..n : Ctx.blocks[b][i] = Top.tpl
    IN
    /\ AtStmt({"super", "super_super"})
    /\ CallPlace(b, IF here + 2 <= n THEN here + 2 ELSE here + 1)

(* super(): Context.super finds the place of the running function in the   *)
(* list of its block; super.super() goes one place further                 *)
CallSuper ==
    LET b == Top.block
        here == SelectInSeq(Ctx.blocks[b], LAMBDA n : n = Top.tpl)
    IN
    /\ AtStmt({"super", "super_super"})
    /\ CallPlace(b, here + IF Stmt.op = "super" THEN 1 ELSE 2)

EndBlock ==
    /\ Running
    /\ AtEnd
    /\ Top.block # None
    /\ stack' = Front(stack)
    /\ UNCHANGED <<program, contexts, out, chains>>

-----------------------------------------------------------------------------
(* Extends and include.                                                    *)

(* Mutant: the blocks of the parent override those of the child.           *)
ExtendsOverriding ==
    LET p == Stmt.arg
        with(bs) == [b \in Blocks |->
            IF b \in program[p].defines THEN <<p>> \o bs[b] ELSE bs[b]]
    IN
    /\ AtStmt({"extends", "extends_if"})
    /\ Top.extended = None
    /\ stack' = Front(stack) \o <<[Moved EXCEPT !.extended = p]>>
    /\ contexts' = Front(contexts) \o <<[Ctx EXCEPT !.blocks = with(@)]>>
    /\ chains' = Front(chains) \o <<Append(Last(chains), p)>>
    /\ UNCHANGED <<program, out>>

(* visit_Extends: an error if the template has extended another already,   *)
(* which is tested only where there is an extends before; otherwise        *)
(* parent_template is loaded and its blocks go behind those there are      *)
Extends ==
    LET p == Stmt.arg
        with(bs) == [b \in Blocks |->
            IF b \in program[p].defines THEN Append(bs[b], p) ELSE bs[b]]
    IN
    /\ AtStmt({"extends", "extends_if"})
    /\ IF \/ KnownExtends(Top.tpl, Top.at)
          \/ SomeExtends(Top.tpl, Top.at) /\ Top.extended # None
       THEN Raise("extended multiple times")
       ELSE /\ stack' = Front(stack) \o <<[Moved EXCEPT !.extended = p]>>
            /\ contexts' = Front(contexts) \o <<[Ctx EXCEPT !.blocks = with(@)]>>
            /\ chains' = Front(chains) \o <<Append(Last(chains), p)>>
            /\ UNCHANGED <<program, out>>

(* visit_Include, which no extends suppresses.  With the context the       *)
(* template runs in a new one over context.get_all(), and its events are   *)
(* written to the frame's buffer.  Without, its default module is rendered *)
(* on its own and, unless in async code, its strings are yielded past the  *)
(* buffer of the frame.                                                    *)
Include ==
    LET n == Stmt.arg
        alone == Stmt.op = "include_alone"
    IN
    /\ AtStmt({"include", "include_alone"})
    /\ Enter(Root(n, IF alone /\ ~Async THEN Top.sections ELSE Through))
    /\ contexts' = Append(contexts,
                       NewContext(n, IF alone THEN None ELSE Resolve(Ctx)))
    /\ chains' = Append(chains, <<n>>)
    /\ UNCHANGED <<program, out>>

(* Mutant: the parent's root runs in the context of the includer.          *)
EndRootElsewhere ==
    LET up == Top.extended # None IN
    /\ Running
    /\ AtEnd
    /\ Top.block = None
    /\ stack' = IF up
                THEN Front(stack) \o <<Root(Top.extended, Top.sections)>>
                ELSE Front(stack)
    /\ contexts' = Front(contexts)
    /\ chains' = Front(chains)
    /\ UNCHANGED <<program, out>>

(* The end of a root function: parent_template.root_render_func(context),  *)
(* in the same context; "if parent_template is not None" is tested unless  *)
(* the compiler knows that the template extends.                           *)
EndRoot ==
    LET n == Top.tpl
        known == KnownExtends(n, Top.at)
        up == HaveExtends(n) /\ (known \/ Top.extended # None)
    IN
    /\ Running
    /\ AtEnd
    /\ Top.block = None
    /\ IF up /\ Top.extended = None THEN Raise("AttributeError")
       ELSE /\ stack' = IF up
                        THEN Front(stack) \o <<Root(Top.extended, Top.sections)>>
                        ELSE Front(stack)
            /\ contexts' = IF up THEN contexts ELSE Front(contexts)
            /\ chains' = IF up THEN chains ELSE Front(chains)
            /\ UNCHANGED <<program, out>>

-----------------------------------------------------------------------------
Next ==
    \/ Skip \/ Text \/ Set
    \/ CallBlock \/ CallSelf \/ CallSuper \/ EndBlock
    \/ Extends \/ Include \/ EndRoot

Spec == Init /\ [][Next]_vars

-----------------------------------------------------------------------------
(* Properties.                                                             *)

Errors == {"required block not found", "undefined", "extended multiple times",
           "AttributeError"}
Failed == out # <<>> /\ Last(out).what \in Errors

(* The variables hold values of their kinds; every context in use belongs  *)
(* to one root, and the activations above a root to its blocks.            *)
TypeOK ==
    /\ \A i \in DOMAIN contexts :
          /\ contexts[i].blocks \in [Blocks -> Seq(Names)]
          /\ {contexts[i].vars, contexts[i].parent} \subseteq Names \cup {None}
    /\ \A i \in DOMAIN stack :
          /\ stack[i].tpl \in Names
          /\ stack[i].block \in Blocks \cup {None}
          /\ stack[i].extended \in Names \cup {None}
          /\ stack[i].sections \in Nat
          /\ stack[i].block = None =>
                stack[i].at \in 1..(1 + Len(program[stack[i].tpl].root))
    /\ Len(chains) = Len(contexts)
    /\ ~Failed => Len(contexts) =
          Cardinality({i \in DOMAIN stack : stack[i].block = None})

(* What the compiler takes for granted where it leaves out a test of       *)
(* parent_template: behind an extends it knows of, the running root has    *)
(* extended a template, and where it sees no extends, it has not.          *)
ExtendsKnownRight ==
    \A i \in DOMAIN stack :
        LET a == stack[i] IN
        a.block = None =>
            /\ KnownExtends(a.tpl, a.at) => a.extended # None
            /\ a.extended # None => SomeExtends(a.tpl, a.at)

(* In every context a block is defined by the templates of the chain that  *)
(* have it, each once, and a template comes before those it extends: the   *)
(* first is what the block renders, the next is what super() renders.      *)
BlocksFollowChain ==
    \A c \in DOMAIN contexts : \A b \in Blocks :
        LET defs  == contexts[c].blocks[b]
            chain == chains[c]
        IN
        /\ ToSet(defs) = {n \in ToSet(chain) : b \in program[n].defines}
        /\ \A i, j \in DOMAIN defs :
              i < j => \E k, l \in DOMAIN chain :
                          k < l /\ chain[k] = defs[i] /\ chain[l] = defs[j]

(* "Required blocks [...] cannot be rendered directly"                     *)
(* (docs/templates.rst:558): the block a placeholder renders is never one  *)
(* that is marked as required.  TLC refutes this claim.                    *)
RequiredNotRendered ==
    \A i \in DOMAIN stack :
        LET a == stack[i] IN
        a.block # None => ~(/\ a.block \in program[a.tpl].required
                            /\ Last(contexts).blocks[a.block][1] = a.tpl)
=============================================================================
