-------------------------- MODULE AutoescapeBlocks --------------------------
(* What autoescape blocks promise of the outputs in them.                  *)
EXTENDS Expressions, EvalContexts

(* The autoescape of the innermost block an instruction is written in.     *)
RECURSIVE Lexical(_)
Lexical(p) ==
    IF Enclosing(p) = {} THEN environment_autoescape
    ELSE LET enter == Max(Enclosing(p))
         IN  Truth(Meaning(program[enter].node, [autoescape |-> Lexical(enter), variables |-> variables]))

(* Where the code is known to go another way: constants in a volatile      *)
(* block, "~" where it is folded or volatile, and jumps out of a block.    *)
ConstantInVolatile(p) == code[p].volatile /\ ~Fails(as_const(program[p].node, code[p]))
RECURSIVE Concatenates(_)
Concatenates(node) == node.op = "concat" \/ \E i \in DOMAIN node.kids : Concatenates(node.kids[i])
JoinsUnescaped(p) ==
    /\ Concatenates(program[p].node)
    /\ code[p].volatile \/ ~Fails(as_const(program[p].node, code[p]))

(* "Autoescaping is active within this block" and "after an endautoescape  *)
(* the behavior is reverted to what it was before"                         *)
(* (docs/templates.rst:1952-1960), whatever was folded, and whatever the   *)
(* compiler knew of the block: each output is what its expression means    *)
(* under the autoescape of the block it is written in.                     *)
AsWritten(out) == out.text = Written(program[out.at].node, [autoescape |-> Lexical(out.at), variables |-> variables])
AutoescapeActive == \A i \in DOMAIN output : AsWritten(output[i])
FoldingUnseen ==
    \A i \in DOMAIN output :
        \/ AsWritten(output[i])
        \/ JumpsOut \/ ConstantInVolatile(output[i].at) \/ JoinsUnescaped(output[i].at)
=============================================================================
