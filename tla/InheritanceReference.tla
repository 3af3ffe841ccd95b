------------------------ MODULE InheritanceReference ------------------------
(***************************************************************************)
(* What a render is to give, said of the templates and not of the code     *)
(* they are compiled to: the text along the chain of a template, the one   *)
(* that is rendered first and its last ancestor last, with every block     *)
(* looked up in the chain as far as it is known by then.  No stack, no     *)
(* context and no list of blocks.                                          *)
(***************************************************************************)
EXTENDS Inheritance

(* The result of a part: what is printed, an error where there is one, and *)
(* whether the code has departed from the documentation in it.             *)
Result(items, error) == [items |-> items, error |-> error, departs |-> FALSE]
Nothing == Result(<<>>, None)
Error(what) == Result(<<>>, what)
Then(r, s) == IF r.error # None THEN r
              ELSE [items |-> r.items \o s.items, error |-> s.error,
                    departs |-> r.departs \/ s.departs]
InOrder(f) == FoldRight(Then, f, Nothing)

(* The place of the extends that counts in the root of n, behind the root  *)
(* where there is none; and the template it names.                         *)
Taken(n) == SelectInSeq(program[n].root,
                        LAMBDA s : s.op \in {"extends", "extends_if"})
Cut(n)   == IF Taken(n) = 0 THEN Len(program[n].root) + 1 ELSE Taken(n)
ParentOf(n) == program[n].root[Cut(n)].arg

(* The first template, its parent, and so on up to one that extends none.  *)
RECURSIVE Chain(_)
Chain(n) == <<n>> \o IF Taken(n) = 0 THEN <<>> ELSE Chain(ParentOf(n))

Definers(chain, b) == SelectSeq(chain, LAMBDA n : b \in program[n].defines)

(* The variable at statement j of the i-th root: set by the last of the    *)
(* chain that has set it by then, and else as the includer has it.         *)
Value(chain, i, j, outer) ==
    LET setters == {k \in 1..i : \E l \in DOMAIN program[chain[k]].root :
                        /\ program[chain[k]].root[l].op = "set"
                        /\ k = i => l < j}
    IN IF setters = {} THEN outer ELSE chain[Max(setters)]

(* The filter sections around a part: how many there are, and past how     *)
(* many of them the code writes.                                           *)
NoSection == [due |-> 0, past |-> 0]
InSection(around) == [around EXCEPT !.due = @ + 1]

(* Where the code departs from "renders another template and outputs the   *)
(* result into the current template" (docs/templates.rst:1143): in         *)
(* synchronous code an include without the context writes past the filter  *)
(* section it stands in (compiler.py:1089).                                *)
PastSection(around) == IF Async THEN around ELSE [around EXCEPT !.past = @ + 1]

RECURSIVE Rendering(_, _, _), Block(_, _, _, _, _),
          Statement(_, _, _, _, _, _, _)

(* Block b as the l-th of its definers has it. *)
Block(chain, b, l, value, around) ==
    LET defs == Definers(chain, b)
        body == program[defs[l]].body[b]
    IN IF l > Len(defs) THEN Error("undefined")
       ELSE InOrder([k \in DOMAIN body |->
                       Statement(body[k], defs[l], chain, b, l, value, around)])

(* A block that is required is overridden at some point and not rendered   *)
(* itself (docs/templates.rst:557-560), but for super().                   *)
Unfulfilled(chain, b) ==
    LET defs == Definers(chain, b)
    IN defs # <<>> /\ b \in program[defs[1]].required

(* Where the code departs from it: it raises the exception only where the  *)
(* block is placed and no other template of the chain defines it           *)
(* (compiler.py:964).  A required block that overrides another one, and    *)
(* one that self calls, it renders.                                        *)
Unnoticed(s, chain) == s.op = "self" \/ Len(Definers(chain, s.arg)) > 1

Named(s, chain, value, around) ==
    IF ~Unfulfilled(chain, s.arg) THEN Block(chain, s.arg, 1, value, around)
    ELSE IF Unnoticed(s, chain)
    THEN [Block(chain, s.arg, 1, value, around) EXCEPT !.departs = TRUE]
    ELSE Error("required block not found")

(* One statement of n that is not left out, where chain is known: in the   *)
(* l-th b of the chain, or in the root (b = None).                         *)
Statement(s, n, chain, b, l, value, around) ==
    LET within == IF s.wrapped THEN InSection(around) ELSE around
        item == [what |-> s.op, tpl |-> n, block |-> b,
                 value |-> IF s.op = "value" THEN value ELSE None,
                 sections |-> within]
    IN
    CASE s.op \in {"text", "value"} -> Result(<<item>>, None)
      [] s.op \in {"self"} \cup Placing -> Named(s, chain, value, within)
      [] s.op = "super" -> Block(chain, b, l + 1, value, within)
      [] s.op = "super_super" -> Block(chain, b, l + 2, value, within)
      [] s.op = "include" -> Rendering(s.arg, value, within)
      [] s.op = "include_alone" ->
            Rendering(s.arg, None,
                      IF s.wrapped THEN PastSection(within) ELSE within)
      [] OTHER -> Nothing

(* Template n included where the variable is outer.  Behind the extends    *)
(* that counts only includes and blocks of inner frames print, and they    *)
(* find the blocks of the parent too; another extends is an error.         *)
Rendering(n, outer, around) ==
    LET chain == Chain(n)
        At(i, j) ==
            LET root == program[chain[i]].root
                s == root[j]
                behind == j > Cut(chain[i])
                known == SubSeq(chain, 1, IF behind THEN i + 1 ELSE i)
            IN
            IF behind /\ s.op \in {"extends", "extends_if"}
            THEN Error("extended multiple times")
            ELSE IF behind /\ s.op \notin {"inner_block", "include", "include_alone"}
            THEN Nothing
            ELSE Statement(s, chain[i], known, None, 0,
                           Value(chain, i, j, outer), around)
    IN InOrder([i \in DOMAIN chain |->
                  InOrder([j \in DOMAIN program[chain[i]].root |-> At(i, j)])])

Whole == Rendering(Start, None, NoSection)

(* What is printed is what was to be, through the filter sections around   *)
(* it, those apart that the code writes past.                              *)
Prints(given, item) ==
    /\ given.what = item.what /\ given.tpl = item.tpl
    /\ given.block = item.block /\ given.value = item.value
    /\ given.sections \in {item.sections.due,
                           item.sections.due - item.sections.past}

(* A render that has ended has given what the templates say, each part     *)
(* through the filter sections around it, or it has raised the exception   *)
(* they call for: the generated code, which decides at compile time and at *)
(* run time what an extends leaves out, and which keeps the blocks in      *)
(* lists, agrees with the chain of the templates.  Two exceptions are      *)
(* allowed for and not demanded: PastSection and Unnoticed.                *)
RendersChain ==
    stack = <<>> =>
        LET r == Whole IN
        \/ IF r.error # None THEN Len(out) = 1 /\ out[1].what = r.error
           ELSE /\ Len(out) = Len(r.items)
                /\ \A i \in DOMAIN out : Prints(out[i], r.items[i])
        \/ r.departs /\ Len(out) = 1 /\ out[1].what = "required block not found"

(* "Filter sections allow you to apply regular Jinja filters on a block of *)
(* template data" (docs/templates.rst:1017): what is rendered inside of a  *)
(* filter section goes through the filter.  TLC refutes this claim.        *)
FilterSectionsApply ==
    stack = <<>> /\ ~Failed =>
        \A i \in DOMAIN out : out[i].sections = Whole.items[i].sections.due
=============================================================================
