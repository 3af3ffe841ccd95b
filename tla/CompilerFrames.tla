--------------------------- MODULE CompilerFrames ---------------------------
(* How the compiler keeps the scopes of a template apart in the local      *)
(* variables of one Python function: Symbols and its visitors              *)
(* (idtracking.py) decide for each frame which names are resolved in the   *)
(* context, aliased to an outer variable or start out missing, and the     *)
(* frames of compiler.py write the code for it (run by Scoping).           *)
(*                                                                         *)
(* A statement of a template is [op, name, value, read, body, else_]. What *)
(* is assigned is the literal value, behind what the name held (x ~ '1')   *)
(* if read is set; an if is taken if read is set.                          *)
EXTENDS Integers, SequencesExt

missing == <<"missing">>
macro == <<"macro">>
None == << >>
Text(value) == IF value = missing THEN << >> ELSE value

-----------------------------------------------------------------------------
(* idtracking.py. A chain holds the Symbols of a frame and of its parents, *)
(* outermost first; the reference l_<level>_<name> belongs to a function.  *)
NoSymbols(func) == [func |-> func, refs |-> {}, loads |-> << >>, stores |-> {}]
find_ref(chain, name) ==
    LET known == {i \in DOMAIN chain : name \in chain[i].refs}
    IN  IF known = {} THEN None ELSE <<chain[Max(known)].func, Max(known) - 1, name>>

Top(chain, symbols) == [chain EXCEPT ![Len(chain)] = symbols]
_define_ref(symbols, name, action, param) ==
    [symbols EXCEPT !.refs = @ \cup {name}, !.loads = name :> [action |-> action, param |-> param] @@ @]

load(chain, name) ==
    IF find_ref(chain, name) # None THEN chain
    ELSE Top(chain, _define_ref(Last(chain), name, "resolve", None))
store(chain, name) ==
    LET stored == [Last(chain) EXCEPT !.stores = @ \cup {name}]
        outer == find_ref(Front(chain), name)
    IN  Top(chain, IF name \in stored.refs THEN stored
                   ELSE IF outer # None THEN _define_ref(stored, name, "alias", outer)
                   ELSE _define_ref(stored, name, "undefined", None))
declare_parameter(chain, name) ==
    Top(chain, _define_ref([Last(chain) EXCEPT !.stores = @ \cup {name}], name, "param", None))

branch_updateUnresolved(chain, branches) ==  \* mutated: what one branch stores is missing in the others
    Top(chain, FoldLeft(LAMBDA s, b : [s EXCEPT !.refs = @ \cup b.refs, !.loads = b.loads @@ @,
                                                !.stores = @ \cup b.stores], Last(chain), branches))
(* branches: the Symbols that the bodies of an if have made of the frame's.*)
branch_update(chain, branches) ==
    LET before == Last(chain)
        merged == FoldLeft(LAMBDA s, b : [s EXCEPT !.refs = @ \cup b.refs, !.loads = b.loads @@ @,
                                                   !.stores = @ \cup b.stores], before, branches)
        outer(name) == find_ref(Front(chain), name)
        Branching(name) == IF outer(name) # None THEN [action |-> "alias", param |-> outer(name)]
                           ELSE [action |-> "resolve", param |-> None]
    IN  Top(chain, [merged EXCEPT !.loads =
                        [name \in merged.stores \ before.stores |-> Branching(name)] @@ @])

(* FrameSymbolVisitor: a frame looks into the bodies of an if only.        *)
RECURSIVE visit(_, _)
visit(chain, node) ==
    LET Branch(body) == Last(FoldLeft(visit, chain, body))
        reading == IF node.read THEN load(chain, node.name) ELSE chain
    IN  CASE node.op \in {"out", "callmacro"} -> load(chain, node.name)
          [] node.op = "set" -> store(reading, node.name)
          [] node.op = "with" -> reading
          [] node.op \in {"setblock", "macro"} -> store(chain, node.name)
          [] node.op = "if" -> branch_update(chain, <<Branch(node.body), Branch(<< >>), Branch(node.else_)>>)
          [] OTHER -> chain

(* RootVisitor: the symbols of a new frame for a node, or a part of it.    *)
analyze_node(chain, node, part) ==
    LET declared == IF node.op = "with" \/ (node.op = "for" /\ part = "body")
                    THEN declare_parameter(chain, node.name) ELSE chain
    IN  FoldLeft(visit, declared, IF part = "else" THEN node.else_ ELSE node.body)
dump_stores(chain) ==
    [name \in UNION {chain[i].stores : i \in DOMAIN chain} |-> find_ref(chain, name)]

-----------------------------------------------------------------------------
(* compiler.py. unit is the function whose context a name is resolved in.  *)
RootFrame(unit) == [chain |-> <<NoSymbols(unit)>>, unit |-> unit,
                    toplevel |-> FALSE, loop_frame |-> FALSE, block_frame |-> FALSE]
inner(frame, func) == [frame EXCEPT !.chain = Append(@, NoSymbols(func)),
                                    !.toplevel = FALSE, !.loop_frame = FALSE, !.block_frame = FALSE]
Func(frame) == Last(frame.chain).func
Analyzed(frame, node, part) == [frame EXCEPT !.chain = analyze_node(@, node, part)]

enter_frame(frame) ==
    LET symbols == Last(frame.chain)
    IN  <<[op |-> "enter", unit |-> frame.unit,
           loads |-> {[target |-> <<symbols.func, Len(frame.chain) - 1, name>>, name |-> name,
                       action |-> symbols.loads[name].action, param |-> symbols.loads[name].param] :
                      name \in DOMAIN symbols.loads}]>>
leave_frame(frame) ==
    <<[op |-> "leave", targets |-> {<<Func(frame), Len(frame.chain) - 1, name>> :
                                    name \in DOMAIN Last(frame.chain).loads}]>>

pop_assign_trackingAnywhere(frame, name) ==  \* mutated: every assignment outside of loops is exported
    LET to(dict) == <<[op |-> "track", dict |-> dict, func |-> Func(frame), name |-> name,
                       ref |-> find_ref(frame.chain, name)]>>
    IN  IF frame.loop_frame THEN to("loop") ELSE IF frame.block_frame THEN to("block") ELSE to("context")
pop_assign_tracking(frame, name) ==
    LET to(dict) == <<[op |-> "track", dict |-> dict, func |-> Func(frame), name |-> name,
                       ref |-> find_ref(frame.chain, name)]>>
    IN  CASE frame.loop_frame -> to("loop")
          [] ~frame.loop_frame /\ frame.block_frame -> to("block")
          [] ~frame.loop_frame /\ ~frame.block_frame /\ frame.toplevel -> to("context")
          [] OTHER -> << >>
Assigned(node, target, source) ==
    <<[op |-> "assign", target |-> target, value |-> node.value,
       source |-> IF node.read THEN source ELSE None]>>
Simple(op) == <<[op |-> op]>>

RECURSIVE generate(_, _)
blockvisit(body, frame) == FlattenSeq([i \in DOMAIN body |-> generate(body[i], frame)])

(* The bodies of macros and blocks follow the statement that defines or    *)
(* calls them; running goes on behind them.                                *)
visit_If(node, frame) ==
    LET else_ == blockvisit(node.else_, frame)
        body == blockvisit(node.body, frame) \o <<[op |-> "jump", size |-> Len(else_)]>>
    IN  <<[op |-> "if", taken |-> node.read, size |-> Len(body)]>> \o body \o else_
visit_For(node, frame) ==
    LET loop_frame == Analyzed([inner(frame, Func(frame)) EXCEPT !.loop_frame = TRUE], node, "body")
        else_frame == Analyzed(inner(frame, Func(frame)), node, "else")
        body == enter_frame(loop_frame) \o <<[op |-> "loop_vars", func |-> Func(frame)]>>
                \o blockvisit(node.body, loop_frame)
        otherwise == IF node.else_ = << >> THEN << >>
                     ELSE enter_frame(else_frame) \o blockvisit(node.else_, else_frame)
                          \o leave_frame(else_frame)
    IN  Simple("iter")
        \o <<[op |-> "for", target |-> find_ref(loop_frame.chain, node.name), items |-> node.value,
              size |-> Len(body) + 1]>>
        \o body \o <<[op |-> "jump", size |-> -(Len(body) + 2)]>> \o leave_frame(loop_frame)
        \o <<[op |-> "else", size |-> Len(otherwise)]>> \o otherwise
visit_With(node, frame) ==
    LET with_frame == Analyzed(inner(frame, Func(frame)), node, "body")
    IN  enter_frame(with_frame)
        \o Assigned(node, find_ref(with_frame.chain, node.name), find_ref(frame.chain, node.name))
        \o blockvisit(node.body, with_frame) \o leave_frame(with_frame)
visit_Assign(node, frame) ==
    LET ref == find_ref(frame.chain, node.name)
    IN  Assigned(node, ref, ref) \o pop_assign_tracking(frame, node.name)
visit_AssignBlock(node, frame) ==
    LET block_frame == Analyzed(inner(frame, Func(frame)), node, "body")
    IN  enter_frame(block_frame) \o Simple("buffer") \o blockvisit(node.body, block_frame)
        \o <<[op |-> "capture", target |-> find_ref(frame.chain, node.name)]>>
        \o pop_assign_tracking(frame, node.name) \o leave_frame(block_frame)
visit_FilterBlock(node, frame) ==
    LET filter_frame == Analyzed(inner(frame, Func(frame)), node, "body")
    IN  enter_frame(filter_frame) \o Simple("buffer") \o blockvisit(node.body, filter_frame)
        \o Simple("filter") \o leave_frame(filter_frame)
visit_Macro(node, frame) ==
    LET macro_frame == Analyzed(inner(frame, node.name), node, "body")
        body == Simple("buffer") \o enter_frame(macro_frame) \o blockvisit(node.body, macro_frame)
                \o Simple("filter") \o Simple("return")
    IN  <<[op |-> "def", name |-> node.name, size |-> Len(body)]>> \o body \o <<[op |-> "assign", target |-> find_ref(frame.chain, node.name),
                                value |-> macro, source |-> None]>>
        \o IF frame.toplevel THEN pop_assign_tracking(frame, node.name) ELSE << >>
visit_Block(node, frame) ==
    LET block_frame == Analyzed([RootFrame(node.name) EXCEPT !.block_frame = TRUE], node, "body")
        body == enter_frame(block_frame) \o blockvisit(node.body, block_frame) \o Simple("return")
    IN  <<[op |-> "block", size |-> Len(body), name |-> node.name, unit |-> frame.unit,
           stores |-> IF node.read THEN dump_stores(frame.chain) ELSE << >>]>> \o body
generate(node, frame) ==
    CASE node.op = "out" -> <<[op |-> "out", ref |-> find_ref(frame.chain, node.name)]>>
      [] node.op = "set" -> visit_Assign(node, frame)
      [] node.op = "if" -> visit_If(node, frame)
      [] node.op = "for" -> visit_For(node, frame)
      [] node.op = "with" -> visit_With(node, frame)
      [] node.op = "setblock" -> visit_AssignBlock(node, frame)
      [] node.op = "filter" -> visit_FilterBlock(node, frame)
      [] node.op = "macro" -> visit_Macro(node, frame)
      [] node.op = "callmacro" -> <<[op |-> "callmacro", ref |-> find_ref(frame.chain, node.name), name |-> node.name]>>
      [] node.op = "block" -> visit_Block(node, frame)
      [] node.op = "include" -> <<[op |-> "include", unit |-> frame.unit, name |-> node.name,
                                   stores |-> dump_stores(frame.chain)]>>
      [] node.op = "call" -> <<[op |-> "call", unit |-> frame.unit, name |-> node.name, func |-> Func(frame),
                                loop |-> frame.loop_frame, block |-> frame.block_frame]>>
visit_Template(body) ==
    LET root == [RootFrame("root") EXCEPT !.toplevel = TRUE,
                                          !.chain = <<Last(FoldLeft(visit, @, body))>>]
    IN  enter_frame(root) \o blockvisit(body, root)
=============================================================================
