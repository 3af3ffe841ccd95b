--------------------------- MODULE LexicalScopes ---------------------------
(* What the documentation promises of scopes (docs/templates.rst, "Block   *)
(* Nesting and Scope", "Assignments", "With Statement"): every block but   *)
(* if has a scope of its own, a name is read from the innermost scope that *)
(* has it, an assignment stays in its own scope, and a block sees what the *)
(* top level has set, or everything if it is scoped.                       *)
EXTENDS Scoping

(* scopes: the context and the scopes entered, the innermost last; names   *)
(* are those a scope sets at some time. early is set once a name was read  *)
(* that an enclosing scope sets only later; vague once a function was      *)
(* called that should see variables of other scopes than the innermost.    *)
Scope(kind, bound, names) == [kind |-> kind, vars |-> bound, set |-> {}, names |-> names, looped |-> FALSE]
Inner(st) == st.scopes[Len(st.scopes)]
See(scopes, name) ==
    LET having == {i \in DOMAIN scopes : name \in DOMAIN scopes[i].vars}
    IN  IF having = {} THEN missing ELSE scopes[Max(having)].vars[name]
Visible(scopes) == FoldLeft(LAMBDA all, s : s.vars @@ all, Empty, scopes)
SetLater(scopes, name) ==
    LET having == {1} \cup {i \in DOMAIN scopes : name \in DOMAIN scopes[i].vars}
    IN  \E i \in Max(having) + 1 .. Len(scopes) - 1 : name \in scopes[i].names

RECURSIVE Sets(_)
Sets(body) ==
    UNION {CASE body[i].op \in {"set", "setblock", "macro"} -> {body[i].name}
             [] body[i].op = "if" -> Sets(body[i].body) \cup Sets(body[i].else_)
             [] OTHER -> {} : i \in DOMAIN body}

Put(st, name, value) ==
    [st EXCEPT !.scopes[Len(st.scopes)].vars = name :> value @@ @, !.scopes[Len(st.scopes)].set = @ \cup {name}]
Say(st, value) == [st EXCEPT !.out = @ \o Text(value)]
Note(st, name) == [st EXCEPT !.early = @ \/ SetLater(st.scopes, name)]
(* body in a scope of its own. *)
Entered(st, scope) == [st EXCEPT !.scopes = Append(@, scope)]
Left(st) == [st EXCEPT !.scopes = Front(@)]

RECURSIVE Mean(_, _)
Within(st, scope, body) == Left(FoldLeft(Mean, Entered(st, scope), body))
Elsewhere(st, scopes, body) == [FoldLeft(Mean, [st EXCEPT !.scopes = scopes], body) EXCEPT !.scopes = st.scopes]
Captured(st, scope, body) ==
    LET after == Within([st EXCEPT !.out = << >>], scope, body)
    IN  [state |-> [after EXCEPT !.out = st.out], text |-> after.out]
Mean(st, node) ==
    LET names == Sets(node.body)
        value == (IF node.read THEN Text(See(st.scopes, node.name)) ELSE << >>) \o node.value
        reading == IF node.read /\ node.op \in {"set", "with"} THEN Note(st, node.name) ELSE st
        context == IF st.scopes[2].kind = "block" THEN {1} ELSE {1, 2}
        setting == {i \in DOMAIN st.scopes : node.name \in st.scopes[i].set /\ st.scopes[i].kind \in {"loop", "block"}}
    IN  CASE node.op = "out" -> Say(Note(st, node.name), See(st.scopes, node.name))
          [] node.op = "set" -> Put(reading, node.name, value)
          [] node.op = "if" -> FoldLeft(Mean, st, IF node.read THEN node.body ELSE node.else_)
          [] node.op = "for" /\ node.value = << >> -> Within(st, Scope("other", Empty, Sets(node.else_)), node.else_)
          [] node.op = "for" /\ node.value # << >> ->
                 FoldLeft(LAMBDA s, item : Within(s, Scope("loop", node.name :> <<item>>, names), node.body),
                          [st EXCEPT !.scopes[Len(st.scopes)].looped = TRUE], node.value)
          [] node.op = "with" -> Within(reading, Scope("other", node.name :> value, names), node.body)
          [] node.op = "setblock" ->
                 LET captured == Captured(st, Scope("other", Empty, names), node.body)
                 IN  Put(captured.state, node.name, captured.text)
          [] node.op = "filter" -> Within(st, Scope("other", Empty, names), node.body)
          [] node.op = "macro" ->
                 Put([st EXCEPT !.macros = node.name :> [body |-> node.body, depth |-> Len(st.scopes)] @@ @],
                     node.name, macro)
          [] node.op = "callmacro" ->
                 LET called == st.macros[node.name]
                 IN  Elsewhere(st, Append(SubSeq(st.scopes, 1, called.depth), Scope("other", Empty, Sets(called.body))),
                               called.body)
          [] node.op = "block" ->
                 LET seen == IF node.read THEN st.scopes ELSE SelectSeq(st.scopes, LAMBDA s : s.kind \in {"given", "top"})
                 IN  Elsewhere(st, <<Scope("given", Visible(seen), {}), Scope("block", Empty, names)>>, node.body)
          [] node.op = "include" -> Say(st, See(st.scopes, node.name))
          [] node.op = "call" ->
                 Say([st EXCEPT !.vague = @ \/ ~(setting \subseteq {Len(st.scopes)})
                                                \/ (Inner(st).kind = "loop" /\ Inner(st).looped)],
                     IF setting # {} THEN st.scopes[Max(setting)].vars[node.name]
                     ELSE See(SubSeq(st.scopes, 1, Max(context)), node.name))

Meaning ==
    FoldLeft(Mean, [out |-> << >>, macros |-> Empty, early |-> FALSE, vague |-> FALSE,
                    scopes |-> <<Scope("given", Given, {}), Scope("top", Empty, Sets(program))>>], program)

-----------------------------------------------------------------------------
Finished == pc > Len(code)

(* The local variables, with what is resolved, aliased and reset by        *)
(* enter_frame and leave_frame, give every read the value of the scope it  *)
(* is written in - but for a name that an enclosing scope sets only later, *)
(* which hides the variable of the context.                                *)
ReadsItsScope == Finished => Meaning.early \/ Meaning.vague \/ buffers[1] = Meaning.out

(* What blocks, includes and importing templates see when the template has *)
(* run: the variables its top level has set, ifs included, and no other.   *)
ExportsTopLevel ==
    Finished => Meaning.early \/ Meaning.vague \/ (/\ contexts["root"].vars = Meaning.scopes[2].vars
                                  /\ contexts["root"].exported_vars = DOMAIN Meaning.scopes[2].vars)

(* "the active context should have access to variables set in loops and    *)
(* blocks" (Context.call, runtime.py:287).                                 *)
FunctionsSeeLoops == Finished => Meaning.early \/ buffers[1] = Meaning.out
=============================================================================
