--------------------------- MODULE ImportsProofs ---------------------------
(* Imports implements ImportsAlone for any tasks, programs, macros and     *)
(* texts.                                                                  *)
EXTENDS ImportMeaning, TLAPS

-----------------------------------------------------------------------------
(* The inductive invariant.  A name stands for a module there is, for one  *)
(* of its macros or for a string, and x never for a module; the default    *)
(* module is what lib renders with its own globals and nothing else.       *)
Module == {root_render_func(x) : x \in Dictionaries}
Scalars == {Missing} \cup {Resolve(x) : x \in Dictionaries} \cup {value("macro", x) : x \in Dictionaries}

ProgramsInv == program \in [Tasks -> Seq(Statements)] /\ pc \in [Tasks -> Nat \ {0}]
GlobalsInv ==
    /\ lib_globals \in Dictionaries
    /\ globals \in [Tasks -> Dictionaries] /\ parent \in [Tasks -> Dictionaries]
ModulesInv == modules \in Seq(Module)
NamesInv ==
    /\ vars \in [Tasks -> [Identifiers -> Scalars \cup {ModuleValue(n) : n \in 1 .. Len(modules)}]]
    /\ \A t \in Tasks : vars[t]["x"].kind # "module"
ExportsInv ==
    /\ exported_vars \in [Tasks -> SUBSET Identifiers]
    /\ \A t \in Tasks : \A name \in exported_vars[t] : Public(name)
DefaultModuleInv ==
    _module # 0 => _module \in 1 .. Len(modules) /\ modules[_module] = root_render_func(lib_globals)
WaitingInv ==
    /\ waiting \in [Tasks -> BOOLEAN]
    /\ \A t \in Tasks : waiting[t] =>
          /\ At(t, {"import", "from"}) /\ ~Rejected(macro)
          /\ ~Stmt(t).with_context /\ keys(t) = {}
ImportsInv ==
    ProgramsInv /\ GlobalsInv /\ ModulesInv /\ NamesInv /\ ExportsInv /\ DefaultModuleInv /\ WaitingInv

LEMMA InitInv == Init => ImportsInv
<1> SUFFICES ASSUME Init PROVE ImportsInv
  OBVIOUS
<1>1. ProgramsInv
  BY DEF Init, Start, ProgramsInv
<1>2. GlobalsInv
  BY DEF Init, Start, GlobalsInv
<1>3. ModulesInv
  BY DEF Init, Start, ModulesInv
<1>4. NamesInv
  BY NamesAssumption DEF Init, Start, NamesInv, Scalars, Missing, value
<1>5. ExportsInv
  BY DEF Init, Start, ExportsInv
<1>6. DefaultModuleInv
  BY DEF Init, Start, DefaultModuleInv
<1>7. WaitingInv
  BY DEF Init, Start, WaitingInv
<1> QED BY <1>1, <1>2, <1>3, <1>4, <1>5, <1>6, <1>7 DEF ImportsInv

-----------------------------------------------------------------------------
(* ImportsAlone has its own copy of the words both modules are told in.    *)
LEMMA SameWords ==
    /\ Alone!None = None /\ Alone!NoAttribute = NoAttribute /\ Alone!Undefined = Undefined
    /\ \A kind, is : Alone!value(kind, is) = value(kind, is)
    /\ \A x : Alone!string(x) = string(x) /\ Alone!Resolve(x) = Resolve(x)
    /\ \A v : Alone!x_of(v) = x_of(v)
    /\ \A name : Alone!Public(name) = Public(name)
    /\ \A t : Alone!Stmt(t) = Stmt(t)
    /\ \A t, ops : Alone!At(t, ops) = At(t, ops)
  BY DEF None, NoAttribute, Undefined, value, string, Resolve, x_of, Public, Stmt, At,
         Alone!None, Alone!NoAttribute, Alone!Undefined, Alone!value, Alone!string,
         Alone!Resolve, Alone!x_of, Alone!Public, Alone!Stmt, Alone!At

-----------------------------------------------------------------------------
(* What a name stands for                                                  *)

LEMMA StatementThere ==
    ASSUME ImportsInv, NEW t \in Tasks, pc[t] <= Len(program[t])
    PROVE  /\ Stmt(t) \in Statements /\ Stmt(t).name \in Identifiers
           /\ Stmt(t).op \in {"import", "from", "set", "out", "call"}
           /\ Stmt(t).name = "x" => Stmt(t).op # "import"
<1>1. Stmt(t) \in Statements
  BY DEF ImportsInv, ProgramsInv, Stmt
<1> QED BY <1>1 DEF Statements

(* Resolve gives no module, and x_of takes back what it gives.             *)
LEMMA Resolved ==
    ASSUME NEW x \in Dictionaries
    PROVE  /\ Resolve(x).kind \in {"undefined", "string"} /\ Resolve(x) # Missing
           /\ x_of(Resolve(x)) = x
  BY DEF Resolve, Undefined, string, value, x_of, None, Missing

(* A value is a module of lib there is, or means itself.                   *)
LEMMA NamedValue ==
    ASSUME ImportsInv, NEW t \in Tasks, NEW name \in Identifiers
    PROVE  /\ scope[t][name] = Meaning(resolve_or_missing(t, name))
           /\ \/ /\ resolve_or_missing(t, name).kind \in {"undefined", "string", "macro"}
                 /\ resolve_or_missing(t, name).is \in Dictionaries
                 /\ Meaning(resolve_or_missing(t, name)) = resolve_or_missing(t, name)
              \/ /\ name # "x"
                 /\ \E x \in Dictionaries :
                       /\ resolve_or_missing(t, name).kind = "module"
                       /\ modules[resolve_or_missing(t, name).module] = root_render_func(x)
                       /\ Meaning(resolve_or_missing(t, name)) = value("lib", x)
<1> DEFINE v == resolve_or_missing(t, name)
<1>1. scope[t][name] = Meaning(v)
  BY DEF scope
<1>2. CASE v \in {Resolve(x) : x \in Dictionaries} \cup {value("macro", x) : x \in Dictionaries}
  <2>1. v.kind \in {"undefined", "string", "macro"} /\ v.is \in Dictionaries
    <3>1. ASSUME NEW x \in Dictionaries, v = Resolve(x) PROVE <2>1!:
      BY <3>1 DEF Resolve, Undefined, string, value, Dictionaries
    <3>2. ASSUME NEW x \in Dictionaries, v = value("macro", x) PROVE <2>1!:
      BY <3>2 DEF value
    <3> QED BY <1>2, <3>1, <3>2
  <2> QED BY <1>1, <2>1 DEF Meaning
<1>3. CASE \E n \in 1 .. Len(modules) : v = ModuleValue(n) /\ name # "x"
  <2>1. PICK n \in 1 .. Len(modules) : v = ModuleValue(n) /\ name # "x"
    BY <1>3
  <2>2. v.kind = "module" /\ v.module = n
    BY <2>1 DEF ModuleValue, value
  <2>3. modules[n] \in Module
    BY <2>1 DEF ImportsInv, ModulesInv
  <2>4. PICK x \in Dictionaries : modules[n] = root_render_func(x)
    BY <2>3 DEF Module
  <2>5. Meaning(v) = value("lib", x)
    BY <2>2, <2>4 DEF Meaning, root_render_func, value
  <2> QED BY <1>1, <2>1, <2>2, <2>4, <2>5
<1> QED
  <2>1. vars[t][name] \in Scalars \cup {ModuleValue(n) : n \in 1 .. Len(modules)}
    BY DEF ImportsInv, NamesInv
  <2>2. name = "x" => vars[t][name].kind # "module"
    BY DEF ImportsInv, NamesInv
  <2>3. parent[t] \in Dictionaries /\ None \in Dictionaries
    BY DEF ImportsInv, GlobalsInv, Dictionaries
  <2>4. Undefined = Resolve(None)
    BY DEF Resolve
  <2>5. CASE vars[t][name] = Missing
    BY <1>2, <2>3, <2>4, <2>5 DEF resolve_or_missing
  <2>6. CASE vars[t][name] # Missing
    <3>1. v = vars[t][name]
      BY <2>6 DEF resolve_or_missing
    <3>2. CASE v \in Scalars
      BY <1>2, <2>6, <3>1, <3>2 DEF Scalars
    <3>3. ASSUME NEW n \in 1 .. Len(modules), v = ModuleValue(n) PROVE name # "x"
      BY <2>2, <3>1, <3>3 DEF ModuleValue, value
    <3> QED BY <1>3, <2>1, <3>1, <3>2, <3>3
  <2> QED BY <2>5, <2>6

-----------------------------------------------------------------------------
(* What the parts of a step do                                             *)

LEMMA Moves ==
    ASSUME ImportsInv, UNCHANGED templates, NEW t \in Tasks, NEW p \in Nat \ {0}, Goto(t, p),
           waiting' = [waiting EXCEPT ![t] = FALSE]
    PROVE  ProgramsInv' /\ GlobalsInv' /\ WaitingInv'
<1>1. ProgramsInv'
  BY DEF ImportsInv, ProgramsInv, templates, Goto
<1>2. GlobalsInv'
  BY DEF ImportsInv, GlobalsInv, templates
<1>3. WaitingInv'
  <2>1. waiting' \in [Tasks -> BOOLEAN]
    BY DEF ImportsInv, WaitingInv
  <2>2. ASSUME NEW u \in Tasks, waiting'[u]
        PROVE  At(u, {"import", "from"})' /\ ~Rejected(macro)' /\ ~Stmt(u)'.with_context /\ keys(u)' = {}
    <3>1. u # t /\ waiting[u]
      BY <2>2 DEF ImportsInv, WaitingInv
    <3>2. At(u, {"import", "from"}) /\ ~Rejected(macro) /\ ~Stmt(u).with_context /\ keys(u) = {}
      BY <3>1 DEF ImportsInv, WaitingInv
    <3>3. pc'[u] = pc[u]
      BY <3>1 DEF Goto, ImportsInv, ProgramsInv
    <3> QED BY <3>2, <3>3 DEF At, Stmt, keys, templates
  <2> QED BY <2>1, <2>2 DEF WaitingInv
<1> QED BY <1>1, <1>2, <1>3

LEMMA NoneBound ==
    ASSUME ImportsInv, UNCHANGED <<templates, vars, exported_vars, _module, modules>>
    PROVE  /\ ModulesInv' /\ NamesInv' /\ ExportsInv' /\ DefaultModuleInv'
           /\ scope' = scope
<1>1. ModulesInv' /\ NamesInv' /\ ExportsInv' /\ DefaultModuleInv'
  BY DEF ImportsInv, ModulesInv, NamesInv, ExportsInv, DefaultModuleInv, templates
<1>2. scope' = scope
  BY DEF scope, Meaning, resolve_or_missing, templates
<1> QED BY <1>1, <1>2

LEMMA Bound ==
    ASSUME ImportsInv, NEW t \in Tasks, NEW name \in Identifiers,
           NEW v \in (Scalars \ {Missing}) \cup {ModuleValue(n) : n \in 1 .. Len(modules')},
           name = "x" => v.kind # "module",
           vars' = [vars EXCEPT ![t][name] = v], parent' = parent,
           Len(modules') \in Nat, Len(modules) <= Len(modules'),
           \A i \in 1 .. Len(modules) : modules'[i] = modules[i]
    PROVE  NamesInv' /\ scope' = [scope EXCEPT ![t][name] = Meaning(v)']
<1>1. Len(modules) \in Nat
  BY DEF ImportsInv, ModulesInv
<1>2. NamesInv
  BY DEF ImportsInv
<1>3. vars' \in [Tasks -> [Identifiers -> Scalars \cup {ModuleValue(n) : n \in 1 .. Len(modules')}]]
  BY <1>1, <1>2 DEF NamesInv
<1>4. \A u \in Tasks : vars'[u]["x"].kind # "module"
  BY <1>2, NamesAssumption DEF NamesInv
<1>5. v # Missing
  BY DEF ModuleValue, Missing, value
<1>6. ASSUME NEW u \in Tasks, NEW other \in Identifiers, <<u, other>> # <<t, name>>
      PROVE  scope'[u][other] = scope[u][other]
  <2>1. vars'[u][other] = vars[u][other]
    BY <1>2, <1>6 DEF NamesInv
  <2>2. resolve_or_missing(u, other)' = resolve_or_missing(u, other)
    BY <2>1 DEF resolve_or_missing
  <2>3. resolve_or_missing(u, other).kind = "module" =>
            resolve_or_missing(u, other).module \in 1 .. Len(modules)
    <3>1. CASE vars[u][other] = Missing
      BY <3>1, Resolved DEF resolve_or_missing, Undefined, value, ImportsInv, GlobalsInv
    <3>2. CASE vars[u][other] \in Scalars \ {Missing}
      BY <3>2, Resolved DEF Scalars, resolve_or_missing, value
    <3>3. ASSUME NEW n \in 1 .. Len(modules), vars[u][other] = ModuleValue(n) PROVE <2>3
      <4>1. vars[u][other] # Missing
        BY <3>3 DEF ModuleValue, Missing, value
      <4> QED BY <3>3, <4>1 DEF resolve_or_missing, ModuleValue
    <3> QED BY <1>2, <3>1, <3>2, <3>3 DEF NamesInv
  <2>4. Meaning(resolve_or_missing(u, other))' = Meaning(resolve_or_missing(u, other))
    BY <2>2, <2>3 DEF Meaning
  <2> QED BY <2>4 DEF scope
<1>7. scope'[t][name] = Meaning(v)'
  <2>1. vars'[t][name] = v
    BY <1>2 DEF NamesInv
  <2> QED BY <1>5, <2>1 DEF scope, resolve_or_missing, Meaning
<1>8. scope' = [scope EXCEPT ![t][name] = Meaning(v)']
  <2> DEFINE m == Meaning(v)'
  <2>1. /\ scope = [u \in Tasks |-> [other \in Identifiers |-> scope[u][other]]]
        /\ scope' = [u \in Tasks |-> [other \in Identifiers |-> scope'[u][other]]]
    BY DEF scope
  <2>2. scope'[t][name] = m
    BY <1>7
  <2> HIDE DEF m
  <2>3. \A u \in Tasks, other \in Identifiers :
           scope'[u][other] = IF u = t /\ other = name THEN m ELSE scope[u][other]
    BY <1>6, <2>2
  <2>4. scope' = [scope EXCEPT ![t][name] = m]
    BY <2>1, <2>3
  <2> QED BY <2>4 DEF m
<1> QED BY <1>3, <1>4, <1>8 DEF NamesInv

LEMMA Exporting ==
    ASSUME ImportsInv, NEW t \in Tasks, NEW name \in Identifiers, NEW own \in BOOLEAN,
           exported_vars' = [exported_vars EXCEPT ![t] =
               IF Public(name) THEN IF own THEN @ \cup {name} ELSE @ \ {name} ELSE @]
    PROVE  /\ ExportsInv'
           /\ exported_vars' = [exported_vars EXCEPT ![t] = (@ \ {name}) \cup {n \in {name} : own /\ Public(n)}]
  BY DEF ImportsInv, ExportsInv

(* getattr of a module of lib is what lib has exported under the name.     *)
LEMMA AttributeOf ==
    ASSUME NEW x \in Dictionaries, NEW name
    PROVE  /\ getattr(root_render_func(x), name) = Alone!Attribute(x, name)
           /\ getattr(root_render_func(x), name) \in Scalars \ {Missing}
           /\ getattr(root_render_func(x), name).kind # "module"
<1>1. getattr(root_render_func(x), name) \in {Resolve(x), value("macro", x), Undefined}
  BY DEF getattr, root_render_func
<1>2. getattr(root_render_func(x), name) = Alone!Attribute(x, name)
  BY SameWords DEF getattr, root_render_func, Alone!Attribute
<1>3. Undefined = Resolve(None) /\ None \in Dictionaries
  BY DEF Resolve, Dictionaries
<1> QED BY <1>1, <1>2, <1>3, Resolved DEF Scalars, value, Missing

(* Module n, which lib has rendered with x, is bound: alone, x is seen.    *)
LEMMA Imported ==
    ASSUME ImportsInv, UNCHANGED templates, UNCHANGED log, NEW t \in Tasks,
           At(t, {"import", "from"}), Alone!Failing(t) = "none",
           NEW x \in Dictionaries, Alone!Seen(t) = x,
           NEW n \in 1 .. Len(modules'), Bind(t, n, root_render_func(x)),
           ModulesInv', modules'[n] = root_render_func(x), Len(modules) <= Len(modules'),
           \A i \in 1 .. Len(modules) : modules'[i] = modules[i],
           waiting' = [waiting EXCEPT ![t] = FALSE]
    PROVE  /\ ProgramsInv' /\ GlobalsInv' /\ NamesInv' /\ ExportsInv' /\ WaitingInv'
           /\ Alone!Step(t)
<1> DEFINE v == IF Stmt(t).op = "import" THEN ModuleValue(n) ELSE getattr(root_render_func(x), Stmt(t).attr)
<1>1. Stmt(t).name \in Identifiers /\ (Stmt(t).name = "x" => Stmt(t).op # "import")
  BY StatementThere DEF At
<1>2. PICK name \in Identifiers : name = Stmt(t).name
  BY <1>1
<1>3. PICK w : w = v
  OBVIOUS
<1>4. /\ w \in (Scalars \ {Missing}) \cup {ModuleValue(i) : i \in 1 .. Len(modules')}
      /\ name = "x" => w.kind # "module"
  BY <1>1, <1>2, <1>3, AttributeOf
<1>5. /\ vars' = [vars EXCEPT ![t][name] = w]
      /\ exported_vars' = [exported_vars EXCEPT ![t] =
             IF Public(name) THEN IF FALSE THEN @ \cup {name} ELSE @ \ {name} ELSE @]
      /\ Goto(t, pc[t] + 1)
  BY <1>2, <1>3 DEF Bind
<1>6. Len(modules') \in Nat /\ parent' = parent
  BY DEF ModulesInv, templates
<1>7. NamesInv' /\ scope' = [scope EXCEPT ![t][name] = Meaning(w)']
  BY <1>4, <1>5, <1>6, Bound, ZenonT(60)
<1>8. Meaning(w)' = IF Stmt(t).op = "import" THEN Alone!Lib(x) ELSE Alone!Attribute(x, Stmt(t).attr)
  <2>1. CASE Stmt(t).op = "import"
    <3>1. w.kind = "module" /\ w.module = n
      BY <1>3, <2>1 DEF ModuleValue
    <3> QED BY <2>1, <3>1, SameWords DEF Meaning, Alone!Lib, root_render_func
  <2>2. CASE Stmt(t).op # "import"
    BY <1>3, <2>2, AttributeOf DEF Meaning
  <2> QED BY <2>1, <2>2
<1>9. ExportsInv' /\ exported_vars' = [exported_vars EXCEPT ![t] = (@ \ {name}) \cup {i \in {name} : FALSE /\ Public(i)}]
  BY <1>5, Exporting
<1>10. ProgramsInv' /\ GlobalsInv' /\ WaitingInv'
  <2>1. pc[t] + 1 \in Nat \ {0}
    BY DEF ImportsInv, ProgramsInv
  <2> QED BY <1>5, <2>1, Moves
<1>11. Alone!Import(t)
  BY <1>2, <1>5, <1>7, <1>8, <1>9, SameWords DEF Alone!Import, Alone!Bind, Alone!Goto, Goto
<1> QED BY <1>7, <1>9, <1>10, <1>11 DEF Alone!Step

(* lib is rendered once more.                                              *)
LEMMA Extended ==
    ASSUME ImportsInv, NEW x \in Dictionaries, modules' = Append(modules, root_render_func(x))
    PROVE  /\ ModulesInv' /\ Len(modules') \in Nat
           /\ Len(modules) + 1 \in 1 .. Len(modules') /\ modules'[Len(modules) + 1] = root_render_func(x)
           /\ Len(modules) <= Len(modules')
           /\ \A i \in 1 .. Len(modules) : modules'[i] = modules[i]
<1>1. modules \in Seq(Module) /\ root_render_func(x) \in Module
  BY DEF ImportsInv, ModulesInv, Module
<1> QED BY <1>1 DEF ModulesInv

-----------------------------------------------------------------------------
(* Every step of a task is its step alone, or renders the default module,  *)
(* which nobody sees.                                                      *)
AloneNext == Alone!Next \/ UNCHANGED Alone!vars

LEMMA StepAlone ==
    ASSUME NEW t \in Tasks, Alone!Step(t), UNCHANGED templates
    PROVE  AloneNext
  BY DEF AloneNext, Alone!Next, templates

(* A task that does not wait keeps not waiting.                            *)
LEMMA KeepsWaiting ==
    ASSUME ImportsInv, NEW t \in Tasks, ~waiting[t], waiting' = waiting
    PROVE  waiting' = [waiting EXCEPT ![t] = FALSE]
  BY DEF ImportsInv, WaitingInv

(* make_module: the default module stays what it is.                       *)
LEMMA ModuleMade ==
    ASSUME ImportsInv, NEW t \in Tasks, NEW x \in Dictionaries,
           At(t, {"import", "from"}), ~waiting[t], make_module(t, x),
           Alone!Failing(t) = "none", Alone!Seen(t) = x
    PROVE  ImportsInv' /\ AloneNext
<1>1. /\ modules' = Append(modules, root_render_func(x))
      /\ Bind(t, Len(modules) + 1, root_render_func(x))
      /\ UNCHANGED <<templates, _module, waiting, log>>
  BY DEF make_module
<1>2. /\ ModulesInv' /\ Len(modules') \in Nat
      /\ Len(modules) + 1 \in 1 .. Len(modules') /\ modules'[Len(modules) + 1] = root_render_func(x)
      /\ Len(modules) <= Len(modules')
      /\ \A i \in 1 .. Len(modules) : modules'[i] = modules[i]
  BY <1>1, Extended
<1>3. waiting' = [waiting EXCEPT ![t] = FALSE]
  BY <1>1, KeepsWaiting
<1>4. PICK n \in 1 .. Len(modules') : n = Len(modules) + 1
  BY <1>2
<1>5. /\ ProgramsInv' /\ GlobalsInv' /\ NamesInv' /\ ExportsInv' /\ WaitingInv'
      /\ Alone!Step(t)
  <2>1. Bind(t, n, root_render_func(x)) /\ modules'[n] = root_render_func(x)
    BY <1>1, <1>2, <1>4
  <2> QED BY <1>1, <1>2, <1>3, <2>1, Imported
<1>6. DefaultModuleInv'
  <2>1. Len(modules) \in Nat
    BY DEF ImportsInv, ModulesInv
  <2> QED BY <1>1, <1>2, <2>1 DEF ImportsInv, DefaultModuleInv, templates
<1> QED BY <1>1, <1>2, <1>5, <1>6, StepAlone DEF ImportsInv

LEMMA ImportWithContextStep ==
    ASSUME ImportsInv, NEW t \in Tasks, ImportWithContext(t)
    PROVE  ImportsInv' /\ AloneNext
<1> DEFINE x == x_of(resolve_or_missing(t, "x"))
<1>1. x \in Dictionaries /\ Alone!Seen(t) = x
  <2>1. /\ resolve_or_missing(t, "x").is \in Dictionaries
        /\ scope[t]["x"] = resolve_or_missing(t, "x")
    BY NamedValue, NamesAssumption
  <2>2. x \in Dictionaries
    BY <2>1 DEF x_of, Dictionaries
  <2>3. Alone!Seen(t) = x
    BY <2>1, SameWords DEF Alone!Seen, ImportWithContext
  <2> QED BY <2>2, <2>3
<1> HIDE DEF x
<1>2. make_module(t, x)
  BY DEF ImportWithContext, x
<1>3. PICK y \in Dictionaries : y = x
  BY <1>1
<1>4. /\ At(t, {"import", "from"}) /\ ~waiting[t] /\ ~Rejected(macro) /\ Stmt(t).with_context
  BY DEF ImportWithContext, Importing, Import
<1>5. Alone!Failing(t) = "none"
  BY <1>4, SameWords DEF Alone!Failing
<1> QED BY <1>1, <1>2, <1>3, <1>4, <1>5, ModuleMade

LEMMA ImportWithGlobalsStep ==
    ASSUME ImportsInv, NEW t \in Tasks, ImportWithGlobals(t)
    PROVE  ImportsInv' /\ AloneNext
<1>1. /\ At(t, {"import", "from"}) /\ ~waiting[t] /\ ~Rejected(macro) /\ ~Stmt(t).with_context
      /\ globals[t] # None /\ lib_globals = None /\ parent[t] # None
      /\ make_module(t, parent[t])
  BY DEF ImportWithGlobals, Importing, Import, keys
<1>2. PICK y \in Dictionaries : y = parent[t]
  BY DEF ImportsInv, GlobalsInv
<1>3. Alone!Failing(t) = "none" /\ Alone!Seen(t) = y
  BY <1>1, <1>2, SameWords DEF Alone!Failing, Alone!Seen
<1> QED BY <1>1, <1>2, <1>3, ModuleMade

LEMMA ImportDefaultStep ==
    ASSUME ImportsInv, NEW t \in Tasks, ImportDefault(t)
    PROVE  ImportsInv' /\ AloneNext
<1>1. /\ At(t, {"import", "from"}) /\ ~waiting[t] /\ ~Rejected(macro) /\ ~Stmt(t).with_context
      /\ globals[t] = None \/ lib_globals # None
      /\ _module # 0 /\ Bind(t, _module, modules[_module])
      /\ UNCHANGED <<templates, _module, modules, waiting, log>>
  BY DEF ImportDefault, Importing, Import, keys
<1>2. PICK n \in 1 .. Len(modules) : n = _module /\ modules[n] = root_render_func(lib_globals)
  BY <1>1 DEF ImportsInv, DefaultModuleInv
<1>3. PICK y \in Dictionaries : y = lib_globals
  BY DEF ImportsInv, GlobalsInv
<1>4. Alone!Failing(t) = "none" /\ Alone!Seen(t) = y
  BY <1>1, <1>3, SameWords DEF Alone!Failing, Alone!Seen
<1>5. ModulesInv' /\ DefaultModuleInv' /\ Len(modules) \in Nat
  BY <1>1 DEF ImportsInv, ModulesInv, DefaultModuleInv, templates
<1>6. /\ ProgramsInv' /\ GlobalsInv' /\ NamesInv' /\ ExportsInv' /\ WaitingInv'
      /\ Alone!Step(t)
  <2>1. waiting' = [waiting EXCEPT ![t] = FALSE]
    BY <1>1, KeepsWaiting
  <2>2. /\ n \in 1 .. Len(modules') /\ modules'[n] = root_render_func(y) /\ Len(modules) <= Len(modules')
        /\ \A i \in 1 .. Len(modules) : modules'[i] = modules[i]
        /\ Bind(t, n, root_render_func(y))
    BY <1>1, <1>2, <1>3, <1>5
  <2> QED BY <1>1, <1>4, <1>5, <2>1, <2>2, Imported
<1> QED BY <1>1, <1>5, <1>6, StepAlone DEF ImportsInv

(* The default module is being rendered: alone, nothing has happened yet.  *)
LEMMA RenderDefaultStep ==
    ASSUME ImportsInv, NEW t \in Tasks, RenderDefault(t)
    PROVE  ImportsInv' /\ AloneNext
<1>1. /\ At(t, {"import", "from"}) /\ ~Rejected(macro) /\ ~Stmt(t).with_context /\ keys(t) = {}
      /\ waiting' = [waiting EXCEPT ![t] = TRUE]
      /\ UNCHANGED <<templates, vars, exported_vars, _module, modules, pc, log>>
  BY DEF RenderDefault, Importing, Import
<1>2. /\ ModulesInv' /\ NamesInv' /\ ExportsInv' /\ DefaultModuleInv'
      /\ scope' = scope
  BY <1>1, NoneBound
<1>3. ProgramsInv' /\ GlobalsInv'
  BY <1>1 DEF ImportsInv, ProgramsInv, GlobalsInv, templates
<1>4. WaitingInv'
  <2>1. waiting' \in [Tasks -> BOOLEAN]
    BY <1>1 DEF ImportsInv, WaitingInv
  <2>2. ASSUME NEW u \in Tasks, waiting'[u]
        PROVE  At(u, {"import", "from"})' /\ ~Rejected(macro)' /\ ~Stmt(u)'.with_context /\ keys(u)' = {}
    <3>1. u = t \/ waiting[u]
      BY <1>1, <2>2 DEF ImportsInv, WaitingInv
    <3>2. At(u, {"import", "from"}) /\ ~Rejected(macro) /\ ~Stmt(u).with_context /\ keys(u) = {}
      BY <1>1, <3>1 DEF ImportsInv, WaitingInv
    <3> QED BY <1>1, <3>2 DEF At, Stmt, keys, templates
  <2> QED BY <2>1, <2>2 DEF WaitingInv
<1>5. UNCHANGED Alone!vars
  BY <1>1, <1>2 DEF Alone!vars, templates
<1> QED BY <1>2, <1>3, <1>4, <1>5 DEF ImportsInv, AloneNext

(* It is rendered, and becomes the default module even if another one was. *)
LEMMA DefaultRenderedStep ==
    ASSUME ImportsInv, NEW t \in Tasks, DefaultRendered(t)
    PROVE  ImportsInv' /\ AloneNext
<1>1. PICK x \in Dictionaries : x = lib_globals
  BY DEF ImportsInv, GlobalsInv
<1>2. /\ waiting[t] /\ waiting' = [waiting EXCEPT ![t] = FALSE]
      /\ modules' = Append(modules, root_render_func(x)) /\ _module' = Len(modules) + 1
      /\ Bind(t, Len(modules) + 1, root_render_func(x))
      /\ UNCHANGED <<templates, log>>
  BY <1>1 DEF DefaultRendered
<1>3. /\ At(t, {"import", "from"}) /\ ~Rejected(macro) /\ ~Stmt(t).with_context
      /\ globals[t] = None \/ lib_globals # None
  BY <1>2 DEF ImportsInv, WaitingInv, keys
<1>4. Alone!Failing(t) = "none" /\ Alone!Seen(t) = x
  BY <1>1, <1>3, SameWords DEF Alone!Failing, Alone!Seen
<1>5. /\ ModulesInv' /\ Len(modules') \in Nat
      /\ Len(modules) + 1 \in 1 .. Len(modules') /\ modules'[Len(modules) + 1] = root_render_func(x)
      /\ Len(modules) <= Len(modules')
      /\ \A i \in 1 .. Len(modules) : modules'[i] = modules[i]
  BY <1>2, Extended
<1>6. DefaultModuleInv'
  BY <1>1, <1>2, <1>5 DEF DefaultModuleInv, templates
<1>7. PICK n \in 1 .. Len(modules') : n = Len(modules) + 1
  BY <1>5
<1>8. /\ ProgramsInv' /\ GlobalsInv' /\ NamesInv' /\ ExportsInv' /\ WaitingInv'
      /\ Alone!Step(t)
  <2>1. Bind(t, n, root_render_func(x)) /\ modules'[n] = root_render_func(x)
    BY <1>2, <1>5, <1>7
  <2> QED BY <1>2, <1>3, <1>4, <1>5, <2>1, Imported
<1> QED BY <1>2, <1>5, <1>6, <1>8, StepAlone DEF ImportsInv

(* A program ends with an error; nothing it has bound changes.             *)
LEMMA Raises ==
    ASSUME ImportsInv, NEW t \in Tasks, ~waiting[t], NEW error, Raise(t, error)
    PROVE  ImportsInv' /\ UNCHANGED templates /\ Alone!Fail(t, error)
<1>1. /\ log' = [log EXCEPT ![t] = Append(@, value("error", error))]
      /\ Goto(t, Len(program[t]) + 1)
      /\ UNCHANGED <<templates, vars, exported_vars, _module, modules, waiting>>
  BY DEF Raise
<1>2. /\ ModulesInv' /\ NamesInv' /\ ExportsInv' /\ DefaultModuleInv'
      /\ scope' = scope
  BY <1>1, NoneBound
<1>3. PICK p \in Nat \ {0} : p = Len(program[t]) + 1
  BY DEF ImportsInv, ProgramsInv
<1>4. ProgramsInv' /\ GlobalsInv' /\ WaitingInv'
  <2>1. waiting' = [waiting EXCEPT ![t] = FALSE]
    BY <1>1, KeepsWaiting
  <2> QED BY <1>1, <1>3, <2>1, Moves
<1>5. Alone!Fail(t, error)
  BY <1>1, <1>2, SameWords DEF Alone!Fail, Alone!Goto, Alone!End, Goto
<1> QED BY <1>1, <1>2, <1>4, <1>5 DEF ImportsInv

(* A task that is not at an import does not wait for one.                  *)
LEMMA NotWaiting ==
    ASSUME ImportsInv, NEW t \in Tasks, At(t, {"set", "out", "call"})
    PROVE  ~waiting[t]
  BY DEF ImportsInv, WaitingInv, At

LEMMA ImportFailsStep ==
    ASSUME ImportsInv, NEW t \in Tasks, LibFails(t) \/ GlobalsFail(t)
    PROVE  ImportsInv' /\ AloneNext
<1>1. At(t, {"import", "from"}) /\ ~waiting[t]
  BY DEF LibFails, GlobalsFail, Importing, Import
<1>2. Alone!Failing(t) # "none" /\ Raise(t, Alone!Failing(t))
  <2>1. CASE LibFails(t)
    BY <2>1, SameWords DEF LibFails, Alone!Failing
  <2>2. CASE GlobalsFail(t)
    BY <2>2, SameWords DEF GlobalsFail, Importing, keys, Alone!Failing
  <2> QED BY <2>1, <2>2
<1>3. PICK error : error = Alone!Failing(t)
  OBVIOUS
<1>4. ImportsInv' /\ UNCHANGED templates /\ Alone!Fail(t, error)
  BY <1>1, <1>2, <1>3, Raises
<1>5. Alone!ImportFails(t)
  BY <1>1, <1>2, <1>3, <1>4, SameWords DEF Alone!ImportFails
<1> QED BY <1>4, <1>5, StepAlone DEF Alone!Step

LEMMA SetStep ==
    ASSUME ImportsInv, NEW t \in Tasks, Set(t)
    PROVE  ImportsInv' /\ AloneNext
<1>1. At(t, {"set"}) /\ Stmt(t).name \in Identifiers /\ ~waiting[t]
  BY StatementThere, NotWaiting DEF Set, At
<1>2. PICK name \in Identifiers : name = Stmt(t).name
  BY <1>1
<1>3. /\ vars' = [vars EXCEPT ![t][name] = string(Assigned)]
      /\ exported_vars' = [exported_vars EXCEPT ![t] =
             IF Public(name) THEN IF TRUE THEN @ \cup {name} ELSE @ \ {name} ELSE @]
      /\ Goto(t, pc[t] + 1)
      /\ UNCHANGED <<templates, _module, modules, waiting, log>>
  BY <1>2 DEF Set
<1>4. PICK v : v = string(Assigned)
  OBVIOUS
<1>5. v = Resolve(Assigned) /\ Assigned \in Dictionaries /\ v.kind = "string" /\ v \in Scalars \ {Missing}
  BY <1>4, TextsAssumption, Resolved DEF Resolve, string, value, Dictionaries, Scalars
<1>6. NamesInv' /\ scope' = [scope EXCEPT ![t][name] = Meaning(v)']
  <2>1. /\ parent' = parent /\ Len(modules') \in Nat /\ Len(modules) <= Len(modules')
        /\ \A i \in 1 .. Len(modules) : modules'[i] = modules[i]
    BY <1>3 DEF ImportsInv, ModulesInv, templates
  <2>2. vars' = [vars EXCEPT ![t][name] = v]
    BY <1>3, <1>4
  <2> QED BY <1>5, <2>1, <2>2, Bound, ZenonT(60)
<1>7. Meaning(v)' = string(Assigned)
  BY <1>4, <1>5 DEF Meaning
<1>8. ExportsInv' /\ exported_vars' = [exported_vars EXCEPT ![t] = (@ \ {name}) \cup {i \in {name} : TRUE /\ Public(i)}]
  BY <1>3, Exporting
<1>9. ProgramsInv' /\ GlobalsInv' /\ WaitingInv' /\ ModulesInv' /\ DefaultModuleInv'
  <2>1. pc[t] + 1 \in Nat \ {0}
    BY DEF ImportsInv, ProgramsInv
  <2>2. waiting' = [waiting EXCEPT ![t] = FALSE]
    BY <1>1, <1>3, KeepsWaiting
  <2>3. ModulesInv' /\ DefaultModuleInv'
    BY <1>3 DEF ImportsInv, ModulesInv, DefaultModuleInv, templates
  <2> QED BY <1>3, <2>1, <2>2, <2>3, Moves
<1>10. Alone!Set(t)
  BY <1>1, <1>2, <1>3, <1>6, <1>7, <1>8, SameWords
  DEF Alone!Set, Alone!Bind, Alone!Goto, Goto, Alone!Assigned, Assigned
<1> QED BY <1>3, <1>6, <1>8, <1>9, <1>10, StepAlone DEF ImportsInv, Alone!Step

(* What a template reads is alone the same, except that a module is lib as *)
(* it was rendered: it prints the same and can as little be called.        *)
LEMMA ReadAlone ==
    ASSUME ImportsInv, NEW t \in Tasks, At(t, {"out", "call"})
    PROVE  /\ Alone!HasValue(t) <=> (Stmt(t).attr # NoAttribute => Named(t).kind # "undefined")
           /\ Alone!Text(Alone!Read(t)) = str(Read(t))
           /\ \A call : Called(macro, Alone!Read(t), call) = Called(macro, Read(t), call)
<1>1. Stmt(t).name \in Identifiers
  BY StatementThere DEF At
<1>2. Alone!Named(t) = Meaning(Named(t))
  BY <1>1, NamedValue, SameWords DEF Alone!Named, Named
<1>3. CASE /\ Named(t).kind \in {"undefined", "string", "macro"}
           /\ Meaning(Named(t)) = Named(t)
  <2>1. Alone!HasValue(t) <=> (Stmt(t).attr # NoAttribute => Named(t).kind # "undefined")
    BY <1>2, <1>3, SameWords DEF Alone!HasValue
  <2>2. Alone!Read(t) = Read(t)
    BY <1>2, <1>3, SameWords DEF Alone!Read, Read
  <2>3. Read(t).kind # "lib" /\ Read(t).kind # "module"
    BY <1>3 DEF Read, Undefined, value
  <2>4. Alone!Text(Read(t)) = str(Read(t))
    BY <2>3, SameWords DEF Alone!Text, str
  <2> QED BY <2>1, <2>2, <2>4
<1>4. CASE \E x \in Dictionaries :
               /\ Named(t).kind = "module" /\ modules[Named(t).module] = root_render_func(x)
               /\ Meaning(Named(t)) = value("lib", x)
  <2>1. PICK x \in Dictionaries :
               /\ Named(t).kind = "module" /\ modules[Named(t).module] = root_render_func(x)
               /\ Meaning(Named(t)) = value("lib", x)
    BY <1>4
  <2>2. Alone!Named(t) = value("lib", x) /\ value("lib", x).kind = "lib" /\ value("lib", x).is = x
    BY <1>2, <2>1 DEF value
  <2>3. Alone!HasValue(t) /\ Named(t).kind # "undefined"
    BY <2>1, <2>2 DEF Alone!HasValue
  <2>4. CASE Stmt(t).attr = NoAttribute
    <3>1. Read(t) = Named(t) /\ Alone!Read(t) = value("lib", x)
      BY <2>2, <2>4, SameWords DEF Read, Alone!Read
    <3>2. str(Named(t)) = value("rendered", x) /\ Alone!Text(value("lib", x)) = value("rendered", x)
      BY <2>1, <2>2, SameWords DEF str, Alone!Text, root_render_func
    <3>3. \A call : Called(macro, value("lib", x), call) = Called(macro, Named(t), call)
      BY <2>1, <2>2 DEF Called
    <3> QED BY <2>3, <3>1, <3>2, <3>3
  <2>5. CASE Stmt(t).attr # NoAttribute
    <3>1. Read(t) = getattr(root_render_func(x), Stmt(t).attr)
      BY <2>1, <2>5 DEF Read
    <3>2. Alone!Read(t) = Alone!Attribute(x, Stmt(t).attr)
      BY <2>2, <2>5, SameWords DEF Alone!Read
    <3>3. Alone!Read(t) = Read(t) /\ Read(t) \in Scalars \ {Missing} /\ Read(t).kind # "module"
      BY <3>1, <3>2, AttributeOf
    <3>4. Read(t).kind # "lib"
      BY <3>3, Resolved DEF Scalars, value
    <3>5. Alone!Text(Read(t)) = str(Read(t))
      BY <3>3, <3>4, SameWords DEF Alone!Text, str
    <3> QED BY <2>3, <3>3, <3>5
  <2> QED BY <2>4, <2>5
<1> QED BY <1>1, <1>3, <1>4, NamedValue DEF Named

LEMMA ReadFailsStep ==
    ASSUME ImportsInv, NEW t \in Tasks, Undefined_getattr(t)
    PROVE  ImportsInv' /\ AloneNext
<1>1. /\ At(t, {"out", "call"}) /\ ~waiting[t]
      /\ Stmt(t).attr # NoAttribute /\ Named(t).kind = "undefined" /\ Raise(t, "UndefinedError")
  BY NotWaiting DEF Undefined_getattr, At
<1>2. ~Alone!HasValue(t)
  BY <1>1, ReadAlone
<1>3. ImportsInv' /\ UNCHANGED templates /\ Alone!Fail(t, "UndefinedError")
  BY <1>1, Raises
<1>4. Alone!ReadFails(t)
  BY <1>1, <1>2, <1>3, SameWords DEF Alone!ReadFails
<1> QED BY <1>3, <1>4, StepAlone DEF Alone!Step

(* A statement only reads: what is bound stays as it is.                   *)
LEMMA Reading ==
    ASSUME ImportsInv, NEW t \in Tasks, ~waiting[t], NEW p \in Nat \ {0}, Goto(t, p),
           UNCHANGED <<templates, vars, exported_vars, _module, modules, waiting>>
    PROVE  ImportsInv' /\ scope' = scope
<1>1. /\ ModulesInv' /\ NamesInv' /\ ExportsInv' /\ DefaultModuleInv'
      /\ scope' = scope
  BY NoneBound
<1>2. ProgramsInv' /\ GlobalsInv' /\ WaitingInv'
  BY KeepsWaiting, Moves
<1> QED BY <1>1, <1>2 DEF ImportsInv

LEMMA OutStep ==
    ASSUME ImportsInv, NEW t \in Tasks, Out(t)
    PROVE  ImportsInv' /\ AloneNext
<1>1. /\ At(t, {"out"}) /\ At(t, {"out", "call"}) /\ ~waiting[t]
      /\ Stmt(t).attr # NoAttribute => Named(t).kind # "undefined"
      /\ log' = [log EXCEPT ![t] = Append(@, str(Read(t)))]
      /\ Goto(t, pc[t] + 1)
      /\ UNCHANGED <<templates, vars, exported_vars, _module, modules, waiting>>
  BY NotWaiting DEF Out, Reads, At
<1>2. PICK p \in Nat \ {0} : p = pc[t] + 1
  BY DEF ImportsInv, ProgramsInv
<1>3. ImportsInv' /\ scope' = scope
  BY <1>1, <1>2, Reading
<1>4. Alone!Out(t)
  BY <1>1, <1>3, ReadAlone, SameWords DEF Alone!Out, Alone!Goto, Goto
<1> QED BY <1>1, <1>3, <1>4, StepAlone DEF Alone!Step

LEMMA CallStep ==
    ASSUME ImportsInv, NEW t \in Tasks, Call(t)
    PROVE  ImportsInv' /\ AloneNext
<1> DEFINE outcome == Called(macro, Read(t), Stmt(t).call)
           next == IF succeeds(outcome) THEN pc[t] + 1 ELSE Len(program[t]) + 1
<1>1. /\ At(t, {"call"}) /\ At(t, {"out", "call"}) /\ ~waiting[t]
      /\ Stmt(t).attr # NoAttribute => Named(t).kind # "undefined"
      /\ log' = [log EXCEPT ![t] = Append(@, value("call", outcome))]
      /\ Goto(t, next)
      /\ UNCHANGED <<templates, vars, exported_vars, _module, modules, waiting>>
  BY NotWaiting DEF Call, Reads, At
<1>2. PICK p \in Nat \ {0} : p = next
  BY DEF ImportsInv, ProgramsInv
<1>3. ImportsInv' /\ scope' = scope
  BY <1>1, <1>2, Reading
<1>4. Called(macro, Alone!Read(t), Alone!Stmt(t).call) = outcome
  BY <1>1, ReadAlone, SameWords
<1>5. Alone!HasValue(t)
  BY <1>1, ReadAlone
<1> HIDE DEF outcome
<1>6. Alone!Call(t)
  BY <1>1, <1>3, <1>4, <1>5, SameWords DEF Alone!Call, Alone!Goto, Alone!End, Goto
<1> QED BY <1>1, <1>3, <1>6, StepAlone DEF Alone!Step

-----------------------------------------------------------------------------
(* The theorems                                                            *)

LEMMA StepInv == ImportsInv /\ [Next]_allvars => ImportsInv' /\ AloneNext
<1> SUFFICES ASSUME ImportsInv, [Next]_allvars PROVE ImportsInv' /\ AloneNext
  OBVIOUS
<1>1. CASE UNCHANGED allvars
  <2>1. /\ ModulesInv' /\ NamesInv' /\ ExportsInv' /\ DefaultModuleInv'
        /\ scope' = scope
    BY <1>1, NoneBound DEF allvars
  <2>2. ProgramsInv' /\ GlobalsInv' /\ WaitingInv'
    BY <1>1 DEF ImportsInv, ProgramsInv, GlobalsInv, WaitingInv, allvars, templates, At, Stmt, keys
  <2>3. UNCHANGED Alone!vars
    BY <1>1, <2>1 DEF Alone!vars, allvars, templates
  <2> QED BY <2>1, <2>2, <2>3 DEF ImportsInv, AloneNext
<1>2. ASSUME NEW t \in Tasks, Step(t) PROVE ImportsInv' /\ AloneNext
  BY <1>2, ImportWithContextStep, ImportWithGlobalsStep, ImportFailsStep, ImportDefaultStep,
     RenderDefaultStep, DefaultRenderedStep, SetStep, ReadFailsStep, OutStep, CallStep
  DEF Step
<1> QED BY <1>1, <1>2 DEF Next

(* Whatever the tasks do, a name stands for what there is, what a template *)
(* exports is public, only an import without context that finds no globals *)
(* lib has not is waited for, and the default module is what lib renders   *)
(* with its own globals: no task's globals or variables are left in it     *)
(* (Template._get_default_module).                                         *)
THEOREM DefaultModuleIsOwn == Spec => []ImportsInv
<1>1. Init => ImportsInv
  BY InitInv
<1>2. ImportsInv /\ [Next]_allvars => ImportsInv'
  BY StepInv
<1> QED BY <1>1, <1>2, PTL DEF Spec

(* However many tasks import lib, and however they interleave, each        *)
(* outputs what its own template means (visit_Import, visit_FromImport,    *)
(* Template._get_default_module and make_module).                          *)
THEOREM Implements == Spec => ImplementsAlone
<1>1. Init => Alone!Init
  <2> SUFFICES ASSUME Init PROVE Alone!Init
    OBVIOUS
  <2>1. ImportsInv
    BY InitInv
  <2>2. ASSUME NEW t \in Tasks, NEW name \in Identifiers
        PROVE  scope[t][name] = IF name = "x" THEN Resolve(parent[t]) ELSE Undefined
    <3>1. resolve_or_missing(t, name) = IF name = "x" THEN Resolve(parent[t]) ELSE Undefined
      BY DEF Init, Start, resolve_or_missing
    <3>2. Resolve(parent[t]).kind # "module" /\ Undefined.kind # "module"
      BY <2>1, Resolved DEF ImportsInv, GlobalsInv, Undefined, value
    <3> QED BY <3>1, <3>2 DEF scope, Meaning
  <2>3. scope = [t \in Tasks |-> [name \in Identifiers |-> IF name = "x" THEN Resolve(parent[t]) ELSE Undefined]]
    BY <2>2 DEF scope
  <2> QED BY <2>3, SameWords DEF Init, Start, Alone!Init
<1>2. ImportsInv /\ [Next]_allvars => [Alone!Next]_(Alone!vars)
  BY StepInv DEF AloneNext
<1>3. Spec => []ImportsInv
  BY DefaultModuleIsOwn
<1> QED BY <1>1, <1>2, <1>3, PTL DEF Spec, ImplementsAlone, Alone!Spec
=============================================================================
