------------------------- MODULE EvalContextProofs -------------------------
(* The eval contexts of compiler and running code are reverted behind      *)
(* every block, in programs of any length and blocks of any depth.         *)
EXTENDS EvalContexts, TLAPS

(* The blocks that have been entered and not left when an instruction is   *)
(* reached: those it is written in, and at a leave the block it ends.      *)
Open(p) == {e \in DOMAIN program : program[e].op = "enter" /\ e < p /\ p <= program[e].match}
Fixed ==
    /\ WellNested(program) /\ program \in Templates
    /\ environment_autoescape \in BOOLEAN /\ optimized \in BOOLEAN /\ variables \in Contexts

LEMMA Instructions ==
    ASSUME Fixed
    PROVE  /\ program \in Seq(Instruction) /\ Len(program) \in Nat /\ DOMAIN program = 1 .. Len(program)
           /\ \A p \in DOMAIN program : program[p].op = "enter" =>
                  /\ program[p].match \in p + 1 .. Len(program)
                  /\ program[program[p].match].op = "leave" /\ program[program[p].match].match = p
           /\ \A p \in DOMAIN program : program[p].op = "for" =>
                  /\ program[p].match \in p + 1 .. Len(program)
                  /\ program[program[p].match].op = "endfor" /\ program[program[p].match].match = p
           /\ \A p \in DOMAIN program : program[p].op = "leave" =>
                  /\ program[p].match \in 1 .. p - 1
                  /\ program[program[p].match].op = "enter" /\ program[program[p].match].match = p
           /\ \A p \in DOMAIN program : program[p].op = "endfor" =>
                  /\ program[p].match \in 1 .. p - 1
                  /\ program[program[p].match].op = "for" /\ program[program[p].match].match = p
           /\ \A p \in DOMAIN program : program[p].op \in {"break", "continue"} =>
                  /\ program[p].match \in 1 .. p - 1
                  /\ program[program[p].match].op = "for" /\ p < program[program[p].match].match
           /\ \A p, q \in DOMAIN program :
                  /\ program[p].op \in {"enter", "for"} /\ program[q].op \in {"enter", "for"}
                  /\ p < q /\ q < program[p].match
                  => program[q].match < program[p].match
<1>1. /\ program \in Seq(Instruction) /\ Len(program) \in Nat /\ DOMAIN program = 1 .. Len(program)
    BY DEF Fixed, WellNested
<1>2. \A p, q \in DOMAIN program :
          /\ program[p].op \in {"enter", "for"} /\ program[q].op \in {"enter", "for"}
          /\ p < q /\ q < program[p].match
          => program[q].match < program[p].match
    BY DEF Fixed, WellNested, Begins
<1>3. ASSUME NEW p \in DOMAIN program
      PROVE  /\ program[p].op \in {"enter", "for"} =>
                    /\ program[p].match \in p + 1 .. Len(program)
                    /\ program[program[p].match].op = EndOf[program[p].op]
                    /\ program[program[p].match].match = p
             /\ program[p].op \in {"leave", "endfor"} =>
                    /\ program[p].match \in 1 .. p - 1
                    /\ program[program[p].match].op \in {"enter", "for"}
                    /\ program[program[p].match].match = p
             /\ program[p].op \in {"break", "continue"} =>
                    /\ program[p].match \in 1 .. p - 1
                    /\ program[program[p].match].op = "for" /\ p < program[program[p].match].match
    BY DEF Fixed, WellNested, Begins
<1>4. EndOf["enter"] = "leave" /\ EndOf["for"] = "endfor"
    BY DEF EndOf
<1>5. ASSUME NEW p \in DOMAIN program, program[p].op = "leave"
      PROVE  program[program[p].match].op = "enter"
    <2>1. program[p].match \in DOMAIN program /\ program[program[p].match].op \in {"enter", "for"}
          /\ program[program[p].match].match = p
        BY <1>1, <1>3, <1>5
    <2>2. EndOf[program[program[p].match].op] = "leave"
        BY <1>3, <1>5, <2>1
    <2> QED
        BY <1>4, <2>1, <2>2
<1>6. ASSUME NEW p \in DOMAIN program, program[p].op = "endfor"
      PROVE  program[program[p].match].op = "for"
    <2>1. program[p].match \in DOMAIN program /\ program[program[p].match].op \in {"enter", "for"}
          /\ program[program[p].match].match = p
        BY <1>1, <1>3, <1>6
    <2>2. EndOf[program[program[p].match].op] = "endfor"
        BY <1>3, <1>6, <2>1
    <2> QED
        BY <1>4, <2>1, <2>2
<1> QED
    BY <1>1, <1>2, <1>3, <1>4, <1>5, <1>6

(* How the open blocks change from an instruction to the next, and that    *)
(* they are the same all around a loop.                                    *)
LEMMA OpenAround ==
    ASSUME Fixed, NEW p \in DOMAIN program
    PROVE  /\ program[p].op = "enter" => Open(p + 1) = Open(p) \cup {p} /\ p \notin Open(p)
           /\ program[p].op = "leave" => Open(p + 1) = Open(p) \ {program[p].match} /\ program[p].match \in Open(p)
           /\ program[p].op \notin {"enter", "leave"} => Open(p + 1) = Open(p)
           /\ program[p].op = "for" =>
                  Open(p) = Open(program[p].match) /\ Open(p) = Open(program[p].match + 1)
           /\ program[p].op # "leave" => Open(p) = Enclosing(p)
<1>1. CASE program[p].op = "enter"
    BY <1>1, Instructions DEF Open, Enclosing
<1>2. CASE program[p].op = "leave"
    <2>1. program[p].match \in Open(p)
        BY <1>2, Instructions DEF Open
    <2>2. ASSUME NEW e \in Open(p + 1) PROVE e \in Open(p) /\ e # program[p].match
        BY <1>2, <2>2, Instructions DEF Open
    <2>3. ASSUME NEW e \in Open(p), e # program[p].match PROVE e \in Open(p + 1)
        BY <1>2, <2>3, Instructions DEF Open
    <2> QED
        BY <1>2, <2>1, <2>2, <2>3
<1>3. CASE program[p].op \notin {"enter", "leave"}
    <2>1. Open(p) = Enclosing(p)
        BY <1>3, Instructions DEF Open, Enclosing
    <2>2. Open(p + 1) = Open(p)
        BY <1>3, Instructions DEF Open
    <2>3. ASSUME program[p].op = "for"
          PROVE  Open(p) = Open(program[p].match) /\ Open(p) = Open(program[p].match + 1)
        <3> DEFINE g == program[p].match
        <3>1. g \in DOMAIN program /\ p < g /\ program[g].op = "endfor"
            BY <2>3, Instructions
        <3>2. ASSUME NEW e \in Open(p) PROVE e \in Open(g)
            BY <2>3, <3>1, <3>2, Instructions DEF Open
        <3>3. ASSUME NEW e \in Open(g) PROVE e \in Open(p)
            BY <2>3, <3>1, <3>3, Instructions DEF Open
        <3>4. Open(g + 1) = Open(g)
            BY <3>1, Instructions DEF Open
        <3> QED
            BY <3>2, <3>3, <3>4
    <2> QED
        BY <1>3, <2>1, <2>2, <2>3
<1> QED
    BY <1>1, <1>2, <1>3

(* A jump that does not leave a block stays among the open blocks.         *)
LEMMA OpenAtJump ==
    ASSUME Fixed, ~JumpsOut, NEW p \in DOMAIN program, program[p].op \in {"break", "continue"}
    PROVE  Open(p) = Open(program[p].match)
<1> DEFINE f == program[p].match
<1>1. f \in DOMAIN program /\ f < p /\ program[f].op = "for" /\ p < program[f].match
    BY Instructions
<1>2. \A e \in Enclosing(p) : ~ (e > f)
    BY DEF JumpsOut
<1>3. ASSUME NEW e \in Open(p) PROVE e \in Open(f)
    <2>1. e \in Enclosing(p)
        BY <1>3, OpenAround
    <2>2. e \in DOMAIN program /\ program[e].op = "enter" /\ ~ (e > f)
        BY <1>2, <1>3, <2>1 DEF Open
    <2>3. e < f
        BY <1>1, <2>2, Instructions
    <2> QED
        BY <1>1, <1>3, <2>2, <2>3, Instructions DEF Open
<1>4. ASSUME NEW e \in Open(f) PROVE e \in Open(p)
    <2>1. e \in DOMAIN program /\ program[e].op = "enter" /\ e < f /\ f <= program[e].match
        BY <1>4 DEF Open
    <2>2. program[e].match \in Nat /\ program[program[e].match].op = "leave" /\ f \in Nat /\ p \in Nat /\ e \in Nat
        BY <1>1, <2>1, Instructions
    <2>3. f < program[e].match
        BY <1>1, <2>1, <2>2
    <2>4. program[f].match < program[e].match /\ program[f].match \in Nat
        BY <1>1, <2>1, <2>3, Instructions
    <2> QED
        BY <1>1, <2>1, <2>2, <2>4 DEF Open
<1> QED
    BY <1>3, <1>4

-----------------------------------------------------------------------------
(* The invariant                                                           *)

TypeInv ==
    /\ pc \in 1 .. Len(program) + 1
    /\ eval_ctx \in EvalContext /\ saved_ctx \in Seq(EvalContext) /\ code \in Seq(EvalContext)
    /\ Len(code) <= Len(program)
    /\ Compiling => pc = Len(code) + 1
    /\ now \in BOOLEAN /\ old_ctx \in [DOMAIN program -> BOOLEAN] /\ left \in [DOMAIN program -> 0 .. Iterations]

(* Compiling: the context an instruction was compiled under, or the next   *)
(* one will be. The saved contexts are those the open blocks were compiled *)
(* under, from the outermost to the innermost.                             *)
At(p) == IF p = Len(code) + 1 THEN eval_ctx ELSE code[p]
SavedInv ==
    \E opens \in Seq(Nat) :
        /\ \A i, j \in DOMAIN opens : i < j => opens[i] < opens[j]
        /\ \A i \in DOMAIN opens : opens[i] \in Open(Len(code) + 1)
        /\ \A e \in Open(Len(code) + 1) : \E i \in DOMAIN opens : opens[i] = e
        /\ Len(opens) = Len(saved_ctx)
        /\ \A i \in DOMAIN opens : saved_ctx[i] = code[opens[i]]
CompiledInv ==
    /\ \A p \in 1 .. Len(code) + 1 : Open(p) = {} => At(p) = Environment
    /\ \A p \in 1 .. Len(code) : program[p].op = "leave" => At(p + 1) = code[program[p].match]

(* Running: outside of all blocks the autoescape is the environment's, and *)
(* in a block the outermost one holds it.                                  *)
Outermost(p, e) == e \in Open(p) /\ \A d \in Open(p) : e <= d
Restorable(p) ==
    /\ Open(p) = {} => now = environment_autoescape
    /\ \A e \in Open(p) : Outermost(p, e) => old_ctx[e] = environment_autoescape
RunInv ==
    /\ Compiling => now = environment_autoescape /\ output = << >>
    /\ ~Compiling => JumpsOut \/ Stopped \/ Restorable(pc)
    /\ Stopped => pc = Len(program) + 1
    /\ \E S : output \in Seq(S)
ContextInv == Fixed /\ TypeInv /\ SavedInv /\ CompiledInv /\ RunInv

LEMMA OpenEnds ==
    ASSUME Fixed
    PROVE  Open(1) = {} /\ Open(Len(program) + 1) = {}
BY Instructions DEF Open

LEMMA ContextInit == Init => ContextInv
<1> SUFFICES ASSUME Init PROVE ContextInv
    OBVIOUS
<1>1. Fixed
    BY TemplatesAssumption DEF Init, Fixed
<1>2. Len(program) \in Nat /\ Len(code) = 0 /\ code = << >> /\ saved_ctx = << >> /\ eval_ctx = Environment
      /\ output = << >> /\ pc = 1
    BY <1>1, Instructions DEF Init
<1>3. TypeInv
    BY <1>1, <1>2, TemplatesAssumption, Instructions DEF TypeInv, Init, Fixed, Environment, EvalContext, Compiling
<1>4. Open(1) = {}
    BY <1>1, OpenEnds
<1>5. SavedInv
    <2> DEFINE opens == << >>
    <2>1. opens \in Seq(Nat) /\ Len(opens) = 0 /\ DOMAIN opens = {}
        OBVIOUS
    <2>2. Open(Len(code) + 1) = {} /\ Len(saved_ctx) = 0
        BY <1>2, <1>4
    <2> HIDE DEF opens
    <2> QED
        BY <2>1, <2>2 DEF SavedInv
<1>6. CompiledInv
    BY <1>2, <1>4 DEF CompiledInv, At
<1>7. RunInv
    <2>1. ~Stopped /\ now = environment_autoescape
        BY <1>2 DEF Stopped, Init
    <2>2. output \in Seq(Nat)
        BY <1>2
    <2> QED
        BY <1>2, <1>4, <2>1, <2>2 DEF RunInv, Restorable
<1> QED
    BY <1>1, <1>3, <1>5, <1>6, <1>7 DEF ContextInv

-----------------------------------------------------------------------------
(* Compiling an instruction                                                *)

LEMMA FixedOpen ==
    ASSUME UNCHANGED static
    PROVE  /\ Fixed' <=> Fixed
           /\ \A p : Open(p)' = Open(p) /\ Enclosing(p)' = Enclosing(p)
           /\ JumpsOut' <=> JumpsOut
           /\ Environment' = Environment
BY DEF static, Fixed, Open, Enclosing, JumpsOut, Environment

LEMMA CompiledStep ==
    ASSUME ContextInv, Compiling, NEW ctx \in EvalContext, Compiled(ctx)
    PROVE  /\ pc = Len(code) + 1 /\ pc \in DOMAIN program /\ Len(code) \in Nat
           /\ code' \in Seq(EvalContext) /\ Len(code') = Len(code) + 1
           /\ \A p \in 1 .. Len(code) + 1 : code'[p] = At(p) /\ At(p)' = At(p)
           /\ \A p \in 1 .. Len(code) : code'[p] = code[p]
           /\ (\A p : p = Len(code) + 2 => At(p)' = ctx) /\ eval_ctx' = ctx
           /\ Fixed' /\ RunInv' /\ UNCHANGED static
           /\ saved_ctx' \in Seq(EvalContext) => TypeInv'
<1> USE DEF ContextInv
<1>1. /\ program \in Seq(Instruction) /\ Len(program) \in Nat /\ DOMAIN program = 1 .. Len(program)
    BY Instructions
<1>2. /\ code \in Seq(EvalContext) /\ Len(code) \in Nat /\ Len(code) < Len(program) /\ pc = Len(code) + 1
      /\ eval_ctx \in EvalContext /\ pc \in DOMAIN program
    BY <1>1 DEF TypeInv, Compiling
<1>12. (Len(code) + 1 < Len(program) \/ Len(code) + 1 = Len(program)) /\ ~ (Len(program) < Len(program))
    <2>1. \A m, n \in Nat : m < n => (m + 1 < n \/ m + 1 = n) /\ ~ (n < n)
        OBVIOUS
    <2>2. Len(code) \in Nat /\ Len(program) \in Nat /\ Len(code) < Len(program)
        BY <1>1, <1>2
    <2> QED
        BY <2>1, <2>2, Zenon
<1>3. code' = Append(code, eval_ctx) /\ eval_ctx' = ctx /\ UNCHANGED static /\ UNCHANGED runtime
    BY DEF Compiled
<1>4. /\ code' \in Seq(EvalContext) /\ Len(code') = Len(code) + 1
      /\ \A p \in 1 .. Len(code) : code'[p] = code[p]
      /\ code'[Len(code) + 1] = eval_ctx
    BY <1>2, <1>3
<1>5. \A p \in 1 .. Len(code) + 1 : code'[p] = At(p) /\ At(p)' = At(p)
    BY <1>2, <1>4 DEF At
<1>6. \A p : p = Len(code) + 2 => At(p)' = ctx
    BY <1>2, <1>3, <1>4 DEF At
<1>7. Fixed' /\ \A p : Open(p)' = Open(p)
    BY <1>3, FixedOpen
<1>8. program' = program /\ now' = now /\ old_ctx' = old_ctx /\ left' = left /\ output' = output
      /\ environment_autoescape' = environment_autoescape
    BY <1>3 DEF static, runtime
<1>9. pc' = IF Len(code) + 1 = Len(program) THEN 1 ELSE pc + 1
    BY DEF Compiled
<1>10. RunInv'
    <2>1. now = environment_autoescape /\ output = << >>
        BY DEF RunInv
    <2>2. (now = environment_autoescape)' /\ (output = << >>)'
        BY <1>8, <2>1
    <2>3. ~Stopped'
        BY <2>2 DEF Stopped
    <2>4. (\E S : output \in Seq(S))'
        <3>1. output' \in Seq(Nat)
            BY <2>2
        <3> QED
            BY <3>1
    <2>5. ~Compiling' => pc' = 1
        <3>1. Len(code') = Len(code) + 1 /\ Len(program') = Len(program)
            BY <1>4, <1>8
        <3>2. ~ (Len(code) + 1 < Len(program)) => Len(code) + 1 = Len(program)
            BY <1>12
        <3> QED
            BY <1>9, <3>1, <3>2 DEF Compiling
    <2>6. ~Compiling' => Open(pc)' = {}
        BY <1>7, <2>5, OpenEnds DEF Open
    <2>7. ~Compiling' => Restorable(pc)'
        BY <2>2, <2>6 DEF Restorable
    <2> QED
        BY <2>2, <2>3, <2>4, <2>7 DEF RunInv
<1>11. ASSUME saved_ctx' \in Seq(EvalContext) PROVE TypeInv'
    <2>1. Len(code') = Len(code) + 1 /\ Len(program') = Len(program) /\ DOMAIN program' = DOMAIN program
        BY <1>4, <1>8
    <2>2. pc' \in 1 .. Len(program) + 1 /\ (Len(code) + 1 < Len(program) => pc' = Len(code) + 2)
        <3>1. Len(code) \in Nat /\ Len(program) \in Nat
            BY <1>1, <1>2
        <3>2. CASE Len(code) + 1 = Len(program)
            BY <1>9, <3>1, <3>2
        <3>3. CASE Len(code) + 1 < Len(program)
            <4>1. pc' = (Len(code) + 1) + 1
                BY <1>2, <1>9, <3>1, <3>3
            <4> QED
                BY <3>1, <3>3, <4>1
        <3> QED
            BY <1>12, <3>1, <3>2, <3>3
    <2>3. Len(code') <= Len(program') /\ (Compiling' => pc' = Len(code') + 1)
        BY <1>1, <1>2, <2>1, <2>2 DEF Compiling
    <2>4. now' \in BOOLEAN /\ old_ctx' \in [DOMAIN program' -> BOOLEAN] /\ left' \in [DOMAIN program' -> 0 .. Iterations]
        BY <1>8, <2>1 DEF TypeInv
    <2> QED
        BY <1>3, <1>4, <1>11, <2>1, <2>2, <2>3, <2>4 DEF TypeInv
<1> QED
    BY <1>2, <1>3, <1>4, <1>5, <1>6, <1>7, <1>10, <1>11

(* What is left to show of a step of the compiler: the contexts saved, and *)
(* that of the next instruction.                                           *)
LEMMA CompiledKeeps ==
    ASSUME ContextInv, Compiling, NEW ctx \in EvalContext, Compiled(ctx),
           Open(Len(code) + 2) = {} => ctx = Environment,
           program[pc].op = "leave" => ctx = code[program[pc].match]
    PROVE  CompiledInv'
<1> USE DEF ContextInv
<1> DEFINE n == Len(code)
<1>1. /\ pc = n + 1 /\ pc \in DOMAIN program /\ n \in Nat
      /\ Len(code') = n + 1
      /\ \A p \in 1 .. n + 1 : code'[p] = At(p) /\ At(p)' = At(p)
      /\ \A p \in 1 .. n : code'[p] = code[p]
      /\ \A p : p = n + 2 => At(p)' = ctx
      /\ UNCHANGED static
    BY CompiledStep
<1>2. /\ \A p : Open(p)' = Open(p)
      /\ Environment' = Environment /\ program' = program
    BY <1>1, FixedOpen DEF static
<1> HIDE DEF n
<1>3. (\A p \in 1 .. Len(code) + 1 : Open(p) = {} => At(p) = Environment)'
    <2>1. SUFFICES ASSUME NEW p \in 1 .. n + 2, Open(p) = {}
                   PROVE  At(p)' = Environment
        BY <1>1, <1>2
    <2>2. CASE p = n + 2
        BY <1>1, <2>1, <2>2 DEF n
    <2>3. CASE p # n + 2
        <3>1. p \in 1 .. n + 1
            BY <1>1, <2>3
        <3> QED
            BY <1>1, <2>1, <3>1 DEF CompiledInv, n
    <2> QED
        BY <2>2, <2>3
<1>4. (\A p \in 1 .. Len(code) : program[p].op = "leave" => At(p + 1) = code[program[p].match])'
    <2>1. SUFFICES ASSUME NEW p \in 1 .. n + 1, program[p].op = "leave"
                   PROVE  At(p + 1)' = code'[program[p].match]
        BY <1>1, <1>2
    <2>2. program[p].match \in 1 .. p - 1
        <3>1. p \in DOMAIN program
            BY <1>1, Instructions
        <3> QED
            BY <2>1, <3>1, Instructions
    <2>3. program[p].match \in 1 .. n
        BY <1>1, <2>2
    <2>4. code'[program[p].match] = code[program[p].match]
        BY <1>1, <2>3
    <2>5. CASE p = n + 1
        <3>1. p + 1 = n + 2
            BY <1>1, <2>5
        <3>2. \A r : r = n + 2 => At(r)' = ctx
            BY <1>1
        <3>3. At(p + 1)' = ctx
            BY <3>1, <3>2
        <3>4. ctx = code[program[p].match]
            BY <1>1, <2>1, <2>5
        <3> QED
            BY <2>4, <3>3, <3>4
    <2>6. CASE p # n + 1
        <3>1. p \in 1 .. n /\ p + 1 \in 1 .. n + 1
            BY <1>1, <2>6
        <3>2. At(p + 1)' = At(p + 1)
            BY <1>1, <3>1
        <3>3. At(p + 1) = code[program[p].match]
            BY <2>1, <3>1 DEF CompiledInv, n
        <3> QED
            BY <2>4, <3>2, <3>3
    <2> QED
        BY <2>5, <2>6
<1> QED
    BY <1>3, <1>4 DEF CompiledInv

LEMMA CompileEnterStep == ContextInv /\ CompileEnter => ContextInv'
<1> SUFFICES ASSUME ContextInv, CompileEnter PROVE ContextInv'
    OBVIOUS
<1> DEFINE n == Len(code)
           ctx == IF Foldable(Here.node, eval_ctx)
                  THEN [eval_ctx EXCEPT !.autoescape = Folded(Here.node, eval_ctx)]
                  ELSE [eval_ctx EXCEPT !.volatile = TRUE]
<1>1. Compiling /\ Compiled(ctx) /\ program[pc].op = "enter" /\ saved_ctx' = Append(saved_ctx, eval_ctx)
    BY DEF CompileEnter, Here
<1>2. eval_ctx \in EvalContext /\ saved_ctx \in Seq(EvalContext)
    BY DEF ContextInv, TypeInv
<1>3. pc = n + 1 /\ pc \in DOMAIN program /\ n \in Nat
    BY <1>1, Instructions DEF ContextInv, TypeInv, Compiling
<1>4. ctx \in EvalContext
    <2>1. Foldable(Here.node, eval_ctx) => Folded(Here.node, eval_ctx) \in BOOLEAN
        BY <1>1, <1>2, <1>3, OptionsAssumption DEF ContextInv, Fixed, Here
    <2> QED
        BY <1>2, <2>1 DEF EvalContext
<1> HIDE DEF ctx
<1>5. Open(n + 2) = Open(n + 1) \cup {n + 1} /\ n + 1 \notin Open(n + 1)
    <2>1. Open(pc + 1) = Open(pc) \cup {pc} /\ pc \notin Open(pc) /\ pc + 1 = n + 2
        BY <1>1, <1>3, OpenAround DEF ContextInv
    <2> QED
        BY <1>3, <2>1
<1>6. /\ code' \in Seq(EvalContext) /\ Len(code') = n + 1
      /\ \A p \in 1 .. n + 1 : code'[p] = At(p)
      /\ \A p \in 1 .. n : code'[p] = code[p]
      /\ Fixed' /\ RunInv' /\ UNCHANGED static
      /\ saved_ctx' \in Seq(EvalContext) => TypeInv'
    BY <1>1, <1>4, CompiledStep
<1>7. CompiledInv'
    BY <1>1, <1>4, <1>5, CompiledKeeps
<1>8. SavedInv'
    <2>1. PICK opens \in Seq(Nat) :
              /\ \A i, j \in DOMAIN opens : i < j => opens[i] < opens[j]
              /\ \A i \in DOMAIN opens : opens[i] \in Open(n + 1)
              /\ \A e \in Open(n + 1) : \E i \in DOMAIN opens : opens[i] = e
              /\ Len(opens) = Len(saved_ctx)
              /\ \A i \in DOMAIN opens : saved_ctx[i] = code[opens[i]]
        BY DEF ContextInv, SavedInv
    <2> DEFINE more == Append(opens, n + 1)
               m == Len(opens)
    <2>2. /\ more \in Seq(Nat) /\ m \in Nat /\ Len(more) = m + 1 /\ DOMAIN more = 1 .. m + 1 /\ DOMAIN opens = 1 .. m
          /\ \A i \in 1 .. m : more[i] = opens[i]
          /\ more[m + 1] = n + 1
        BY <1>3
    <2>3. /\ Len(saved_ctx') = m + 1
          /\ \A i \in 1 .. m : saved_ctx'[i] = saved_ctx[i]
          /\ saved_ctx'[m + 1] = eval_ctx
        BY <1>1, <1>2, <2>1
    <2> HIDE DEF more, m
    <2>4. \A e \in Open(n + 1) : e \in 1 .. n
        BY <1>3, Instructions DEF Open, ContextInv
    <2>5. Open(Len(code) + 1)' = Open(n + 1) \cup {n + 1}
        <3>1. Open(Len(code) + 1)' = Open(n + 2)
            BY <1>3, <1>6 DEF Open, static
        <3> QED
            BY <1>5, <3>1
    <2>6. \A i, j \in DOMAIN more : i < j => more[i] < more[j]
        <3>1. \A i \in 1 .. m : opens[i] \in 1 .. n
            BY <2>1, <2>2, <2>4
        <3> QED
            BY <1>3, <2>1, <2>2, <3>1, SMTT(30)
    <2>7. \A i \in DOMAIN more : more[i] \in Open(Len(code) + 1)'
        BY <2>1, <2>2, <2>5
    <2>8. \A e \in Open(Len(code) + 1)' : \E i \in DOMAIN more : more[i] = e
        <3>1. m + 1 \in DOMAIN more /\ more[m + 1] = n + 1
            BY <2>2
        <3>2. ASSUME NEW e \in Open(n + 1) PROVE \E i \in DOMAIN more : more[i] = e
            <4>1. PICK i \in 1 .. m : opens[i] = e
                BY <2>1, <2>2
            <4>2. i \in 1 .. m + 1
                BY <2>2
            <4> QED
                BY <2>2, <4>1, <4>2
        <3> QED
            BY <2>5, <3>1, <3>2, Zenon
    <2>9. \A i \in DOMAIN more : saved_ctx'[i] = code'[more[i]]
        <3>1. code'[n + 1] = eval_ctx
            BY <1>3, <1>6 DEF At
        <3>2. ASSUME NEW i \in 1 .. m PROVE saved_ctx'[i] = code'[more[i]]
            <4>1. opens[i] \in 1 .. n
                BY <2>1, <2>2, <2>4
            <4>2. more[i] = opens[i] /\ saved_ctx'[i] = saved_ctx[i] /\ i \in DOMAIN opens
                BY <2>2, <2>3
            <4>3. code'[opens[i]] = code[opens[i]]
                BY <1>6, <4>1
            <4> QED
                BY <2>1, <4>2, <4>3
        <3> QED
            BY <2>2, <2>3, <3>1, <3>2
    <2> QED
        BY <2>2, <2>3, <2>6, <2>7, <2>8, <2>9 DEF SavedInv
<1>9. saved_ctx' \in Seq(EvalContext)
    BY <1>1, <1>2
<1> QED
    BY <1>6, <1>7, <1>8, <1>9 DEF ContextInv

LEMMA CompileOtherStep == ContextInv /\ CompileOther => ContextInv'
<1> SUFFICES ASSUME ContextInv, CompileOther PROVE ContextInv'
    OBVIOUS
<1> DEFINE n == Len(code)
<1>1. Compiling /\ Compiled(eval_ctx) /\ program[pc].op \notin {"enter", "leave"} /\ saved_ctx' = saved_ctx
    BY DEF CompileOther, Here
<1>2. eval_ctx \in EvalContext /\ saved_ctx \in Seq(EvalContext)
    BY DEF ContextInv, TypeInv
<1>3. pc = n + 1 /\ pc \in DOMAIN program /\ n \in Nat
    BY <1>1, Instructions DEF ContextInv, TypeInv, Compiling
<1>4. Open(n + 2) = Open(n + 1)
    <2>1. Open(pc + 1) = Open(pc) /\ pc + 1 = n + 2
        BY <1>1, <1>3, OpenAround DEF ContextInv
    <2> QED
        BY <1>3, <2>1
<1>5. /\ Len(code') = n + 1
      /\ \A p \in 1 .. n : code'[p] = code[p]
      /\ Fixed' /\ RunInv' /\ UNCHANGED static
      /\ saved_ctx' \in Seq(EvalContext) => TypeInv'
    BY <1>1, <1>2, CompiledStep
<1>6. CompiledInv'
    <2>1. Open(n + 2) = {} => eval_ctx = Environment
        BY <1>3, <1>4 DEF ContextInv, CompiledInv, At
    <2> QED
        BY <1>1, <1>2, <2>1, CompiledKeeps
<1>7. SavedInv'
    <2>1. PICK opens \in Seq(Nat) :
              /\ \A i, j \in DOMAIN opens : i < j => opens[i] < opens[j]
              /\ \A i \in DOMAIN opens : opens[i] \in Open(n + 1)
              /\ \A e \in Open(n + 1) : \E i \in DOMAIN opens : opens[i] = e
              /\ Len(opens) = Len(saved_ctx)
              /\ \A i \in DOMAIN opens : saved_ctx[i] = code[opens[i]]
        BY DEF ContextInv, SavedInv
    <2>2. Open(Len(code) + 1)' = Open(n + 1)
        <3>1. Open(Len(code) + 1)' = Open(n + 2)
            BY <1>3, <1>5 DEF Open, static
        <3> QED
            BY <1>4, <3>1
    <2>3. \A e \in Open(n + 1) : e \in 1 .. n
        BY <1>3, Instructions DEF Open, ContextInv
    <2>4. \A i \in DOMAIN opens : saved_ctx'[i] = code'[opens[i]]
        BY <1>1, <1>5, <2>1, <2>3
    <2> QED
        BY <1>1, <2>1, <2>2, <2>4 DEF SavedInv
<1> QED
    BY <1>1, <1>2, <1>5, <1>6, <1>7 DEF ContextInv

LEMMA CompileLeaveStep == ContextInv /\ CompileLeave => ContextInv'
<1> SUFFICES ASSUME ContextInv, CompileLeave PROVE ContextInv'
    OBVIOUS
<1> DEFINE n == Len(code)
           m == Len(saved_ctx)
           e == program[pc].match
           ctx == saved_ctx[m]
<1>1. Compiling /\ Compiled(ctx) /\ program[pc].op = "leave" /\ saved_ctx' = SubSeq(saved_ctx, 1, m - 1)
    BY DEF CompileLeave, Here
<1>2. saved_ctx \in Seq(EvalContext) /\ m \in Nat
    BY DEF ContextInv, TypeInv
<1>3. pc = n + 1 /\ pc \in DOMAIN program /\ n \in Nat
    BY <1>1, Instructions DEF ContextInv, TypeInv, Compiling
<1> HIDE DEF n, m
<1>4. /\ e \in 1 .. n /\ e \in Open(n + 1) /\ Open(n + 2) = Open(n + 1) \ {e}
      /\ program[e].op = "enter" /\ program[e].match = n + 1 /\ e \in DOMAIN program
    <2>1. /\ Open(pc + 1) = Open(pc) \ {e} /\ e \in Open(pc) /\ pc + 1 = n + 2
        BY <1>1, <1>3, OpenAround DEF ContextInv
    <2>2. /\ e \in 1 .. pc - 1 /\ program[e].op = "enter" /\ program[e].match = pc
        BY <1>1, <1>3, Instructions DEF ContextInv
    <2> QED
        BY <1>3, <2>1, <2>2 DEF Open
<1>5. PICK opens \in Seq(Nat) :
          /\ \A i, j \in DOMAIN opens : i < j => opens[i] < opens[j]
          /\ \A i \in DOMAIN opens : opens[i] \in Open(n + 1)
          /\ \A d \in Open(n + 1) : \E i \in DOMAIN opens : opens[i] = d
          /\ Len(opens) = m
          /\ \A i \in DOMAIN opens : saved_ctx[i] = code[opens[i]]
    BY DEF ContextInv, SavedInv, n, m
<1> HIDE DEF e
(* The block that ends here was entered last of the open ones.             *)
<1>6. \A d \in Open(n + 1) : d <= e
    <2>1. SUFFICES ASSUME NEW d \in Open(n + 1), e < d PROVE FALSE
        BY <1>3, <1>4, Instructions DEF Open, ContextInv
    <2>2. d \in DOMAIN program /\ program[d].op = "enter" /\ d < n + 1 /\ n + 1 <= program[d].match
        BY <2>1 DEF Open
    <2>3. program[d].match < program[e].match
        <3>1. d < program[e].match
            BY <1>4, <2>2
        <3> QED
            BY <1>4, <2>1, <2>2, <3>1, Instructions DEF ContextInv
    <2>4. program[d].match \in Nat
        BY <2>2, Instructions DEF ContextInv
    <2> QED
        BY <1>3, <1>4, <2>2, <2>3, <2>4
<1>7. m \in DOMAIN opens /\ opens[m] = e /\ DOMAIN opens = 1 .. m
    <2>1. DOMAIN opens = 1 .. m
        BY <1>2, <1>5
    <2>2. PICK i \in 1 .. m : opens[i] = e
        BY <1>4, <1>5, <2>1
    <2>3. m \in 1 .. m
        BY <1>2, <2>2
    <2>4. opens[m] \in Nat /\ opens[m] <= e
        BY <1>5, <1>6, <2>1, <2>3
    <2>5. ~ (i < m)
        BY <1>4, <1>5, <2>1, <2>2, <2>3, <2>4
    <2>6. i = m
        BY <1>2, <2>2, <2>5
    <2> QED
        BY <2>1, <2>2, <2>3, <2>6
<1>13. m >= 1 /\ m - 1 \in Nat /\ m - 1 <= Len(saved_ctx)
    BY <1>2, <1>7 DEF m
<1>8. ctx = code[e] /\ ctx \in EvalContext
    <2>1. m \in DOMAIN saved_ctx
        BY <1>2, <1>7 DEF m
    <2> QED
        BY <1>2, <1>5, <1>7, <2>1
<1> HIDE DEF ctx
<1>9. /\ Len(code') = n + 1
      /\ \A p \in 1 .. n : code'[p] = code[p]
      /\ Fixed' /\ RunInv' /\ UNCHANGED static
      /\ saved_ctx' \in Seq(EvalContext) => TypeInv'
    BY <1>1, <1>8, CompiledStep DEF n
<1>10. CompiledInv'
    <2>1. ASSUME Open(n + 2) = {} PROVE ctx = Environment
        <3>1. ASSUME NEW d \in Open(e) PROVE FALSE
            <4>1. d \in DOMAIN program /\ program[d].op = "enter" /\ d < e /\ e <= program[d].match
                  /\ program[program[d].match].op = "leave" /\ program[d].match \in Nat
                BY <3>1, Instructions DEF Open, ContextInv
            <4>2. e < program[d].match
                BY <1>4, <4>1
            <4>3. program[e].match < program[d].match
                BY <1>4, <4>1, <4>2, Instructions DEF ContextInv
            <4>4. d \in Open(n + 2)
                BY <1>3, <1>4, <4>1, <4>3, Instructions DEF Open, ContextInv
            <4> QED
                BY <2>1, <4>4
        <3>2. At(e) = Environment
            BY <1>3, <1>4, <3>1 DEF ContextInv, CompiledInv, n
        <3>3. At(e) = code[e]
            BY <1>3, <1>4 DEF At, n
        <3> QED
            BY <1>8, <3>2, <3>3
    <2> QED
        BY <1>1, <1>8, <2>1, CompiledKeeps DEF n, e
<1>11. saved_ctx' \in Seq(EvalContext)
    BY <1>1, <1>2, <1>13
<1>12. SavedInv'
    <2> DEFINE fewer == SubSeq(opens, 1, m - 1)
    <2>1. /\ fewer \in Seq(Nat) /\ Len(fewer) = m - 1 /\ DOMAIN fewer = 1 .. m - 1
          /\ \A i \in 1 .. m - 1 : fewer[i] = opens[i]
        BY <1>2, <1>5, <1>7
    <2>2. /\ Len(saved_ctx') = m - 1
          /\ \A i \in 1 .. m - 1 : saved_ctx'[i] = saved_ctx[i]
        <3>1. /\ SubSeq(saved_ctx, 1, m - 1) \in Seq(EvalContext) /\ Len(SubSeq(saved_ctx, 1, m - 1)) = m - 1
              /\ \A i \in 1 .. m - 1 : SubSeq(saved_ctx, 1, m - 1)[i] = saved_ctx[i]
            <4>1. Len(saved_ctx) = m /\ m >= 1
                BY <1>13 DEF m
            <4> QED
                BY <1>2, <4>1
        <3> QED
            BY <1>1, <3>1
    <2> HIDE DEF fewer
    <2>3. Open(Len(code) + 1)' = Open(n + 1) \ {e}
        <3>1. Open(Len(code) + 1)' = Open(n + 2)
            BY <1>3, <1>9 DEF Open, static
        <3> QED
            BY <1>4, <3>1
    <2>4. \A i, j \in DOMAIN fewer : i < j => fewer[i] < fewer[j]
        BY <1>2, <1>5, <1>7, <2>1
    <2>5. \A i \in 1 .. m - 1 : opens[i] < e
        BY <1>2, <1>5, <1>7
    <2>6. \A i \in DOMAIN fewer : fewer[i] \in Open(Len(code) + 1)'
        <3>1. SUFFICES ASSUME NEW i \in 1 .. m - 1 PROVE opens[i] \in Open(n + 1) /\ opens[i] # e
            BY <2>1, <2>3
        <3>2. i \in DOMAIN opens
            BY <1>2, <1>7
        <3> QED
            BY <1>4, <1>5, <2>5, <3>2
    <2>7. \A d \in Open(Len(code) + 1)' : \E i \in DOMAIN fewer : fewer[i] = d
        <3>1. SUFFICES ASSUME NEW d \in Open(n + 1), d # e PROVE \E i \in 1 .. m - 1 : fewer[i] = d
            BY <2>1, <2>3
        <3>2. PICK i \in 1 .. m : opens[i] = d
            BY <1>5, <1>7
        <3>3. i \in 1 .. m - 1
            BY <1>2, <1>7, <3>1, <3>2
        <3> QED
            BY <2>1, <3>2, <3>3
    <2>8. \A i \in DOMAIN fewer : saved_ctx'[i] = code'[fewer[i]]
        <3>1. SUFFICES ASSUME NEW i \in 1 .. m - 1 PROVE saved_ctx[i] = code'[opens[i]]
            BY <2>1, <2>2
        <3>2. i \in DOMAIN opens
            BY <1>2, <1>7
        <3>3. opens[i] \in 1 .. n
            BY <1>3, <1>5, <3>2, Instructions DEF Open, ContextInv
        <3> QED
            BY <1>5, <1>9, <3>2, <3>3
    <2> QED
        BY <2>1, <2>2, <2>4, <2>6, <2>7, <2>8 DEF SavedInv
<1> QED
    BY <1>9, <1>10, <1>11, <1>12 DEF ContextInv

-----------------------------------------------------------------------------
(* Running an instruction                                                  *)

LEMMA Reached ==
    ASSUME ContextInv, NEW op, Running(op)
    PROVE  /\ ~Compiling /\ pc \in DOMAIN program /\ program[pc].op = op /\ DOMAIN program = 1 .. Len(program)
           /\ pc \in Nat /\ Len(program) \in Nat /\ pc <= Len(program)
           /\ JumpsOut \/ Restorable(pc)
           /\ ~Stopped /\ code[pc] \in EvalContext /\ saved_ctx = << >>
<1>1. ~Compiling /\ pc \in DOMAIN program /\ program[pc].op = op
    BY DEF Running, Here
<1>2. DOMAIN program = 1 .. Len(program) /\ Len(program) \in Nat
    BY Instructions DEF ContextInv
<1>3. pc \in Nat /\ pc <= Len(program) /\ pc # Len(program) + 1
    BY <1>1, <1>2
<1>4. ~Stopped /\ (JumpsOut \/ Restorable(pc))
    BY <1>1, <1>3 DEF ContextInv, RunInv
<1>5. Len(code) \in Nat /\ code \in Seq(EvalContext) /\ Len(code) = Len(program)
    BY <1>1, <1>2 DEF ContextInv, TypeInv, Compiling
<1>6. code[pc] \in EvalContext
    BY <1>1, <1>2, <1>5
<1>7. saved_ctx = << >>
    <2>1. PICK opens \in Seq(Nat) :
              /\ \A i \in DOMAIN opens : opens[i] \in Open(Len(code) + 1)
              /\ Len(opens) = Len(saved_ctx)
        BY DEF ContextInv, SavedInv
    <2>2. Open(Len(code) + 1) = {}
        BY <1>5, OpenEnds DEF ContextInv
    <2>3. Len(opens) = 0
        BY <2>1, <2>2
    <2>4. saved_ctx \in Seq(EvalContext) /\ Len(saved_ctx) = 0
        BY <2>1, <2>3 DEF ContextInv, TypeInv
    <2> QED
        BY <2>4
<1> QED
    BY <1>1, <1>2, <1>3, <1>4, <1>6, <1>7

(* What is left to show of a step of the running code.                     *)
LEMMA RunKeeps ==
    ASSUME ContextInv, ~Compiling, UNCHANGED compiled,
           pc' \in 1 .. Len(program) + 1, now' \in BOOLEAN,
           old_ctx' \in [DOMAIN program -> BOOLEAN], left' \in [DOMAIN program -> 0 .. Iterations],
           JumpsOut \/ Stopped' \/ Restorable(pc)',
           Stopped' => pc' = Len(program) + 1,
           NEW S, output' \in Seq(S)
    PROVE  ContextInv'
<1>1. UNCHANGED static /\ code' = code /\ eval_ctx' = eval_ctx /\ saved_ctx' = saved_ctx /\ program' = program
    BY DEF compiled, static
<1>2. /\ Fixed' <=> Fixed
      /\ \A p : Open(p)' = Open(p)
      /\ JumpsOut' <=> JumpsOut
      /\ Environment' = Environment
    BY <1>1, FixedOpen
<1>3. Fixed' /\ ~Compiling'
    BY <1>1, <1>2 DEF ContextInv, Compiling
<1>4. TypeInv'
    BY <1>1, <1>3 DEF ContextInv, TypeInv
<1>5. SavedInv'
    BY <1>1, <1>2 DEF ContextInv, SavedInv
<1>6. CompiledInv'
    BY <1>1, <1>2 DEF ContextInv, CompiledInv, At
<1>7. RunInv'
    BY <1>1, <1>2, <1>3 DEF RunInv
<1> QED
    BY <1>3, <1>4, <1>5, <1>6, <1>7 DEF ContextInv

(* Where the contexts stay and so do the open blocks, they can still be    *)
(* restored.                                                               *)
LEMMA RestorableStays ==
    ASSUME NEW q, JumpsOut \/ Restorable(q), UNCHANGED <<program, environment_autoescape, now, old_ctx>>,
           JumpsOut \/ Open(pc') = Open(q)
    PROVE  JumpsOut \/ Restorable(pc)'
<1>1. Open(pc)' = Open(pc')
    BY DEF Open
<1> QED
    BY <1>1 DEF Restorable, Outermost

LEMMA OutStep == ContextInv /\ Out => ContextInv'
<1> SUFFICES ASSUME ContextInv, Out PROVE ContextInv'
    OBVIOUS
<1> DEFINE text == Text(Here.node, code[pc], context)
<1>1. /\ Running("out") /\ UNCHANGED compiled /\ now' = now /\ old_ctx' = old_ctx /\ left' = left
      /\ output' = Append(output, [at |-> pc, text |-> text])
      /\ pc' = IF text = Error THEN Len(program) + 1 ELSE pc + 1
    BY DEF Out
<1> HIDE DEF text
<1>2. /\ ~Compiling /\ pc \in DOMAIN program /\ program[pc].op = "out"
      /\ pc \in Nat /\ Len(program) \in Nat /\ pc <= Len(program)
      /\ JumpsOut \/ Restorable(pc)
    BY <1>1, Reached
<1>3. PICK S : output \in Seq(S)
    BY DEF ContextInv, RunInv
<1> DEFINE T == S \cup {[at |-> pc, text |-> text]}
<1>4. output' \in Seq(T) /\ Len(output') = Len(output) + 1 /\ Len(output) \in Nat
      /\ output'[Len(output')] = [at |-> pc, text |-> text]
    <2>1. output \in Seq(T) /\ [at |-> pc, text |-> text] \in T
        BY <1>3
    <2> HIDE DEF T
    <2> QED
        BY <1>1, <2>1
<1>5. Stopped' => text = Error
    BY <1>4 DEF Stopped
<1>6. JumpsOut \/ Stopped' \/ Restorable(pc)'
    <2>1. CASE text = Error
        <3>1. output' # << >>
            BY <1>4
        <3> QED
            BY <1>4, <2>1, <3>1 DEF Stopped
    <2>2. CASE text # Error
        <3>1. Open(pc') = Open(pc)
            BY <1>1, <1>2, <2>2, OpenAround DEF ContextInv
        <3>2. program' = program /\ environment_autoescape' = environment_autoescape
            BY <1>1 DEF compiled, static
        <3> QED
            BY <1>1, <1>2, <3>1, <3>2, RestorableStays
    <2> QED
        BY <2>1, <2>2
<1>7. pc' \in 1 .. Len(program) + 1 /\ (Stopped' => pc' = Len(program) + 1)
    BY <1>1, <1>2, <1>5
<1>8. now' \in BOOLEAN /\ old_ctx' \in [DOMAIN program -> BOOLEAN] /\ left' \in [DOMAIN program -> 0 .. Iterations]
    BY <1>1 DEF ContextInv, TypeInv
<1> HIDE DEF T
<1> QED
    BY <1>1, <1>2, <1>4, <1>6, <1>7, <1>8, RunKeeps

LEMMA EnterStep == ContextInv /\ Enter => ContextInv'
<1> SUFFICES ASSUME ContextInv, Enter PROVE ContextInv'
    OBVIOUS
<1>1. /\ Running("enter") /\ UNCHANGED compiled /\ left' = left /\ output' = output
      /\ old_ctx' = [old_ctx EXCEPT ![pc] = now] /\ now' = Computed(Here.node, code[pc], context) /\ pc' = pc + 1
    BY DEF Enter
<1>2. /\ ~Compiling /\ pc \in DOMAIN program /\ program[pc].op = "enter"
      /\ pc \in Nat /\ Len(program) \in Nat /\ pc <= Len(program)
      /\ JumpsOut \/ Restorable(pc)
      /\ ~Stopped /\ code[pc] \in EvalContext
    BY <1>1, Reached
<1>3. PICK S : output \in Seq(S)
    BY DEF ContextInv, RunInv
<1>4. ~Stopped' /\ program' = program /\ environment_autoescape' = environment_autoescape
    BY <1>1, <1>2 DEF Stopped, compiled, static
<1>5. now \in BOOLEAN /\ old_ctx \in [DOMAIN program -> BOOLEAN] /\ left \in [DOMAIN program -> 0 .. Iterations]
    BY DEF ContextInv, TypeInv
<1>6. now' \in BOOLEAN
    <2>1. context \in Context
        BY <1>5 DEF context, Context, ContextInv, Fixed
    <2> QED
        BY <1>1, <1>2, <2>1, OptionsAssumption DEF ContextInv, Fixed, Here
<1>7. old_ctx' \in [DOMAIN program -> BOOLEAN]
    BY <1>1, <1>5
<1>8. ASSUME Restorable(pc) PROVE Restorable(pc)'
    <2>1. Open(pc') = Open(pc) \cup {pc} /\ pc \notin Open(pc)
        BY <1>1, <1>2, OpenAround DEF ContextInv
    <2>2. Open(pc)' = Open(pc')
        BY <1>4 DEF Open
    <2>3. \A d \in Open(pc) : d < pc /\ d \in Nat
        BY <1>2, Instructions DEF Open, ContextInv
    <2>4. ASSUME NEW e \in Open(pc'), \A d \in Open(pc') : e <= d
          PROVE  old_ctx'[e] = environment_autoescape
        <3>1. CASE e = pc
            <4>1. Open(pc) = {}
                BY <1>2, <2>1, <2>3, <2>4, <3>1
            <4>2. now = environment_autoescape
                BY <1>8, <4>1 DEF Restorable
            <4> QED
                BY <1>1, <1>2, <1>5, <3>1, <4>2
        <3>2. CASE e # pc
            <4>1. Outermost(pc, e)
                BY <2>1, <2>4, <3>2 DEF Outermost
            <4>2. old_ctx[e] = environment_autoescape /\ e \in DOMAIN program
                BY <1>8, <4>1 DEF Restorable, Outermost, Open
            <4> QED
                BY <1>1, <1>5, <3>2, <4>2
        <3> QED
            BY <3>1, <3>2
    <2> QED
        BY <1>4, <2>1, <2>2, <2>4 DEF Restorable, Outermost
<1>9. pc' \in 1 .. Len(program) + 1
    BY <1>1, <1>2
<1> QED
    BY <1>1, <1>2, <1>3, <1>4, <1>5, <1>6, <1>7, <1>8, <1>9, RunKeeps

LEMMA LeaveStep == ContextInv /\ Leave => ContextInv'
<1> SUFFICES ASSUME ContextInv, Leave PROVE ContextInv'
    OBVIOUS
<1> DEFINE e == program[pc].match
<1>1. /\ Running("leave") /\ UNCHANGED compiled /\ left' = left /\ output' = output /\ old_ctx' = old_ctx
      /\ now' = old_ctx[e] /\ pc' = pc + 1
    BY DEF Leave, Here
<1>2. /\ ~Compiling /\ pc \in DOMAIN program /\ program[pc].op = "leave"
      /\ pc \in Nat /\ Len(program) \in Nat /\ pc <= Len(program)
      /\ JumpsOut \/ Restorable(pc)
      /\ ~Stopped
    BY <1>1, Reached
<1>3. PICK S : output \in Seq(S)
    BY DEF ContextInv, RunInv
<1>4. ~Stopped' /\ program' = program /\ environment_autoescape' = environment_autoescape
    BY <1>1, <1>2 DEF Stopped, compiled, static
<1>5. old_ctx \in [DOMAIN program -> BOOLEAN] /\ left \in [DOMAIN program -> 0 .. Iterations]
    BY DEF ContextInv, TypeInv
<1>6. Open(pc') = Open(pc) \ {e} /\ e \in Open(pc) /\ e \in DOMAIN program
    BY <1>1, <1>2, OpenAround DEF ContextInv, Open
<1>7. now' \in BOOLEAN
    BY <1>1, <1>5, <1>6
<1>8. ASSUME Restorable(pc) PROVE Restorable(pc)'
    <2>1. Open(pc)' = Open(pc')
        BY <1>4 DEF Open
    <2>2. \A d \in Open(pc) : d \in Nat
        BY <1>2, Instructions DEF Open, ContextInv
    <2>3. ASSUME Open(pc') = {} PROVE now' = environment_autoescape
        <3>1. Outermost(pc, e)
            BY <1>6, <2>2, <2>3 DEF Outermost
        <3> QED
            BY <1>1, <1>6, <1>8, <3>1 DEF Restorable
    <2>4. ASSUME NEW d \in Open(pc'), \A c \in Open(pc') : d <= c
          PROVE  old_ctx'[d] = environment_autoescape
        <3>1. d < e
            <4>1. d \in DOMAIN program /\ program[d].op = "enter" /\ d < pc' /\ pc' <= program[d].match /\ d \in Nat
                BY <2>2, <2>4, <1>6 DEF Open
            <4>2. program[e].op = "enter" /\ program[e].match = pc /\ e \in Nat /\ e < pc /\ d # e
                  /\ program[d].match \in Nat
                BY <1>2, <1>6, <2>4, <4>1, Instructions DEF ContextInv
            <4>3. ASSUME e < d PROVE FALSE
                <5>1. d < pc
                    BY <1>1, <1>2, <1>6, <2>4 DEF Open
                <5>2. program[d].match < pc
                    BY <1>6, <4>1, <4>2, <4>3, <5>1, Instructions DEF ContextInv
                <5> QED
                    BY <1>1, <1>2, <4>1, <4>2, <5>2
            <4> QED
                BY <4>1, <4>2, <4>3
        <3>2. Outermost(pc, d)
            BY <1>6, <2>2, <2>4, <3>1 DEF Outermost
        <3> QED
            BY <1>1, <1>6, <1>8, <2>4, <3>2 DEF Restorable
    <2> QED
        BY <1>4, <2>1, <2>3, <2>4 DEF Restorable, Outermost
<1>9. pc' \in 1 .. Len(program) + 1
    BY <1>1, <1>2
<1> QED
    BY <1>1, <1>2, <1>3, <1>4, <1>5, <1>7, <1>8, <1>9, RunKeeps

(* A loop goes on, or ends: its blocks are those all around it.            *)
LEMMA LoopStep ==
    ASSUME ContextInv, ~Compiling, UNCHANGED compiled, ~Stopped,
           NEW q \in DOMAIN program, JumpsOut \/ Restorable(q),
           NEW f \in DOMAIN program, program[f].op = "for",
           JumpsOut \/ Open(q) = Open(f),
           pc' = f + 1 \/ pc' = program[f].match + 1,
           left' \in [DOMAIN program -> 0 .. Iterations],
           now' = now, old_ctx' = old_ctx, output' = output
    PROVE  ContextInv'
<1>1. Fixed /\ DOMAIN program = 1 .. Len(program) /\ Len(program) \in Nat
    BY Instructions DEF ContextInv
<1>2. f \in Nat /\ program[f].match \in DOMAIN program
    BY <1>1, Instructions
<1>3. Open(f + 1) = Open(f) /\ Open(program[f].match + 1) = Open(f)
    BY <1>1, OpenAround
<1>4. Open(pc') = Open(f)
    BY <1>3
<1>5. pc' \in 1 .. Len(program) + 1
    BY <1>1, <1>2
<1>6. ~Stopped' /\ program' = program /\ environment_autoescape' = environment_autoescape
    BY DEF Stopped, compiled, static
<1>7. JumpsOut \/ Restorable(pc)'
    <2>1. JumpsOut \/ Open(pc') = Open(q)
        BY <1>4
    <2> QED
        BY <1>6, <2>1, RestorableStays
<1>8. PICK S : output \in Seq(S)
    BY DEF ContextInv, RunInv
<1>9. now' \in BOOLEAN /\ old_ctx' \in [DOMAIN program -> BOOLEAN]
    BY DEF ContextInv, TypeInv
<1> QED
    BY <1>5, <1>6, <1>7, <1>8, <1>9, RunKeeps

LEMMA FewerIterations ==
    ASSUME NEW n \in 0 .. Iterations, n # 0
    PROVE  n - 1 \in 0 .. Iterations
BY TemplatesAssumption

LEMMA ForStep == ContextInv /\ For => ContextInv'
<1> SUFFICES ASSUME ContextInv, For PROVE ContextInv'
    OBVIOUS
<1>1. PICK n \in 0 .. Iterations :
          IF n = 0 THEN pc' = program[pc].match + 1 /\ UNCHANGED left
          ELSE pc' = pc + 1 /\ left' = [left EXCEPT ![pc] = n - 1]
    BY DEF For, Here
<1>2. Running("for") /\ UNCHANGED compiled /\ now' = now /\ old_ctx' = old_ctx /\ output' = output
    BY DEF For
<1>3. /\ ~Compiling /\ pc \in DOMAIN program /\ program[pc].op = "for" /\ ~Stopped
      /\ JumpsOut \/ Restorable(pc)
    BY <1>2, Reached
<1>4. left \in [DOMAIN program -> 0 .. Iterations]
    BY DEF ContextInv, TypeInv
<1>5. left' \in [DOMAIN program -> 0 .. Iterations]
    <2>1. n # 0 => n - 1 \in 0 .. Iterations
        BY FewerIterations
    <2> QED
        BY <1>1, <1>3, <1>4, <2>1
<1>6. pc' = pc + 1 \/ pc' = program[pc].match + 1
    BY <1>1
<1> QED
    BY <1>2, <1>3, <1>5, <1>6, LoopStep

LEMMA AgainStep ==
    ASSUME ContextInv, NEW op \in {"endfor", "continue"}, Running(op), Again(program[pc].match)
    PROVE  ContextInv'
<1> DEFINE f == program[pc].match
<1>1. UNCHANGED compiled /\ now' = now /\ old_ctx' = old_ctx /\ output' = output
    BY DEF Again
<1>2. /\ ~Compiling /\ pc \in DOMAIN program /\ program[pc].op = op /\ ~Stopped
      /\ JumpsOut \/ Restorable(pc)
    BY Reached
<1>3. f \in DOMAIN program /\ program[f].op = "for"
    <2>1. CASE op = "endfor"
        BY <1>2, <2>1, Instructions DEF ContextInv
    <2>2. CASE op = "continue"
        BY <1>2, <2>2, Instructions DEF ContextInv
    <2> QED
        BY <2>1, <2>2
<1>4. JumpsOut \/ Open(pc) = Open(f)
    <2>1. CASE op = "endfor"
        <3>1. program[f].match = pc
            BY <1>2, <2>1, Instructions DEF ContextInv
        <3> QED
            BY <1>3, <3>1, OpenAround DEF ContextInv
    <2>2. CASE op = "continue"
        BY <1>2, <2>2, OpenAtJump DEF ContextInv
    <2> QED
        BY <2>1, <2>2
<1>5. pc' = f + 1 \/ pc' = program[f].match + 1
    BY DEF Again
<1>6. left \in [DOMAIN program -> 0 .. Iterations]
    BY DEF ContextInv, TypeInv
<1>7. left' \in [DOMAIN program -> 0 .. Iterations]
    <2>1. IF left[f] = 0 THEN UNCHANGED left ELSE left' = [left EXCEPT ![f] = left[f] - 1]
        BY DEF Again
    <2>2. left[f] \in 0 .. Iterations
        BY <1>3, <1>6
    <2>3. left[f] # 0 => left[f] - 1 \in 0 .. Iterations
        BY <2>2, FewerIterations
    <2> QED
        BY <1>3, <1>6, <2>1, <2>3
<1> HIDE DEF f
<1> QED
    BY <1>1, <1>2, <1>3, <1>4, <1>5, <1>7, LoopStep

LEMMA BreakStep == ContextInv /\ Break => ContextInv'
<1> SUFFICES ASSUME ContextInv, Break PROVE ContextInv'
    OBVIOUS
<1> DEFINE f == program[pc].match
<1>1. /\ Running("break") /\ UNCHANGED compiled /\ now' = now /\ old_ctx' = old_ctx /\ left' = left
      /\ output' = output /\ pc' = program[f].match + 1
    BY DEF Break, Here, runtime
<1>2. /\ ~Compiling /\ pc \in DOMAIN program /\ program[pc].op = "break" /\ ~Stopped
      /\ JumpsOut \/ Restorable(pc)
    BY <1>1, Reached
<1>3. f \in DOMAIN program /\ program[f].op = "for"
    BY <1>2, Instructions DEF ContextInv
<1>4. JumpsOut \/ Open(pc) = Open(f)
    BY <1>2, OpenAtJump DEF ContextInv
<1>5. left' \in [DOMAIN program -> 0 .. Iterations]
    BY <1>1 DEF ContextInv, TypeInv
<1> HIDE DEF f
<1> QED
    BY <1>1, <1>2, <1>3, <1>4, <1>5, LoopStep

LEMMA SameContext == ContextInv /\ UNCHANGED vars => ContextInv'
<1> SUFFICES ASSUME ContextInv, UNCHANGED vars PROVE ContextInv'
    OBVIOUS
<1>1. UNCHANGED static /\ code' = code /\ eval_ctx' = eval_ctx /\ saved_ctx' = saved_ctx /\ pc' = pc
      /\ now' = now /\ old_ctx' = old_ctx /\ left' = left /\ output' = output
      /\ program' = program /\ environment_autoescape' = environment_autoescape
    BY DEF vars, static
<1>2. /\ Fixed' <=> Fixed
      /\ \A p : Open(p)' = Open(p)
      /\ JumpsOut' <=> JumpsOut
      /\ Environment' = Environment
    BY <1>1, FixedOpen
<1>3. Fixed' /\ (Compiling' <=> Compiling) /\ (Stopped' <=> Stopped)
    BY <1>1, <1>2 DEF ContextInv, Compiling, Stopped
<1>4. TypeInv'
    BY <1>1, <1>3 DEF ContextInv, TypeInv
<1>5. SavedInv'
    BY <1>1, <1>2 DEF ContextInv, SavedInv
<1>6. CompiledInv'
    BY <1>1, <1>2 DEF ContextInv, CompiledInv, At
<1>7. RunInv'
    <2>1. Restorable(pc)' <=> Restorable(pc)
        BY <1>1, <1>2 DEF Restorable, Outermost, Open
    <2> QED
        BY <1>1, <1>2, <1>3, <2>1 DEF ContextInv, RunInv
<1> QED
    BY <1>3, <1>4, <1>5, <1>6, <1>7 DEF ContextInv

LEMMA ContextNext == ContextInv /\ [Next]_vars => ContextInv'
<1> SUFFICES ASSUME ContextInv, [Next]_vars PROVE ContextInv'
    OBVIOUS
<1>1. CASE CompileEnter
    BY <1>1, CompileEnterStep
<1>2. CASE CompileLeave
    BY <1>2, CompileLeaveStep
<1>3. CASE CompileOther
    BY <1>3, CompileOtherStep
<1>4. CASE Out
    BY <1>4, OutStep
<1>5. CASE Enter
    BY <1>5, EnterStep
<1>6. CASE Leave
    BY <1>6, LeaveStep
<1>7. CASE For
    BY <1>7, ForStep
<1>8. CASE EndFor
    BY <1>8, AgainStep DEF EndFor, Here
<1>9. CASE Continue
    BY <1>9, AgainStep DEF Continue, Here
<1>10. CASE Break
    BY <1>10, BreakStep
<1>11. CASE UNCHANGED vars
    BY <1>11, SameContext
<1> QED
    BY <1>1, <1>2, <1>3, <1>4, <1>5, <1>6, <1>7, <1>8, <1>9, <1>10, <1>11 DEF Next, Finished

THEOREM ContextAlways == Spec => []ContextInv
<1>1. Init => ContextInv
    BY ContextInit
<1>2. ContextInv /\ [Next]_vars => ContextInv'
    BY ContextNext
<1> QED
    BY <1>1, <1>2, PTL DEF Spec

(* A context is saved only while its block is being compiled, the contexts *)
(* and the state of the run are of their types, and the place is one of    *)
(* the program's (Frame.eval_ctx, visit_EvalContextModifier).              *)
THEOREM TypeCorrect == Spec => []TypeOK
<1>1. ContextInv => TypeOK
    <2> SUFFICES ASSUME ContextInv PROVE TypeOK
        OBVIOUS
    <2>1. TypeInv
        BY DEF ContextInv
    <2>2. ASSUME ~Compiling PROVE saved_ctx = << >>
        <3>1. Len(code) = Len(program)
            BY <2>1, <2>2, Instructions DEF ContextInv, TypeInv, Compiling
        <3>2. Open(Len(code) + 1) = {}
            BY <3>1, OpenEnds DEF ContextInv
        <3>3. PICK opens \in Seq(Nat) :
                  /\ \A i \in DOMAIN opens : opens[i] \in Open(Len(code) + 1)
                  /\ Len(opens) = Len(saved_ctx)
            BY DEF ContextInv, SavedInv
        <3>4. Len(opens) = 0
            BY <3>2, <3>3
        <3>5. saved_ctx \in Seq(EvalContext) /\ Len(saved_ctx) = 0
            BY <2>1, <3>3, <3>4 DEF TypeInv
        <3> QED
            BY <3>5
    <2> QED
        BY <2>1, <2>2 DEF TypeInv, TypeOK
<1> QED
    BY <1>1, ContextAlways, PTL

(* However deep the blocks are nested and wherever loops stand in them,    *)
(* visit_ScopedEvalContextModifier leaves behind each block the context    *)
(* the block was entered under, in the compiler as at run time.            *)
THEOREM BothReverted == Spec => []Reverted
<1>1. ContextInv => Reverted
    <2> SUFFICES ASSUME ContextInv PROVE Reverted
        OBVIOUS
    <2>1. /\ Fixed /\ Len(program) \in Nat /\ DOMAIN program = 1 .. Len(program)
          /\ Len(code) \in Nat /\ Len(code) <= Len(program) /\ code \in Seq(EvalContext)
        BY Instructions DEF ContextInv, TypeInv
    <2>2. ASSUME NEW p \in 1 .. Len(code), program[p].op = "leave"
          PROVE  (IF p < Len(code) THEN code[p + 1] ELSE eval_ctx) = code[program[p].match]
        <3>1. At(p + 1) = code[program[p].match]
            BY <2>2 DEF ContextInv, CompiledInv
        <3>2. p < Len(code) => p + 1 # Len(code) + 1
            BY <2>1
        <3>3. ~ (p < Len(code)) => p + 1 = Len(code) + 1
            BY <2>1
        <3> QED
            BY <3>1, <3>2, <3>3 DEF At
    <2>3. ASSUME NEW p \in 1 .. Len(code), Enclosing(p) = {}, program[p].op # "leave"
          PROVE  code[p] = Environment
        <3>1. p \in DOMAIN program /\ p \in 1 .. Len(code) + 1 /\ p # Len(code) + 1
            BY <2>1
        <3>2. Open(p) = {}
            BY <2>1, <2>3, <3>1, OpenAround
        <3>3. At(p) = Environment
            BY <3>1, <3>2 DEF ContextInv, CompiledInv
        <3> QED
            BY <3>1, <3>3 DEF At
    <2>4. ASSUME ~Compiling, Enclosing(pc) = {}, pc \in DOMAIN program => Here.op # "leave"
          PROVE  now = environment_autoescape \/ JumpsOut \/ Stopped
        <3>1. pc \in DOMAIN program \/ pc = Len(program) + 1
            BY <2>1 DEF ContextInv, TypeInv
        <3>2. Open(pc) = {}
            <4>1. CASE pc \in DOMAIN program
                BY <2>1, <2>4, <4>1, OpenAround DEF Here
            <4>2. CASE pc = Len(program) + 1
                BY <2>1, <4>2, OpenEnds
            <4> QED
                BY <3>1, <4>1, <4>2
        <3> QED
            BY <2>4, <3>2 DEF ContextInv, RunInv, Restorable
    <2> QED
        BY <2>2, <2>3, <2>4 DEF Reverted
<1> QED
    BY <1>1, ContextAlways, PTL
=============================================================================
