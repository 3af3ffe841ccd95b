------------------------- MODULE BytecodeCacheProofs -------------------------
(***************************************************************************)
(* BytecodeCache for any number of processes, contents and versions: the   *)
(* cache file is always whole, a load ends with its own code, and it       *)
(* leaves no temporary file.  Each follows from the inductive invariant    *)
(* IndInv, which says what a process has at each of its steps.             *)
(***************************************************************************)
EXTENDS BytecodeCache, TLAPS

(* What every step is about: one process, and what it leaves alone.        *)
Apart(p) == \A q \in Procs \ {p} :
                /\ pc'[q] = pc[q] /\ bucket'[q] = bucket[q]
                /\ fd'[q] = fd[q] /\ outcome'[q] = outcome[q]
                /\ magic'[q] = magic[q]
                /\ temp'[q] \in {temp[q], None}

(* A process that a step leaves alone, but for its temporary file that     *)
(* clear() may remove, still has what it should have.                      *)
LEMMA Bystander ==
    ASSUME NEW q \in Procs, ProcInv(q),
           pc'[q] = pc[q], bucket'[q] = bucket[q], fd'[q] = fd[q],
           outcome'[q] = outcome[q], magic'[q] = magic[q],
           temp'[q] \in {temp[q], None}
    PROVE  ProcInv(q)'
BY DEF ProcInv, Compiled, Sound, Reading, Dumping

(* A step of p preserves the invariant if it does so for the types, the    *)
(* cache file and p.                                                       *)
LEMMA OneProcess ==
    ASSUME IndInv, NEW p \in Procs, Apart(p), TypeOK', ProcInv(p)',
           cached' # None => Sound(cached') /\ cached'.parts = 3
    PROVE  IndInv'
<1>1. ASSUME NEW q \in Procs PROVE ProcInv(q)'
  <2>1. CASE q = p
    BY <2>1
  <2>2. CASE q # p
    BY <2>2, Bystander DEF Apart, IndInv
  <2> QED BY <2>1, <2>2
<1> QED BY <1>1 DEF IndInv, Sound

(* The file a process creates: nothing in it yet, and sound.               *)
LEMMA NewFileSound ==
    ASSUME IndInv, NEW p \in Procs, pc[p] = "create"
    PROVE  NewFile(p) \in File /\ Sound(NewFile(p)) /\ NewFile(p).parts = 0
<1>1. bucket[p].checksum \in Sources /\ bucket[p].code = Compiled(p)
  BY DEF IndInv, ProcInv, Dumping
<1>2. magic[p] \in Magics
  BY DEF IndInv, TypeOK
<1>3. Compiled(p) \in Codes
  BY <1>1, <1>2 DEF Compiled, Codes
<1> QED BY <1>1, <1>2, <1>3 DEF NewFile, File, Sound, Compiled

(* Writing one more part keeps a file sound.                               *)
LEMMA PartWritten ==
    ASSUME NEW f \in File, Sound(f), f.parts < 3
    PROVE  LET g == [f EXCEPT !.parts = @ + 1] IN
           g \in File /\ Sound(g) /\ g.parts = f.parts + 1
BY DEF File, Sound

LEMMA IndInit == Init => IndInv
<1> SUFFICES ASSUME Init PROVE IndInv
  OBVIOUS
<1>1. NoBucket \in [checksum : Sources \cup {None}, code : Codes \cup {None}]
  BY DEF NoBucket
<1>2. TypeOK
  BY <1>1, LitterAssumption DEF Init, TypeOK, PCs
<1>3. ASSUME NEW p \in Procs PROVE ProcInv(p)
  BY DEF Init, ProcInv, Reading, Dumping
<1> QED BY <1>2, <1>3 DEF Init, IndInv

(* The steps that only read, compute or end a load. *)
LEMMA ReadersStep ==
    ASSUME IndInv, NEW p \in Procs,
           \/ Load(p) \/ Open(p) \/ ReadMagic(p) \/ ReadChecksum(p)
           \/ ReadCode(p) \/ Compile(p) \/ Finish(p)
    PROVE  IndInv'
<1> USE DEF Goto, disk, Opened, Closed, Ending, HasCode
<1>0. ProcInv(p) /\ TypeOK
  BY DEF IndInv
<1>1. CASE Load(p)
  <2>1. TypeOK'
    BY <1>0, <1>1, SMTT(30) DEF Load, TypeOK, PCs
  <2>2. Apart(p)
    BY <1>0, <1>1 DEF Load, TypeOK, Apart
  <2>3. ProcInv(p)'
    BY <1>0, <1>1 DEF Load, TypeOK, ProcInv, Reading, Dumping
  <2> QED BY <1>1, <2>1, <2>2, <2>3, OneProcess DEF Load, IndInv
<1>2. CASE Open(p)
  <2>1. CASE cached # None /\ pc'[p] = "read_magic" /\ fd' = [fd EXCEPT ![p] = cached]
    <3>1. TypeOK'
      BY <1>0, <1>2, <2>1, NoneAssumption DEF Open, TypeOK, PCs
    <3>2. Apart(p)
      BY <1>0, <1>2, <2>1 DEF Open, TypeOK, Apart
    <3>3. ProcInv(p)'
      BY <1>0, <1>2, <2>1 DEF Open, TypeOK, ProcInv, IndInv, Reading, Dumping, Sound
    <3> QED BY <1>2, <3>1, <3>2, <3>3, OneProcess DEF Open, IndInv
  <2>2. CASE pc'[p] = "compile" /\ UNCHANGED fd
    <3>1. TypeOK'
      BY <1>0, <1>2, <2>2 DEF Open, TypeOK, PCs
    <3>2. Apart(p)
      BY <1>0, <1>2, <2>2 DEF Open, TypeOK, Apart
    <3>3. ProcInv(p)'
      BY <1>0, <1>2, <2>2 DEF Open, TypeOK, ProcInv, Reading, Dumping
    <3> QED BY <1>2, <3>1, <3>2, <3>3, OneProcess DEF Open, IndInv
  <2> QED BY <1>0, <1>2, <2>1, <2>2 DEF Open, TypeOK
<1>3. CASE ReadMagic(p)
  <2>1. TypeOK'
    BY <1>0, <1>3, NoneAssumption DEF ReadMagic, TypeOK, PCs
  <2>2. Apart(p)
    BY <1>0, <1>3 DEF ReadMagic, TypeOK, Apart
  <2>3. ProcInv(p)'
    BY <1>0, <1>3 DEF ReadMagic, TypeOK, ProcInv, Reading, Dumping, Sound
  <2> QED BY <1>3, <2>1, <2>2, <2>3, OneProcess DEF ReadMagic, IndInv
<1>4. CASE ReadChecksum(p)
  <2>1. fd[p].parts = 3
    BY <1>0, <1>4 DEF ReadChecksum, ProcInv, Reading
  <2>2. TypeOK'
    BY <1>0, <1>4, <2>1, NoneAssumption DEF ReadChecksum, TypeOK, PCs
  <2>3. Apart(p)
    BY <1>0, <1>4 DEF ReadChecksum, TypeOK, Apart
  <2>4. ProcInv(p)'
    BY <1>0, <1>4, <2>1 DEF ReadChecksum, TypeOK, ProcInv, Reading, Dumping, Sound
  <2> QED BY <1>4, <2>2, <2>3, <2>4, OneProcess DEF ReadChecksum, IndInv
<1>5. CASE ReadCode(p)
  <2>1. fd[p] \in File /\ fd[p].code \in Codes /\ fd[p].parts = 3
    BY <1>0, <1>5 DEF ReadCode, TypeOK, ProcInv, Reading, File
  <2>2. TypeOK'
    BY <1>0, <1>5, <2>1 DEF ReadCode, TypeOK, PCs
  <2>3. Apart(p)
    BY <1>0, <1>5 DEF ReadCode, TypeOK, Apart
  <2>4. ProcInv(p)'
    BY <1>0, <1>5, <2>1 DEF ReadCode, TypeOK, ProcInv, Reading, Dumping, Sound, Compiled
  <2> QED BY <1>5, <2>2, <2>3, <2>4, OneProcess DEF ReadCode, IndInv
<1>6. CASE Compile(p)
  <2>1. [src |-> bucket[p].checksum, magic |-> magic[p]] \in Codes
    BY <1>0, <1>6 DEF Compile, TypeOK, ProcInv, Codes
  <2>2. TypeOK'
    BY <1>0, <1>6, <2>1 DEF Compile, TypeOK, PCs
  <2>3. Apart(p)
    BY <1>0, <1>6 DEF Compile, TypeOK, Apart
  <2>4. ProcInv(p)'
    BY <1>0, <1>6 DEF Compile, TypeOK, ProcInv, Reading, Dumping, Compiled
  <2> QED BY <1>6, <2>2, <2>3, <2>4, OneProcess DEF Compile, IndInv
<1>7. CASE Finish(p)
  <2>1. NoBucket \in [checksum : Sources \cup {None}, code : Codes \cup {None}]
    BY DEF NoBucket
  <2>2. TypeOK'
    BY <1>0, <1>7, <2>1 DEF Finish, TypeOK, PCs
  <2>3. Apart(p)
    BY <1>0, <1>7 DEF Finish, TypeOK, Apart
  <2>4. ProcInv(p)'
    BY <1>0, <1>7 DEF Finish, TypeOK, ProcInv, Reading, Dumping
  <2> QED BY <1>7, <2>2, <2>3, <2>4, OneProcess DEF Finish, IndInv
<1> QED BY <1>1, <1>2, <1>3, <1>4, <1>5, <1>6, <1>7

(* The creation of the temporary file. *)
LEMMA CreateStep ==
    ASSUME IndInv, NEW p \in Procs, Create(p)
    PROVE  IndInv'
<1> USE DEF Goto, Opened, Ending
<1>0. ProcInv(p) /\ TypeOK /\ pc[p] = "create"
  BY DEF IndInv, Create
<1>1. CASE /\ pc' = [pc EXCEPT ![p] = "write"]
           /\ fd' = [fd EXCEPT ![p] = NewFile(p)]
           /\ temp' = [temp EXCEPT ![p] = NewFile(p)]
           /\ listed' = [q \in Procs |-> listed[q] \ {p}]
           /\ UNCHANGED outcome
  <2>1. NewFile(p) \in File /\ Sound(NewFile(p)) /\ NewFile(p).parts = 0
    BY <1>0, NewFileSound
  <2>2. TypeOK'
    BY <1>0, <1>1, <2>1, NoneAssumption DEF Create, TypeOK, PCs
  <2>3. Apart(p)
    BY <1>0, <1>1 DEF Create, TypeOK, Apart
  <2>4. ProcInv(p)'
    BY <1>0, <1>1, <2>1 DEF Create, TypeOK, ProcInv, Reading, Dumping, Sound, Compiled
  <2> QED BY <2>2, <2>3, <2>4, OneProcess DEF Create, IndInv
<1>2. CASE /\ pc' = [pc EXCEPT ![p] = "end"]
           /\ outcome' = [outcome EXCEPT ![p] = "OSError"]
           /\ UNCHANGED <<fd, temp, listed>>
  <2>1. TypeOK'
    BY <1>0, <1>2 DEF Create, TypeOK, PCs
  <2>2. Apart(p)
    BY <1>0, <1>2 DEF Create, TypeOK, Apart
  <2>3. ProcInv(p)'
    BY <1>0, <1>2 DEF Create, TypeOK, ProcInv, Reading, Dumping
  <2> QED BY <2>1, <2>2, <2>3, OneProcess DEF Create, IndInv
<1> QED BY <1>0, <1>1, <1>2 DEF Create

(* What remove_silent leaves of the temporary files and of their count.    *)
LEMMA Removed ==
    ASSUME TypeOK, NEW p \in Procs, RemoveSilent(p)
    PROVE  /\ temp' = [temp EXCEPT ![p] = None]
           /\ litter' \in 0..MaxLitter
BY LitterAssumption DEF TypeOK, RemoveSilent

(* The writing of a part, or its failure. *)
LEMMA WriteStep ==
    ASSUME IndInv, NEW p \in Procs, Write(p)
    PROVE  IndInv'
<1> DEFINE f == [fd[p] EXCEPT !.parts = @ + 1]
<1> USE DEF Goto, Opened, Closed, Ending
<1>0. ProcInv(p) /\ TypeOK /\ pc[p] = "write"
  BY DEF IndInv, Write
<1>1. fd[p] \in File /\ Sound(fd[p]) /\ fd[p].parts < 3
  BY <1>0, NoneAssumption DEF TypeOK, ProcInv
<1>2. f \in File /\ Sound(f) /\ f.parts = fd[p].parts + 1
  BY <1>1, PartWritten
<1>3. fd[p].parts \in 0..3
  BY <1>1 DEF File
<1> HIDE DEF f
<1>4. CASE /\ pc' = [pc EXCEPT ![p] = IF f.parts = 3 THEN "replace" ELSE "write"]
           /\ temp' = [temp EXCEPT ![p] = IF @ = None THEN None ELSE f]
           /\ fd' = [fd EXCEPT ![p] = IF f.parts = 3 THEN None ELSE f]
           /\ UNCHANGED <<litter, outcome>>
  <2>1. TypeOK'
    BY <1>0, <1>2, <1>4, NoneAssumption DEF Write, TypeOK, PCs
  <2>2. Apart(p)
    BY <1>0, <1>4 DEF Write, TypeOK, Apart
  <2>3. /\ pc'[p] = IF f.parts = 3 THEN "replace" ELSE "write"
        /\ fd'[p] = IF f.parts = 3 THEN None ELSE f
        /\ temp'[p] = IF temp[p] = None THEN None ELSE f
        /\ UNCHANGED <<bucket, magic, outcome>>
    BY <1>0, <1>4 DEF Write, TypeOK
  <2>4. ProcInv(p)'
    BY <1>0, <1>2, <1>3, <2>3 DEF ProcInv, Reading, Dumping, Sound, Compiled
  <2> QED BY <2>1, <2>2, <2>4, OneProcess DEF Write, IndInv
<1>5. CASE /\ pc' = [pc EXCEPT ![p] = "end"]
           /\ RemoveSilent(p)
           /\ fd' = [fd EXCEPT ![p] = None]
           /\ outcome' = [outcome EXCEPT ![p] = "OSError"]
  <2>1. temp' = [temp EXCEPT ![p] = None] /\ litter' \in 0..MaxLitter
    BY <1>0, <1>5, Removed
  <2>2. TypeOK'
    BY <1>0, <1>5, <2>1 DEF Write, TypeOK, PCs
  <2>3. Apart(p)
    BY <1>0, <1>5, <2>1 DEF Write, TypeOK, Apart
  <2>4. ProcInv(p)'
    BY <1>0, <1>5, <2>1 DEF Write, TypeOK, ProcInv, Reading, Dumping
  <2> QED BY <2>2, <2>3, <2>4, OneProcess DEF Write, IndInv
<1> QED BY <1>4, <1>5 DEF Write, f

(* os.replace, or its failure. *)
LEMMA ReplaceStep ==
    ASSUME IndInv, NEW p \in Procs, Replace(p)
    PROVE  IndInv'
<1> USE DEF Goto, Ending
<1>0. ProcInv(p) /\ TypeOK /\ pc[p] = "replace" /\ pc' = [pc EXCEPT ![p] = "end"]
  BY DEF IndInv, Replace
<1>1. /\ temp' = [temp EXCEPT ![p] = None] /\ litter' \in 0..MaxLitter
      /\ cached' \in {cached, temp[p]}
      /\ cached' = temp[p] => temp[p] # None \/ cached = temp[p]
  <2>1. CASE RemoveSilent(p) /\ UNCHANGED cached
    BY <1>0, <2>1, Removed
  <2>2. CASE /\ temp[p] # None /\ cached' = temp[p]
             /\ temp' = [temp EXCEPT ![p] = None] /\ UNCHANGED litter
    BY <1>0, <2>2 DEF TypeOK
  <2> QED BY <2>1, <2>2 DEF Replace
<1>2. TypeOK'
  BY <1>0, <1>1 DEF Replace, TypeOK, PCs
<1>3. Apart(p)
  BY <1>0, <1>1 DEF Replace, TypeOK, Apart
<1>4. ProcInv(p)'
  BY <1>0, <1>1 DEF Replace, TypeOK, ProcInv, Reading, Dumping, Compiled
<1>5. cached' # None => Sound(cached') /\ cached'.parts = 3
  BY <1>0, <1>1 DEF ProcInv, IndInv, Sound
<1> QED BY <1>2, <1>3, <1>4, <1>5, OneProcess

(* clear(), which may take any process's temporary file. *)
LEMMA ClearStep ==
    ASSUME IndInv, NEW p \in Procs,
           ClearList(p) \/ ClearRemove(p) \/ ClearEnd(p)
    PROVE  IndInv'
<1> USE DEF Goto, disk, locals
<1>0. ProcInv(p) /\ TypeOK
  BY DEF IndInv
<1>1. CASE ClearList(p)
  <2>1. TypeOK'
    BY <1>0, <1>1 DEF ClearList, TypeOK, PCs
  <2>2. Apart(p)
    BY <1>0, <1>1 DEF ClearList, TypeOK, Apart
  <2>3. ProcInv(p)'
    BY <1>0, <1>1 DEF ClearList, TypeOK, ProcInv, Reading, Dumping
  <2> QED BY <1>1, <2>1, <2>2, <2>3, OneProcess DEF ClearList, IndInv
<1>2. CASE ClearRemove(p)
  <2>1. PICK name \in listed[p] :
           /\ listed' = [listed EXCEPT ![p] = @ \ {name}]
           /\ cached' \in {cached, None}
           /\ temp' = temp \/ temp' = [temp EXCEPT ![name] = None]
    BY <1>2 DEF ClearRemove
  <2>2. TypeOK'
    BY <1>0, <1>2, <2>1 DEF ClearRemove, TypeOK
  <2>3. \A q \in Procs : temp'[q] \in {temp[q], None}
    BY <1>0, <2>1 DEF TypeOK
  <2>4. \A q \in Procs : ProcInv(q)'
    BY <1>2, <2>3, Bystander DEF ClearRemove, IndInv
  <2> QED BY <2>1, <2>2, <2>4 DEF IndInv, Sound
<1>3. CASE ClearEnd(p)
  <2>1. TypeOK'
    BY <1>0, <1>3 DEF ClearEnd, TypeOK, PCs
  <2>2. Apart(p)
    BY <1>0, <1>3 DEF ClearEnd, TypeOK, Apart
  <2>3. ProcInv(p)'
    BY <1>0, <1>3 DEF ClearEnd, TypeOK, ProcInv, Reading, Dumping
  <2> QED BY <1>3, <2>1, <2>2, <2>3, OneProcess DEF ClearEnd, IndInv
<1> QED BY <1>1, <1>2, <1>3

LEMMA CrashStep ==
    ASSUME IndInv, NEW p \in Procs, Crash(p)
    PROVE  IndInv'
<1> USE DEF Opened, Closed, Ending
<1>0. TypeOK
  BY DEF IndInv
<1>1. litter' \in 0..MaxLitter
  BY <1>0, LitterAssumption DEF Crash, TypeOK
<1>2. NoBucket \in [checksum : Sources \cup {None}, code : Codes \cup {None}]
  BY DEF NoBucket
<1>3. TypeOK'
  BY <1>0, <1>1, <1>2 DEF Crash, TypeOK, PCs
<1>4. Apart(p)
  BY <1>0 DEF Crash, TypeOK, Apart
<1>5. ProcInv(p)'
  BY <1>0 DEF Crash, TypeOK, ProcInv, Reading, Dumping
<1> QED BY <1>3, <1>4, <1>5, OneProcess DEF Crash, IndInv

LEMMA IndNext == IndInv /\ [Next]_vars => IndInv'
<1> SUFFICES ASSUME IndInv, [Next]_vars PROVE IndInv'
  OBVIOUS
<1>1. CASE Edit
  <2>1. TypeOK'
    BY <1>1 DEF IndInv, Edit, TypeOK, disk, locals
  <2>2. \A q \in Procs : ProcInv(q)'
    BY <1>1, Bystander DEF IndInv, Edit, disk, locals
  <2> QED BY <1>1, <2>1, <2>2 DEF IndInv, Edit, Sound, disk
<1>2. CASE UNCHANGED vars
  <2>1. TypeOK'
    BY <1>2 DEF IndInv, vars, TypeOK, disk, locals
  <2>2. \A q \in Procs : ProcInv(q)'
    BY <1>2, Bystander DEF IndInv, vars, disk, locals
  <2> QED BY <1>2, <2>1, <2>2 DEF IndInv, vars, Sound, disk
<1>3. ASSUME NEW p \in Procs, Load(p) \/ ClearList(p) \/ Crash(p) \/ Step(p)
      PROVE  IndInv'
  BY <1>3, ReadersStep, CreateStep, WriteStep, ReplaceStep, ClearStep, CrashStep
     DEF Step
<1> QED BY <1>1, <1>2, <1>3 DEF Next

(* IndInv holds in every state. *)
THEOREM Invariance == Spec => []IndInv
BY IndInit, IndNext, PTL DEF Spec

(* Every variable keeps its type, and no file stays open. *)
THEOREM TypeCorrect == Spec => []TypeOK
<1>1. IndInv => TypeOK
  BY DEF IndInv
<1> QED BY <1>1, Invariance, PTL

(* No reader ever meets a file that is not whole (bccache.py:276). *)
THEOREM ReadsWholeFiles == Spec => []NoTornRead
<1>1. IndInv => NoTornRead
  BY DEF IndInv, ProcInv, NoTornRead
<1> QED BY <1>1, Invariance, PTL

(* A load ends with the code of its own source, under its own version. *)
THEOREM LoadsOwnCode == Spec => []OwnCode
<1>1. IndInv => OwnCode
  BY DEF IndInv, ProcInv, OwnCode
<1> QED BY <1>1, Invariance, PTL

(* A load that ends leaves no temporary file of its own behind. *)
THEOREM RemovesTempFiles == Spec => []NoTempLeft
<1>1. IndInv => NoTempLeft
  BY DEF IndInv, ProcInv, NoTempLeft
<1> QED BY <1>1, Invariance, PTL
=============================================================================
