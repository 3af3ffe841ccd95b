---------------------------- MODULE BytecodeCache ----------------------------
(***************************************************************************)
(* BaseLoader.load with a FileSystemBytecodeCache that several processes   *)
(* share: a load opens the cache file of its template, reads the magic,    *)
(* the checksum and the code from it, or else compiles and dumps the code  *)
(* into a temporary file that replaces the cache file.  Processes run      *)
(* different Python versions, are killed, meet I/O errors and call clear().*)
(*                                                                         *)
(* One template, so one cache file: the key is a hash of the name and the  *)
(* file name, and templates do not share a file.  One action per system    *)
(* call.  What is not modelled: sources that do not compile (see           *)
(* TemplateLoading) and marshalled code that was corrupted on the disk.    *)
(***************************************************************************)
EXTENDS Integers

CONSTANTS
    Procs,          \* the processes that share the cache directory
    Sources,        \* what the source of the template can say
    Magics,         \* the values of bc_magic: versions of Jinja and Python
    MatchesTemp,    \* does clear()'s pattern match the temporary files too?
    None,
    MaxLitter       \* bound: how many temporary files nobody removes

ASSUME LitterAssumption == MaxLitter \in Nat

VARIABLES
    source,     \* the source of the template
    magic,      \* magic[p]: the version p runs, which a restart may change
    cached,     \* what is under the name of the cache file, or None
    temp,       \* temp[p]: what is under the name of p's temporary file
    litter,     \* how many temporary files their writers have left behind
    pc,         \* pc[p]: the step p takes next
    bucket,     \* bucket[p]: the checksum and the code of p's bucket
    fd,         \* fd[p]: what is in the file p has open
    outcome,    \* outcome[p]: how the load ends
    listed      \* listed[p]: the files p, in clear(), has still to remove

disk   == <<cached, temp, litter>>
locals == <<bucket, fd, outcome, listed>>
vars   == <<source, magic, disk, pc, locals>>

(* A code object is good for one source and one version. *)
Codes == [src : Sources, magic : Magics]

(* Files are written and read in three parts: magic, checksum, code.  An   *)
(* open file is what it was when it was opened, whatever becomes of its    *)
(* name: nobody writes to a file that has the name of the cache file.      *)
File      == [magic : Magics, checksum : Sources, code : Codes, parts : 0..3]

ASSUME NoneAssumption == None \notin File

NoBucket  == [checksum |-> None, code |-> None]
CacheName == "cache file"

-----------------------------------------------------------------------------
Init ==
    /\ source \in Sources
    /\ magic \in [Procs -> Magics]
    /\ cached = None
    /\ temp = [p \in Procs |-> None]
    /\ litter = 0
    /\ pc = [p \in Procs |-> "idle"]
    /\ bucket = [p \in Procs |-> NoBucket]
    /\ fd = [p \in Procs |-> None]
    /\ outcome = [p \in Procs |-> "none"]
    /\ listed = [p \in Procs |-> {}]

Goto(p, from, to) == pc[p] = from /\ pc' = [pc EXCEPT ![p] = to]
Opened(p, f)      == fd' = [fd EXCEPT ![p] = f]
Closed(p)         == Opened(p, None)
Ending(p, how)    == outcome' = [outcome EXCEPT ![p] = how]
HasCode(p, c)     == bucket' = [bucket EXCEPT ![p].code = c]

Edit ==
    /\ \E s \in Sources \ {source} : source' = s
    /\ UNCHANGED <<magic, disk, pc, locals>>

(* load: get_source, and get_bucket up to the Bucket with its checksum *)
Load(p) ==
    /\ Goto(p, "idle", "open")
    /\ bucket' = [bucket EXCEPT ![p].checksum = source]
    /\ UNCHANGED <<source, magic, disk, fd, outcome, listed>>

(* FileSystemBytecodeCache.load_bytecode: open(filename, "rb"), which may  *)
(* find no file or, on Windows, be refused one that another has in use     *)
Open(p) ==
    /\ \/ /\ cached # None
          /\ Goto(p, "open", "read_magic")
          /\ Opened(p, cached)
       \/ /\ Goto(p, "open", "compile")
          /\ UNCHANGED fd
    /\ UNCHANGED <<source, magic, disk, bucket, outcome, listed>>

(* Mutant: the magic is skipped, not compared.                             *)
ReadMagicSkipped(p) ==
    /\ Goto(p, "read_magic", "read_checksum")
    /\ UNCHANGED <<source, magic, disk, locals>>

(* Bucket.load_bytecode: another version's magic, or none, is a miss *)
ReadMagic(p) ==
    LET f    == fd[p]
        mine == f.parts > 0 /\ f.magic = magic[p]
    IN
    /\ pc[p] = "read_magic"
    /\ Goto(p, "read_magic", IF mine THEN "read_checksum" ELSE "compile")
    /\ Opened(p, IF mine THEN f ELSE None)
    /\ UNCHANGED <<source, magic, disk, bucket, outcome, listed>>

(* Bucket.load_bytecode: pickle.load(f), whose EOFError nothing catches,   *)
(* and the test whether the source has changed                             *)
ReadChecksum(p) ==
    LET f       == fd[p]
        current == f.parts > 1 /\ f.checksum = bucket[p].checksum
    IN
    /\ pc[p] = "read_checksum"
    /\ Goto(p, "read_checksum", IF f.parts < 2 THEN "end"
                                ELSE IF current THEN "read_code" ELSE "compile")
    /\ Opened(p, IF current THEN f ELSE None)
    /\ Ending(p, IF f.parts < 2 THEN "EOFError" ELSE "none")
    /\ UNCHANGED <<source, magic, disk, bucket, listed>>

(* Bucket.load_bytecode: marshal.load(f), whose EOFError is a miss *)
ReadCode(p) ==
    LET f     == fd[p]
        whole == f.parts > 2
    IN
    /\ pc[p] = "read_code"
    /\ Goto(p, "read_code", IF whole THEN "end" ELSE "compile")
    /\ HasCode(p, IF whole THEN f.code ELSE None)
    /\ Ending(p, IF whole THEN "ok" ELSE "none")
    /\ Closed(p)
    /\ UNCHANGED <<source, magic, disk, listed>>

(* load: environment.compile(source), bucket.code = code *)
Compile(p) ==
    /\ Goto(p, "compile", "create")
    /\ HasCode(p, [src |-> bucket[p].checksum, magic |-> magic[p]])
    /\ UNCHANGED <<source, magic, disk, fd, outcome, listed>>

(* A new file, with what is going to be written to it.                     *)
NewFile(p) == [magic |-> magic[p], checksum |-> bucket[p].checksum,
               code |-> bucket[p].code, parts |-> 0]

(* Mutant: the bytecode is written where the others read it.               *)
CreateInPlace(p) ==
    /\ Goto(p, "create", "write")
    /\ Opened(p, NewFile(p))
    /\ cached' = NewFile(p)
    /\ UNCHANGED <<source, magic, temp, litter, bucket, outcome, listed>>

(* dump_bytecode: NamedTemporaryFile(delete=False), an error of which ends *)
(* the load.  No file has had the name before.                             *)
Create(p) ==
    /\ \/ /\ Goto(p, "create", "write")
          /\ Opened(p, NewFile(p))
          /\ temp' = [temp EXCEPT ![p] = NewFile(p)]
          /\ listed' = [q \in Procs |-> listed[q] \ {p}]
          /\ UNCHANGED outcome
       \/ /\ Goto(p, "create", "end")
          /\ Ending(p, "OSError")
          /\ UNCHANGED <<fd, temp, listed>>
    /\ UNCHANGED <<source, magic, cached, litter, bucket>>

(* remove_silent: os.remove(f.name), which may find the file gone or be    *)
(* refused, in which case the file stays                                   *)
RemoveSilent(p) ==
    /\ temp' = [temp EXCEPT ![p] = None]
    /\ \/ UNCHANGED litter
       \/ /\ temp[p] # None
          /\ litter < MaxLitter
          /\ litter' = litter + 1

(* Mutant: a failed write raises with the file still open.                 *)
WriteKeepsOpen(p) ==
    LET f == [fd[p] EXCEPT !.parts = @ + 1] IN
    /\ pc[p] = "write"
    /\ \/ /\ Goto(p, "write", IF f.parts = 3 THEN "replace" ELSE "write")
          /\ temp' = [temp EXCEPT ![p] = IF @ = None THEN None ELSE f]
          /\ Opened(p, IF f.parts = 3 THEN None ELSE f)
          /\ UNCHANGED <<litter, outcome>>
       \/ /\ Goto(p, "write", "end")
          /\ RemoveSilent(p)
          /\ UNCHANGED fd
          /\ Ending(p, "OSError")
    /\ UNCHANGED <<source, magic, cached, bucket, listed>>

(* write_bytecode: the next part, or an error: the file is closed and      *)
(* removed, and the load raises                                            *)
Write(p) ==
    LET f == [fd[p] EXCEPT !.parts = @ + 1] IN
    /\ pc[p] = "write"
    /\ \/ /\ Goto(p, "write", IF f.parts = 3 THEN "replace" ELSE "write")
          /\ temp' = [temp EXCEPT ![p] = IF @ = None THEN None ELSE f]
          /\ Opened(p, IF f.parts = 3 THEN None ELSE f)
          /\ UNCHANGED <<litter, outcome>>
       \/ /\ Goto(p, "write", "end")
          /\ RemoveSilent(p)
          /\ Closed(p)
          /\ Ending(p, "OSError")
    /\ UNCHANGED <<source, magic, cached, bucket, listed>>

(* Mutant: a failed os.replace leaves the temporary file.                  *)
ReplaceForgets(p) ==
    /\ Goto(p, "replace", "end")
    /\ \/ /\ temp[p] # None
          /\ cached' = temp[p]
          /\ temp' = [temp EXCEPT ![p] = None]
       \/ UNCHANGED <<cached, temp>>
    /\ Ending(p, "ok")
    /\ UNCHANGED <<source, magic, litter, bucket, fd, listed>>

(* dump_bytecode: os.replace(f.name, name); if it fails, because the file  *)
(* is no longer there or is held open, the load does without               *)
Replace(p) ==
    /\ Goto(p, "replace", "end")
    /\ \/ /\ temp[p] # None
          /\ cached' = temp[p]
          /\ temp' = [temp EXCEPT ![p] = None]
          /\ UNCHANGED litter
       \/ /\ RemoveSilent(p)
          /\ UNCHANGED cached
    /\ Ending(p, "ok")
    /\ UNCHANGED <<source, magic, bucket, fd, listed>>

(* load returns Template.from_code(code), or raises *)
Finish(p) ==
    /\ Goto(p, "end", "idle")
    /\ bucket' = [bucket EXCEPT ![p] = NoBucket]
    /\ Ending(p, "none")
    /\ UNCHANGED <<source, magic, disk, fd, listed>>

(* clear: fnmatch.filter(os.listdir(directory), pattern) *)
ClearList(p) ==
    /\ Goto(p, "idle", "clear")
    /\ listed' = [listed EXCEPT ![p] =
                    (IF cached = None THEN {} ELSE {CacheName})
                    \cup {q \in Procs : MatchesTemp /\ temp[q] # None}]
    /\ UNCHANGED <<source, magic, disk, bucket, fd, outcome>>

(* clear: remove() of one name after another, an OSError ignored *)
ClearRemove(p) ==
    /\ pc[p] = "clear"
    /\ \E name \in listed[p] :
           /\ listed' = [listed EXCEPT ![p] = @ \ {name}]
           /\ \/ UNCHANGED <<cached, temp>>
              \/ /\ name = CacheName
                 /\ cached' = None
                 /\ UNCHANGED temp
              \/ /\ name # CacheName
                 /\ temp' = [temp EXCEPT ![name] = None]
                 /\ UNCHANGED cached
    /\ UNCHANGED <<source, magic, litter, pc, bucket, fd, outcome>>

ClearEnd(p) ==
    /\ Goto(p, "clear", "idle")
    /\ listed[p] = {}
    /\ UNCHANGED <<source, magic, disk, locals>>

(* The process is killed at any point and starts anew, possibly under      *)
(* another version.  Its temporary file stays where it is.                 *)
Crash(p) ==
    LET left == IF temp[p] = None THEN 0 ELSE 1 IN
    /\ litter + left <= MaxLitter
    /\ litter' = litter + left
    /\ temp' = [temp EXCEPT ![p] = None]
    /\ \E m \in Magics : magic' = [magic EXCEPT ![p] = m]
    /\ pc' = [pc EXCEPT ![p] = "idle"]
    /\ bucket' = [bucket EXCEPT ![p] = NoBucket]
    /\ Closed(p)
    /\ Ending(p, "none")
    /\ listed' = [listed EXCEPT ![p] = {}]
    /\ UNCHANGED <<source, cached>>

Step(p) ==
    \/ Open(p) \/ ReadMagic(p) \/ ReadChecksum(p) \/ ReadCode(p)
    \/ Compile(p) \/ Create(p) \/ Write(p) \/ Replace(p) \/ Finish(p)
    \/ ClearRemove(p) \/ ClearEnd(p)

Next ==
    \/ Edit
    \/ \E p \in Procs : Load(p) \/ ClearList(p) \/ Crash(p) \/ Step(p)

Spec == Init /\ [][Next]_vars

-----------------------------------------------------------------------------
PCs == {"idle", "open", "read_magic", "read_checksum", "read_code", "compile",
        "create", "write", "replace", "end", "clear"}

(* Every variable holds a value of its kind, and a process has a file open *)
(* just while it reads or writes one.                                      *)
TypeOK ==
    /\ source \in Sources
    /\ magic \in [Procs -> Magics]
    /\ cached \in File \cup {None}
    /\ temp \in [Procs -> File \cup {None}]
    /\ litter \in 0..MaxLitter
    /\ pc \in [Procs -> PCs]
    /\ bucket \in [Procs -> [checksum : Sources \cup {None},
                             code : Codes \cup {None}]]
    /\ fd \in [Procs -> File \cup {None}]
    /\ outcome \in [Procs -> {"none", "ok", "OSError", "EOFError"}]
    /\ listed \in [Procs -> SUBSET (Procs \cup {CacheName})]
    /\ \A p \in Procs :
          fd[p] # None <=>
              pc[p] \in {"read_magic", "read_checksum", "read_code", "write"}

(* The steps between the opening of a file and its closing, and those at   *)
(* which a load has the code it has compiled.                              *)
Reading  == {"read_magic", "read_checksum", "read_code"}
Dumping  == {"create", "write", "replace"}
Compiled(p) == [src |-> bucket[p].checksum, magic |-> magic[p]]

(* No reader ever has a file open that is not written to its end, and so   *)
(* none meets the EOFError that pickle.load would let out of the load,     *)
(* however writers, clear() and crashes interleave with it (bccache.py:276,*)
(* "avoids another process reading the file before it is fully written").  *)
NoTornRead ==
    \A p \in Procs :
        /\ outcome[p] # "EOFError"
        /\ pc[p] \in Reading => fd[p].parts = 3

(* The code a load ends with is compiled from the source this load has     *)
(* read, under the version it runs: never another process's older or newer *)
(* source, never bytecode of another Python.                               *)
OwnCode ==
    \A p \in Procs :
        outcome[p] = "ok" => bucket[p].code = Compiled(p)

(* A temporary file is there only while its writer is at work: whichever   *)
(* step of the dump fails, the load does not leave one behind, unless it   *)
(* is killed or the removal itself is refused.                             *)
NoTempLeft ==
    \A p \in Procs : temp[p] # None => pc[p] \in {"write", "replace"}

(* The code in a file was compiled from the source whose checksum, and     *)
(* under the version whose magic, stand before it.                         *)
Sound(f) == f.code = [src |-> f.checksum, magic |-> f.magic]

(* What a process at each of its steps has in its bucket, its open file    *)
(* and its temporary file.                                                 *)
ProcInv(p) ==
    /\ pc[p] \notin {"idle", "clear", "end"} => bucket[p].checksum \in Sources
    /\ pc[p] \in Reading => Sound(fd[p]) /\ fd[p].parts = 3
    /\ pc[p] \in {"read_checksum", "read_code"} => fd[p].magic = magic[p]
    /\ pc[p] = "read_code" => fd[p].checksum = bucket[p].checksum
    /\ pc[p] \in Dumping => bucket[p].code = Compiled(p)
    /\ pc[p] = "write" => Sound(fd[p]) /\ fd[p].parts < 3
    /\ temp[p] # None =>
          /\ pc[p] \in {"write", "replace"}
          /\ Sound(temp[p])
          /\ temp[p].parts = IF pc[p] = "write" THEN fd[p].parts ELSE 3
    /\ outcome[p] # "none" => pc[p] = "end"
    /\ outcome[p] = "ok" => bucket[p].code = Compiled(p)
    /\ outcome[p] # "EOFError"

(* The inductive invariant: the cache file is whole and sound, and every   *)
(* process is as far as its pc says.                                       *)
IndInv ==
    /\ TypeOK
    /\ cached # None => Sound(cached) /\ cached.parts = 3
    /\ \A p \in Procs : ProcInv(p)
=============================================================================
