--------------------------- MODULE TemplateLoading ---------------------------
(***************************************************************************)
(* Environment.get_template as several threads run it on one environment   *)
(* while the template sources change under them: the lookup in the shared  *)
(* template cache, the is_up_to_date check of the cached template, the     *)
(* loader's get_source, the compilation, the store, and the dictionaries   *)
(* of globals that templates keep.                                         *)
(*                                                                         *)
(* The cache is the one RecencyCache specifies: a lookup or a store is one *)
(* step on its entries, as ImplementsRecencyCache says of LRUCache.        *)
(* Otherwise there is one action per access to the cache, to the source or *)
(* to a dictionary that another thread may use; statements that touch none *)
(* of these are taken with one that does.                                  *)
(***************************************************************************)
EXTENDS RecencyEntries, FiniteSets

CONSTANTS
    Names,        \* template names
    Contents,     \* what a source can say
    Broken,       \* the contents that do not compile
    Threads,      \* the threads that share the environment
    KindOf,       \* KindOf[n]: the kind of loader that finds n
    Places,       \* directories of the search path, loaders of a ChoiceLoader
    CacheSize,    \* Environment(cache_size)
    AutoReload,   \* Environment(auto_reload)
    CallerDicts,  \* the dictionaries callers pass as globals
    InitialValue, \* what the one variable they hold is bound to at first
    None,
    MaxChanges    \* bound: how often the sources change

Kinds == {"dict", "file", "function"}

ASSUME BoundsAssumption == Places \in Nat \ {0} /\ MaxChanges \in Nat
ASSUME FiniteAssumption == IsFiniteSet(Names) /\ IsFiniteSet(Threads)
ASSUME KindsAssumption == KindOf \in [Names -> Kinds] /\ Broken \subseteq Contents
ASSUME GlobalsAssumption ==
    DOMAIN InitialValue = CallerDicts /\ \A d \in CallerDicts : InitialValue[d] # None

VARIABLES
    source,   \* source[n][p]: what place p holds for n, and its mtime
    changes,  \* how often the sources have changed, the clock of the mtimes
    written,  \* history: every version of a file there has been
    cache,    \* Environment.cache: entries [key, val], see RecencyEntries
    dicts,    \* dicts[d]: the value of the variable in the dictionary d
    pc,       \* pc[t]: the step t takes next
    call,     \* call[t]: the name and the globals t has passed
    tmpl,     \* tmpl[t]: the template t has got, or as much of it as is read
    outcome,  \* outcome[t]: how get_template ends
    seen,     \* history: what each place held at some time during t's call
    offers    \* history: the values passed by calls that overlap t's

world  == <<source, changes, written>>
shared == <<cache, dicts>>
ghosts == <<seen, offers>>
vars   == <<world, shared, pc, call, tmpl, outcome, ghosts>>

Values == {InitialValue[d] : d \in CallerDicts}

(* The {} of make_globals(None), numbered; there is one for every template *)
(* that can be in use at a time.                                           *)
FreshDicts == 1..(Cardinality(Names) + Cardinality(Threads))
Dicts      == CallerDicts \cup FreshDicts

Version   == [src : Contents \cup {None}, mtime : 0..MaxChanges]
NoVersion == [src |-> None, mtime |-> 0]

(* A template: its code, the dictionary at the front of its globals, and   *)
(* what its uptodate function remembers: where its source was found, what  *)
(* it said and the mtime of the file.                                      *)
Template   == [name : Names, src : Contents, place : 1..Places,
               mtime : 0..MaxChanges, dict : Dicts]
PartlyRead == [name : Names, src : Contents \cup {None}, place : 1..Places,
               mtime : 0..MaxChanges, dict : Dicts \cup {None}]
Unread(n)  == [name |-> n, src |-> None, place |-> 1, mtime |-> 0, dict |-> None]
NoCall     == [name |-> None, dict |-> None]

ASSUME NoneAssumption ==
    None \notin Names \cup Contents \cup Dicts \cup PartlyRead
ASSUME DictsAssumption == CallerDicts \cap FreshDicts = {}

Running(t) == pc[t] # "idle"
Exists(n, p) == source[n][p].src # None

-----------------------------------------------------------------------------
Init ==
    /\ source \in [Names -> [1..Places ->
                     {[src |-> c, mtime |-> 0] : c \in Contents \cup {None}}]]
    /\ changes = 0
    /\ written = {<<n, p, source[n][p]>> :
                    n \in {m \in Names : KindOf[m] = "file"}, p \in 1..Places}
    /\ cache = <<>>
    /\ dicts = [d \in Dicts |->
                  IF d \in CallerDicts THEN InitialValue[d] ELSE None]
    /\ pc = [t \in Threads |-> "idle"]
    /\ call = [t \in Threads |-> NoCall]
    /\ tmpl = [t \in Threads |-> None]
    /\ outcome = [t \in Threads |-> "none"]
    /\ seen = [t \in Threads |-> {}]
    /\ offers = [t \in Threads |-> {}]

Goto(t, from, to) == pc[t] = from /\ pc' = [pc EXCEPT ![t] = to]
Holding(t, tm)    == tmpl' = [tmpl EXCEPT ![t] = tm]
Ending(t, how)    == outcome' = [outcome EXCEPT ![t] = how]

(* Someone writes, rewrites or removes a source.  Every change of a file   *)
(* gives it an mtime no file has had before.                               *)
Change(n, p, c) ==
    LET file == KindOf[n] = "file"
        v    == [src |-> c, mtime |-> IF file THEN changes + 1 ELSE 0]
    IN
    /\ changes < MaxChanges
    /\ c # source[n][p].src
    /\ changes' = changes + 1
    /\ source' = [source EXCEPT ![n][p] = v]
    /\ written' = IF file THEN written \cup {<<n, p, v>>} ELSE written
    /\ seen' = [t \in Threads |->
                  IF call[t].name = n THEN seen[t] \cup {<<p, c>>} ELSE seen[t]]
    /\ UNCHANGED <<shared, pc, call, tmpl, outcome, offers>>

(* What the calls that run offer, when t starts to pass d. *)
Offered(t, d) ==
    LET passed  == IF d = None THEN {} ELSE {dicts[d]}
        others  == {call[u].dict : u \in {w \in Threads : Running(w)}} \ {None}
    IN [u \in Threads |->
          IF u = t THEN passed \cup {dicts[e] : e \in others}
          ELSE IF Running(u) THEN offers[u] \cup passed ELSE {}]

(* get_template(name, globals=d) up to _load_template's                    *)
(* self.cache.get(cache_key); without auto_reload a cached template is     *)
(* taken as it is.  A cache_size of 0 means no cache, a negative one a     *)
(* dict, which has no order and no limit.                                  *)
Call(t, n, d) ==
    LET hit == CacheSize # 0 /\ n \in Held(cache) IN
    /\ Goto(t, "idle",
            IF ~hit THEN "find" ELSE IF AutoReload THEN "check" ELSE "update")
    /\ call' = [call EXCEPT ![t] = [name |-> n, dict |-> d]]
    /\ Holding(t, IF hit THEN ValueOf(cache, n) ELSE Unread(n))
    /\ cache' = IF hit /\ CacheSize > 0 THEN Touched(cache, n) ELSE cache
    /\ seen' = [seen EXCEPT ![t] =
                  {<<p, source[n][p].src>> : p \in 1..Places}]
    /\ offers' = Offered(t, d)
    /\ UNCHANGED <<world, dicts, outcome>>

(* Mutant: a mapping is never looked at again.                             *)
UpToDateUnchecked(tm) ==
    LET v == source[tm.name][tm.place] IN
    KindOf[tm.name] = "file" => v.src # None /\ v.mtime = tm.mtime

(* template.is_up_to_date: the loader's uptodate function.  A mapping is   *)
(* compared by content, a file by its mtime (a file that has gone raises   *)
(* OSError and is not up to date); a FunctionLoader whose function returns *)
(* a string has no uptodate function.                                      *)
UpToDate(tm) ==
    LET v == source[tm.name][tm.place] IN
    /\ KindOf[tm.name] = "dict" => v.src = tm.src
    /\ KindOf[tm.name] = "file" => v.src # None /\ v.mtime = tm.mtime

Check(t) ==
    LET ok == UpToDate(tmpl[t]) IN
    /\ Goto(t, "check", IF ok THEN "update" ELSE "find")
    /\ Holding(t, IF ok THEN tmpl[t] ELSE Unread(call[t].name))
    /\ UNCHANGED <<world, shared, call, outcome, ghosts>>

(* Mutant: the globals passed for a cached template are ignored.           *)
UpdateIgnored(t) ==
    /\ Goto(t, "update", "return")
    /\ Ending(t, "ok")
    /\ UNCHANGED <<world, shared, call, tmpl, ghosts>>

(* if globals: template.globals.update(globals), which writes to the first *)
(* dictionary of the ChainMap, whoever made it                             *)
Update(t) ==
    LET d == call[t].dict IN
    /\ Goto(t, "update", "return")
    /\ dicts' = IF d = None THEN dicts
                ELSE [dicts EXCEPT ![tmpl[t].dict] = dicts[d]]
    /\ Ending(t, "ok")
    /\ UNCHANGED <<world, cache, call, tmpl, ghosts>>

(* Mutant: the search ends at the first place.                             *)
FindFirstOnly(t) ==
    LET n == tmpl[t].name
        here  == Exists(n, 1)
        given == KindOf[n] = "function"
    IN
    /\ Goto(t, "find", IF ~here THEN "return" ELSE IF given THEN "build" ELSE "read")
    /\ Holding(t, [tmpl[t] EXCEPT
                     !.src = IF given THEN source[n][1].src ELSE None])
    /\ Ending(t, IF here THEN "none" ELSE "TemplateNotFound")
    /\ UNCHANGED <<world, shared, call, ghosts>>

(* get_source: does this place have the template?  FileSystemLoader looks  *)
(* with os.path.isfile through its search path, a ChoiceLoader through its *)
(* loaders, and DictLoader with `in`.  A load function answers at once.    *)
Find(t) ==
    LET n == tmpl[t].name
        p == tmpl[t].place
        here == Exists(n, p)
        given == KindOf[n] = "function"
    IN
    /\ Goto(t, "find",
            IF here THEN IF given THEN "build" ELSE "read"
            ELSE IF p < Places THEN "find" ELSE "return")
    /\ Holding(t, [tmpl[t] EXCEPT
                     !.place = IF here \/ p = Places THEN p ELSE p + 1,
                     !.src   = IF given THEN source[n][p].src ELSE None])
    /\ Ending(t, IF here \/ p < Places THEN "none" ELSE "TemplateNotFound")
    /\ UNCHANGED <<world, shared, call, ghosts>>

(* get_source: self.mapping[template], or open() and read(), of a source   *)
(* that may have gone since: KeyError or FileNotFoundError, which no one   *)
(* turns into TemplateNotFound                                             *)
Read(t) ==
    LET n == tmpl[t].name
        v == source[n][tmpl[t].place]
    IN
    /\ Goto(t, "read", IF v.src = None THEN "return"
                       ELSE IF KindOf[n] = "file" THEN "getmtime" ELSE "build")
    /\ Holding(t, [tmpl[t] EXCEPT !.src = v.src])
    /\ Ending(t, IF v.src = None THEN "vanished" ELSE "none")
    /\ UNCHANGED <<world, shared, call, ghosts>>

(* FileSystemLoader.get_source: os.path.getmtime(filename), after the read *)
GetMtime(t) ==
    LET v == source[tmpl[t].name][tmpl[t].place] IN
    /\ Goto(t, "getmtime", IF v.src = None THEN "return" ELSE "build")
    /\ Holding(t, [tmpl[t] EXCEPT !.mtime = v.mtime])
    /\ Ending(t, IF v.src = None THEN "vanished" ELSE "none")
    /\ UNCHANGED <<world, shared, call, ghosts>>

(* The dictionaries of the templates in the cache or in these threads'     *)
(* hands, and one that is in nobody's: what {} evaluates to.               *)
InUse(ts) ==
    {e.val.dict : e \in ToSet(cache)}
        \cup {tmpl[t].dict : t \in {u \in ts : tmpl[u] # None}}
NewDict == Min(FreshDicts \ InUse(Threads))

(* Mutant: what is stored has not been given its globals.                  *)
BuildAndStoreBare(t) ==
    LET bad == tmpl[t].src \in Broken IN
    /\ Goto(t, "build", "return")
    /\ Ending(t, IF bad THEN "TemplateSyntaxError" ELSE "ok")
    /\ cache' = IF bad \/ CacheSize = 0 THEN cache
                ELSE Stored(cache, call[t].name, tmpl[t], CacheSize)
    /\ UNCHANGED <<world, dicts, call, tmpl, ghosts>>

(* environment.compile, Template.from_code with the globals of             *)
(* make_globals: ChainMap(d, self.globals), d the caller's own dictionary  *)
(* or a new one, and self.cache[cache_key] = template                      *)
BuildAndStore(t) ==
    LET d     == IF call[t].dict = None THEN NewDict ELSE call[t].dict
        built == [tmpl[t] EXCEPT !.dict = d]
    IN
    /\ Goto(t, "build", "return")
    /\ IF tmpl[t].src \in Broken
       THEN /\ Ending(t, "TemplateSyntaxError")
            /\ UNCHANGED <<tmpl, shared>>
       ELSE /\ Ending(t, "ok")
            /\ Holding(t, built)
            /\ dicts' = IF d \in FreshDicts THEN [dicts EXCEPT ![d] = None]
                        ELSE dicts
            /\ cache' = IF CacheSize = 0 THEN cache
                        ELSE Stored(cache, call[t].name, built, CacheSize)
    /\ UNCHANGED <<world, call, ghosts>>

(* get_template returns or raises; the caller is done with the template.   *)
(* A dictionary nothing refers to any more is gone.                        *)
Return(t) ==
    /\ Goto(t, "return", "idle")
    /\ call' = [call EXCEPT ![t] = NoCall]
    /\ Holding(t, None)
    /\ Ending(t, "none")
    /\ dicts' = [d \in Dicts |-> IF d \in CallerDicts \cup InUse(Threads \ {t})
                                THEN dicts[d] ELSE None]
    /\ seen' = [seen EXCEPT ![t] = {}]
    /\ offers' = [offers EXCEPT ![t] = {}]
    /\ UNCHANGED <<world, cache>>

Step(t) ==
    \/ Check(t) \/ Update(t) \/ Find(t) \/ Read(t) \/ GetMtime(t)
    \/ BuildAndStore(t) \/ Return(t)

Next ==
    \/ \E n \in Names, p \in 1..Places, c \in Contents \cup {None} :
           Change(n, p, c)
    \/ \E t \in Threads :
           \/ \E n \in Names, d \in CallerDicts \cup {None} : Call(t, n, d)
           \/ Step(t)

Spec == Init /\ [][Next]_vars

-----------------------------------------------------------------------------
PCs == {"idle", "check", "update", "find", "read", "getmtime", "build", "return"}
Endings == {"none", "ok", "TemplateNotFound", "TemplateSyntaxError", "vanished"}

(* Every variable holds a value of its kind.                               *)
TypeOK ==
    /\ source \in [Names -> [1..Places -> Version]]
    /\ changes \in 0..MaxChanges
    /\ written \subseteq Names \X (1..Places) \X Version
    /\ cache \in Seq([key : Names, val : Template])
    /\ dicts \in [Dicts -> Values \cup {None}]
    /\ pc \in [Threads -> PCs]
    /\ call \in [Threads -> [name : Names \cup {None},
                            dict : CallerDicts \cup {None}]]
    /\ tmpl \in [Threads -> PartlyRead \cup {None}]
    /\ outcome \in [Threads -> Endings]
    /\ seen \in [Threads -> SUBSET ((1..Places) \X (Contents \cup {None}))]
    /\ offers \in [Threads -> SUBSET Values]

(* The content of a torn template and the mtime it remembers are not those *)
(* of one version of the file: the file changed between the read and the   *)
(* getmtime of FileSystemLoader.get_source.                                *)
Torn(tm) ==
    /\ KindOf[tm.name] = "file"
    /\ <<tm.name, tm.place, [src |-> tm.src, mtime |-> tm.mtime]>> \notin written

Reloading(t) ==
    AutoReload /\ outcome[t] = "ok" /\ KindOf[call[t].name] # "function"

(* With auto_reload get_template returns what the place it found the       *)
(* template in held at some time during the call, however the cache, other *)
(* threads and the writers of the source interleave: no template, of the   *)
(* cache or of a slow loader, outlives its source.  A torn template is the *)
(* one exception.                                                          *)
Fresh ==
    \A t \in Threads :
        Reloading(t) /\ ~Torn(tmpl[t])
            => <<tmpl[t].place, tmpl[t].src>> \in seen[t]

(* "Every time a template is requested the loader checks if the source     *)
(* changed and if yes, it will reload the template" (environment.py:250):  *)
(* Fresh, without the exception.                                           *)
ReloadsWhenChanged ==
    \A t \in Threads :
        Reloading(t) => <<tmpl[t].place, tmpl[t].src>> \in seen[t]

(* A get_template that raises had cause to during the call: each place     *)
(* lacked the template at some time, a content did not compile, or a       *)
(* source was there and went.  What the cache still holds, or another      *)
(* thread's failure, is no cause.                                          *)
FailuresJustified ==
    \A t \in Threads :
        /\ outcome[t] = "TemplateNotFound" =>
              \A p \in 1..Places : <<p, None>> \in seen[t]
        /\ outcome[t] = "TemplateSyntaxError" =>
              \E p \in 1..Places, c \in Broken : <<p, c>> \in seen[t]
        /\ outcome[t] = "vanished" =>
              \E p \in 1..Places, c \in Contents :
                  {<<p, c>>, <<p, None>>} \subseteq seen[t]

(* The template a call with globals returns has the variable, and the      *)
(* value is one that a call passed no earlier than its own (or than a call *)
(* that was running when it began): a cached template never keeps the      *)
(* globals of a finished call against those of the present one             *)
(* (environment.py, get_template, "versionchanged:: 3.0").                 *)
GlobalsDelivered ==
    \A t \in Threads :
        outcome[t] = "ok" /\ call[t].dict # None
            => dicts[tmpl[t].dict] \in offers[t]

(* A call's globals only affect the template it returns                    *)
(* (environment.py:1116, "any changes to a template's globals to only      *)
(* affect that template").                                                 *)
GlobalsStayApart ==
    [][\A t \in Threads : Update(t) =>
          \A e \in ToSet(cache) :
              e.key # call[t].name => dicts'[e.val.dict] = dicts[e.val.dict]]_vars
=============================================================================
