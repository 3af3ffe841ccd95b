# Jinja: a TLA+ model of its core

Jinja compiles templates to Python and runs them. Two things are hard to get
right here, and hard to test. One is the state that outlives a call or is
shared: the template cache and the reloading of templates, the bytecode cache
that processes share, the loop context that looks ahead of the loop it
describes, the block lists of inheritance, the default module that tasks share.
The other is translation whose pieces only work together: delimiters and
whitespace, precedence and end tags, expressions folded at compile time, and the
scopes of a template kept apart in the local variables of one Python function.
This directory models these parts from the source (paths below are under
`src/src/jinja2/`), checks them with TLC on small instances, and proves with
TLAPS, for all instances, what matters most of the shared state, of inheritance
and of the lexer.

`PROJECT.json` lists components, runs, mutants, the source lines behind every
definition, hazards and theorems.

## 1. Inventory

| Component | State it keeps | Operations | Hard behaviour | What makes it correct |
|---|---|---|---|---|
| **LRUCache** (`utils.py`) | `_mapping`, `_queue`, `_wlock` | get, set, del, setdefault, clear, items, copy | threads; readers that take no lock; two structures kept in step over many calls | the queue holds the keys of the mapping, each once; capacity; an atomic recency order; the lock is given back |
| **Template loading** (`environment.py`, `loaders.py`) | `Environment.cache`, the globals `ChainMap`s, sources on disk or in dicts | get_template, is_up_to_date, get_source, make_globals | threads share templates; the check and the use of a cached template are separate; sources change between isfile, open, read and getmtime | no outdated template; failures have a cause; each caller finds its globals |
| **Bytecode cache** (`bccache.py`, `BaseLoader.load`) | a cache file per template, temporary files, one bucket per load | load, dump, clear | processes of several versions; kills; write errors; a racing clear() | no reader sees a partial file; a load ends with its own code; no litter |
| **Loop runtime** (`runtime.py` LoopContext, `compiler.py` visit_For) | the iterator, `_after`, `_current`, `_before`, `_length`, `index0`, the iteration indicator | `__next__`, length, last, nextitem, changed, break, continue, else | generators can be drawn once, but the template may ask for the length or the next item at any time | no item lost or repeated; answers depend only on the sequence and the position |
| **Inheritance, blocks, includes** (`runtime.py`, `compiler.py`) | `context.blocks`, `parent_template`, buffers | extends, block, super, include, import | dynamic and conditional extends; super over several levels; buffered frames | the most derived block wins; super goes one level up; all output lands in its frame's buffer |
| **Context** (`runtime.py`) | `vars`, `parent`, `exported_vars` | resolve, derived, get_exported | derived contexts share `eval_ctx` but not `vars` | a name resolves to its innermost binding |
| **Scoping** (`idtracking.py`, `compiler.py` frames) | `Symbols`, frames, the assign stack | analyze, store, load, branch_update | branches that store some of the names; loops; macros | generated names implement the documented scopes |
| **Expressions and evaluation contexts** (`nodes.py`, `optimizer.py`, `compiler.py`) | `autoescape`, `volatile`, of the compiler and of the run | as_const, the expression visitors, modify, save, revert | what is folded is computed under the compiler's context, the rest under the run's; leaving a block by break or continue | folding cannot be seen; the outer setting is restored |
| **Macros** (`runtime.py`, `compiler.py`) | none beyond a call | macro_body, signature, `Macro.__call__` | defaults, varargs, kwargs, caller together, in a call whose names may be Python keywords | each parameter is bound as declared, errors as documented |
| **Imports and async** (`environment.py`, `compiler.py`, `async_utils.py`) | `Template._module`, `exported_vars` | `_get_default_module`, make_module, import, from | two tasks building one module; globals the module has not | what a task outputs does not depend on the others |
| **Lexer** (`lexer.py`) | state stack, balancing stack, line number | tokeniter, wrap | strips that look left and right; raw blocks; line statements | lines stay true; only blanks are lost; whitespace control as documented |
| **Parser** (`parser.py`) | tag stack, end-token stack, position | parse, subparse, the expression rules | precedence, look-ahead, nesting, error messages from the stacks | reading is the inverse of writing; the innermost open tag is named |
| **Filters** (`filters.py`, `async_utils.py`) | none; `sum` may change its start | the filters on sequences, twice each | laziness; the asynchronous twin of a filter; what cannot be ordered | the documented contract; both twins agree |
| Filters on strings and numbers, tests, undefined types, sandbox, native types, i18n, debug, meta | none that outlives a call | – | – | not modelled: see section 7 |

How they interact: a thread in `Environment.get_template` calls
`LRUCache.get` and `__setitem__`, the loader's `get_source`, and through
`BaseLoader.load` the bytecode cache; the template it gets is rendered by
generated code that drives `Context`, `LoopContext`, `Macro` and
`BlockReference`, and calls `get_template` again for extends, include and
import. The caches are the only state threads and processes share; a render
shares nothing but templates and their default modules. `Environment.compile`
is the pipeline lexer, parser, `idtracking`, `CodeGenerator`; its parts meet in
a token stream, a tree of nodes and the text of a Python function, and each
model starts from what the part before it can deliver.

## 2. Modules

| Module | Models | Composes |
|---|---|---|
| `RecencyEntries` | sequences of entries in order of use (operators) | – |
| `RecencyCache` | abstract: an atomic LRU cache | RecencyEntries |
| `LRUCache`, `LRUCacheProofs` | `utils.LRUCache`, a statement per action, with the refinement mapping to RecencyCache; theorems, with the refinement | RecencyCache |
| `TemplateLoading`, `TemplateLoadingProofs` | `get_template` under threads and changing sources; theorems | RecencyEntries |
| `BytecodeCache`, `BytecodeCacheProofs` | loads, dumps, clear and crashes on shared files; theorems | – |
| `Loop` | abstract: what a for loop and its `loop` variable promise | – |
| `LoopContext` | the generated loop with its (Async)LoopContext, and the refinement mapping to `Loop` | Loop |
| `Inheritance`, `InheritanceProofs` | root and block functions, Context, extends, blocks, super, includes; theorems | – |
| `InheritanceReference` | what a render is to give, by the chain of its templates (recursive operators, TLC only) | Inheritance |
| `Lexer` | `tokeniter` and `wrap`, one action per rule | – |
| `WhitespaceControl` | what the documentation promises of the text around tags | Lexer |
| `LexerProofs` | theorems about the two | WhitespaceControl |
| `ParserExpressions`, `Parser` | the expression rules as operators; statements and `subparse` as a machine on the tag stack | the second extends the first |
| `TemplateGrammar` | how a tree is written, and that reading gives it back | Parser |
| `Expressions` | values, `as_const`, the optimizer, what the generated expressions compute (recursive operators, TLC only) | – |
| `EvalContexts`, `EvalContextProofs` | compiling and running a template under the two evaluation contexts, whatever its expressions; theorems | – |
| `AutoescapeBlocks` | what an output in autoescape blocks is to be | Expressions, EvalContexts |
| `CompilerFrames` | `Symbols`, its visitors, and the code the frames write, as operators | – |
| `Scoping` | that code, run a Python statement at a time | CompilerFrames |
| `LexicalScopes` | what a template means by its documented scopes | Scoping |
| `SequenceFilters` | chains of the filters on sequences, synchronous and asynchronous side by side | – |
| `FilterContracts` | what each filter promises, without the loop that computes it | SequenceFilters |
| `IterationProofs` | theorems about `LoopContext`, with the refinement of `Loop` | LoopContext |
| `MacroBinding` | macro definition, call signature and argument binding, as operators | – |
| `ImportStatements` | the statements of templates that import one template, and what their names stand for | – |
| `ImportsAlone` | abstract: each task told alone, every import rendering the template anew | ImportStatements |
| `Imports` | tasks that import one template, its default module, and calls of its macro | ImportStatements, MacroBinding |
| `ImportMeaning` | the refinement mapping from Imports to ImportsAlone; what a call binds, told from the declaration | both |
| `ImportsProofs` | theorems, with the refinement | ImportMeaning |
| `MC*` | the instances for TLC | one per family |

The modules that say what something *means* (`InheritanceReference`,
`WhitespaceControl`, `TemplateGrammar`, `AutoescapeBlocks`, `LexicalScopes`,
`FilterContracts`, `ImportMeaning`, and `Loop`, `RecencyCache` and `ImportsAlone` among the machines) use none of
the mechanism of the module they judge.

### LRUCache

One action per statement that touches `_mapping`, `_queue` or `_wlock`; a
test of state that only the lock's holder can change goes with the statement
before it. `pc[t]` is the statement, `call[t]` the method and its arguments,
`result[t]` the value or the exception. The exceptions the statements could
raise (`IndexError` of `_queue[-1]`, `ValueError` of `_remove`, `IndexError` of
`_popleft`, `KeyError` of the evicting `del`) are modelled where the code does
not catch them, so that their absence is a property (`NoInternalError`).
`items` and `copy` take no lock, as in the code. `RecencyCache` is what users
rely on: a single sequence of entries on which each method acts at one instant.
The mapping at the end of `LRUCache` says what the lock's holder, at its
statement, will have made of the structures. `get` is `__getitem__` with its
KeyError caught; `values` is `items`; `keys`, `__iter__` and `__reversed__` copy
the queue at once.

### TemplateLoading

One action per access to the cache, to a source, or to a dictionary of
globals: `Call` (`make cache key`, `cache.get`), `Check` (`is_up_to_date`),
`Update` (`template.globals.update`), `Find`/`Read`/`GetMtime` (`get_source`),
`BuildAndStore` (`compile`, `from_code`, `cache[key] = template`), `Return`.
`Change` is whoever edits the sources. A cache lookup or store is one step,
which is what the refinement of `RecencyCache` justifies. `KindOf` selects the
kind of source: a `DictLoader` compares contents, a `FileSystemLoader` mtimes, a
`FunctionLoader` that returns a string never reloads. `Places` are the
directories of a search path or the loaders of a `ChoiceLoader`. `dicts` holds
the dictionaries at the front of the templates' `ChainMap`s, so that two
templates can share one, as they do in the code. `seen`, `offers` and `written`
are history variables for the properties.

Assumption: every change of a file gives it a new mtime. Two changes within the
resolution of the clock are not noticed by any loader that compares mtimes.

### BytecodeCache

One template, one cache file, and one action per system call; a file has three
parts (magic, checksum, code) that are written one at a time. Every call that
can fail may fail, `clear()` works on a listing of any age, and a process can be
killed at any point and come back under another version. `os.replace` is
atomic. `MatchesTemp = TRUE` lets clear() remove temporary files as well, as it
does with a pattern such as `%s`; since a removal may always fail, this
includes the behaviours of the default pattern, which does not match them.

### LoopContext

`iterator` is what the Python iterator has yet to yield; `sized` tells whether
the iterable has a length. `Advance` is `__next__`, `EndBody`, `Continue` and
`Break` are the three ways out of a body, and the `Ask*` actions are the
attributes of `loop`, which the template may ask in any order, any number of
times, in the body and (through a namespace) behind the loop. A loop with a
filter iterates over a generator of the items that pass. The iterables of the
model do not change under the loop. `Loop` runs the else part if no iteration
took place, as the documentation says; the code resets its `indicator` at the end
of a body only. `LeftByJumps` names the states in which the two differ, with the
help of the history variable `completed` (a body has run to its end), and the
mapping takes an else part that is run in such a state for the end of the loop.

### Inheritance

A template is a sequence of statements for its root and one per block; `stack`
holds the root and block functions that run, `contexts` the `Context` of the
render and of each include under way, `out` the events, or the exception that
replaces them, since `render()` then returns nothing. `KnownExtends` and `SomeExtends`
are the compiler's `has_known_extends` and `extends_so_far`; `extended` is the
generated local `parent_template`; which statements an extends leaves out is
decided from both, as in `visit_Output`, `visit_Block` and `visit_Extends`.
There is one variable, whose value is the template that set it. A `wrapped` statement is alone in
a filter section; `sections` of an activation or an item is the number of the
sections whose buffers its events go through, which the code decides anew
at every call. The default module of
an include without context is rendered afresh each time: it has no context, so
the cached one would be the same.

`InheritanceReference` says what a render is to give without a stack, a context
or a list of blocks: every root of the chain of templates in turn, every block
looked up among the templates of the chain that define it, and every part
filtered by the sections it stands in (`due`). A required block is an error where it would be
rendered. `PastSection` and `Unnoticed` name the two places where the code does
something else: `past` counts the sections an event may miss, `departs` marks a
render that the documentation forbids and the code does.

### Lexer and WhitespaceControl

A source is a sequence of characters, `"nl"` a newline and `"x"` a letter. The
variables are those of `tokeniter`: `pos`, `lineno`, `stack`,
`balancing_stack`, `line_starting`; `tokens` is what it has yielded. An action
is a rule of the state on top of the stack, in the order in which the regular
expressions are tried; `Directive` is the long alternation of `root` with
`OptionalLStrip`. `WhitespaceControl` has templates as text, tag, text and says
by cases of the two tags beside a text what is left of it: `Template` is any
number of texts and tags in turn (a text without the characters a directive
starts with, but for raw blocks), `Layout` its source, `TemplateSpec` the lexer
on it.

### ParserExpressions, Parser and TemplateGrammar

`Parse(rule, p)` is the method `parse_<rule>` on the tokens from `p`: the place
behind what it read and the nodes, or an error. Statements nest without bound, so
`Parser` keeps the calls of `parse_statement` and `subparse` that have not
returned in `frames`; `_tag_stack` and `_end_token_stack` are read off them. The
message of an unexpected tag is modelled by what it is made of: the tags looked
for, and the innermost statement. `TemplateGrammar` writes a tree with the
parentheses that its precedences need and no others.

### Expressions and EvalContexts

A value has a type and a text of a few characters, one of which `escape`
replaces. `as_const` gives a value or `Impossible`; the visitors of the compiler
are modelled by the value their Python code computes under the run's context.
`EvalContexts` compiles a template node by node (`eval_ctx` and `saved_ctx`
change as in `visit_ScopedEvalContextModifier`) and then runs it (`now`,
`old_ctx`), through loops over no to `Iterations` items that break and continue.
A template is a sequence of instructions in which those of a node stand around
its body and `match` each other, as `TemplatesAssumption` says. What an option or
an output is worth is left to operators among its constants, of which it assumes
that an option, folded or computed, is a truth value (`OptionsAssumption`); the
run takes those of `Expressions` for them, and TLC evaluates both assumptions.

### CompilerFrames, Scoping and LexicalScopes

`CompilerFrames` is `idtracking.py` and the frame handling of `compiler.py` as
operators from a template to Python statements: which variable is resolved,
aliased or missing at the entry of a frame, and what an assignment also puts
into `context.vars`, `context.exported_vars`, `_loop_vars` and `_block_vars`.
`Scoping` runs these statements with `locals`, one dictionary of variables per
context, and a stack of output buffers. The names of the Python variables are
level and name, as in the code, so that two scopes can meet in one. `LexicalScopes`
evaluates the same template over a stack of scopes. Every template is about one
name, `x`, since a name is only ever confused with itself.

### SequenceFilters and FilterContracts

An item is a mapping with an identity and a key, which may be missing or differ
in case only. One step (`ChainNext`) applies one filter, to the value of each mode.
Where `filters.py` has a filter twice, so has the module, under the two names
(`sync_do_sum` and `do_sum`), each written from its own function; `NormalFunc`
is the first of them, `AsyncVariant` the one `async_variant` puts in its place
where the environment supports async. A value's `form` says what Python can do with it: index it, iterate it,
iterate it once, or only await it.

### MacroBinding, Imports and ImportsAlone

One action is a statement of one task's template. `lib` is the template all of
them import: it outputs `x`, exports `y` and a macro `m` that both read `x`, and
keeps `_p` to itself. `vars`, `exported_vars` and `parent` are those of a task's
`Context`; a local name of a template's root function has the value it has in
`vars`. `modules` are the `TemplateModule`s there are, which names refer to by
index. `lib._module` is the only thing tasks share; a task that renders the
default module may be overtaken between its first and its last await
(`waiting`), and then replaces the module another task has put there meanwhile.
Making a module for one importer awaits too, but nobody else sees that module,
so it is one step. A statement that raises ends its program.

In `ImportsAlone` there are no modules and no default module: a name stands for
lib as it was rendered with one value of `x`, and every import renders it
anew. The mapping reads a name through `vars` and `parent` and a module through
`modules`; `RenderDefault` maps to a stutter. What a macro call gives is left
open there (`Called`), and is `Imports`' own: a call goes through `signature`,
`Macro.__call__` and the function `macro_body` generates, each of which is an
operator of `MacroBinding`, while `ImportMeaning` says what it is to bind.

## 3. Runs

| Run | Instance | Shows |
|---|---|---|
| `lru_cache` | 2 threads, 3 keys, 2 values, capacity 2, all methods | type, `QueueMirrorsMapping`, `WithinCapacity`, `ReadersMissAtMostOne`, `NoInternalError`; refinement `ImplementsRecencyCache`; liveness `LockReleased` |
| `template_fresh` | 2 threads, 2 names (a mapping's and a file's), each in one of two places, 2 contents of which one does not compile, cache of 1, `MaxChanges = 2` | `Fresh`, `FailuresJustified` |
| `template_globals` | 2 threads, 2 names (a mapping's and a load function's), 2 globals dictionaries, cache of 1, `MaxChanges = 1` | type, `GlobalsDelivered` |
| `bytecode_cache` | 3 processes, 2 sources, 2 versions, `MaxLitter = 1` | type, `NoTornRead`, `OwnCode`, `NoTempLeft` |
| `loop_context` | every list and generator of up to `MaxLength = 4` items of two values | type, `NothingLost`, refinement `ImplementsLoop` |
| `inheritance` | 7920 programs of five templates, two blocks, synchronous code | type, `ExtendsKnownRight`, `BlocksFollowChain`, `RendersChain` |
| `lexer` | text and up to two tags with every sign and option; sources of up to `MaxPieces = 3` delimiters or other pieces in any order | type, `LinesTrue`, `OnlyBlanksLost`, `DataControlled` |
| `parser` | written trees of expressions of up to two levels and of nested statements; any `MaxTokens = 3` tokens, any `MaxTags = 3` tags | type, `ReadsWhatIsWritten`, `InnermostNamed` |
| `expressions` | expressions of up to two levels in outputs, nested autoescape blocks and nested loops of up to `Iterations = 2` items, with and without the optimizer | type, `FoldingUnseen`, `Reverted` |
| `scoping` | nests of if, for, with, set block, filter section, macro and block around one name | type, `ReadsItsScope`, `ExportsTopLevel` |
| `filters` | chains of up to `MaxChain = 3` filters over every sequence of up to `MaxItems = 3` items | `PromiseKept`, `AsyncAsSync` |
| `imports` | two tasks, one with up to `MaxStatements = 3` statements and every way of importing; every call of every macro with up to `MaxParams = 2` parameters | refinement `ImplementsAlone`; `BindsAsDeclared` |

Why the bounds are enough. `lru_cache`: three keys over a capacity of two make a
store evict and a lookup change which key is evicted, every statement of one method meets every statement of another, and
the theorems lift the invariants to every capacity and any number of threads.
`template_*`: an old template needs one change, two concurrent loads of a name
and one eviction, all of which fit; `MaxChanges` bounds how often `Change` runs,
nothing else. The two MC specifications restrict only the initial sources
(`FirstPlaceSpec`: each name is found in the first place or nowhere at first;
`AllPresentSpec`: every name exists), which `Change` then leaves. `bytecode_cache`: a
reader, a writer and a clear() at a time; `MaxLitter` bounds the temporary
files that killed processes leave, which nobody reads. `loop_context`: a first, a
last and two inner items; the theorems cover any length. `inheritance`: chains of up to three templates and an
included chain of two, so that super, super.super, a missing parent block, an extends
behind another, and an included template that itself extends all occur.

`lexer`: a text has a tag on each side, which is all its whitespace depends on;
three pieces make every delimiter meet every other in every state, and the last
end of the source; the theorems cover any template and any source. `parser`: two levels of expression put each operator on each
side of each other, which is what a precedence decides; three tags are a
statement in a statement and a tag that belongs to neither. `expressions`: an operation on
the result of another, inside a block inside a loop, is the smallest
template where what is folded, what is escaped and what is restored interact; two
iterations show what the first leaves to the second, and none what a loop that is
skipped leaves out; the theorems cover any nesting. `scoping`: an
assignment, a scope around it and a read before, in or behind it. `filters`: three
items hold two that are equal and one that is not, and a chain of three applies a
filter to what a lazy filter gives. `imports`: a second task that does
no more than import is enough to overtake, since all a task can do to
another is to set the one default module; two parameters and one default show
every order of binding. Symmetry is used only
in runs that check invariants, over threads, processes, contents and versions,
which no definition tells apart.

Fairness. Only `LockReleased` needs any: weak fairness of each thread's own
steps (`FairSpec`), that is, the interpreter keeps running a thread that can
run. Nothing forces a thread to call a method, and waiting for the lock is not
fair, as `threading.Lock` promises no order; so "every caller gets the lock" is
not claimed.

Deadlock is checked everywhere but in the runs of `LoopContext`, `Inheritance`,
`Lexer`, `Parser`, `SequenceFilters` and `Imports`, where a loop, a render, a
source, a chain or a program has an end. `expressions` and `scoping` have a step
that stutters at the end of the program and nowhere else, so that a template
stuck in its middle is found.

Where the code is known to differ, a property says exactly where. It then holds
of everything else, and fails if the exception grows:

| Property | Does not speak of |
|---|---|
| `Fresh` | a file that changed between its read and its mtime |
| `ReadersMissAtMostOne` | one entry that a writer is moving |
| `ImplementsLoop` | `LeftByJumps`: the else part behind a loop each of whose bodies was left by break or continue |
| `RendersChain` | `Unnoticed`: a required block that overrides another, or that `self` calls, may be rendered; `PastSection`: what synchronous code includes without context may miss the filter section around the include |
| `PromiseKept` | `FillsEven`: a slice with a fill value whose items come out even |
| `FoldingUnseen` | constants in a block whose autoescape is only known at run time, `~` folded over markup, templates that leave an autoescape block by break or continue |
| `ReadsItsScope`, `ExportsTopLevel` | `early`: an inner scope reads a name before an enclosing scope assigns it; `vague`: a context function is called that should see more than the innermost loop |
| `AsyncAsSync` | filters with no asynchronous twin on an asynchronous iterable; a start value that `sum` has changed |
| `ImplementsAlone` | the KeyError of section 4, and a render variable in the place of a global, which `ImportsAlone` has as well |
| `BindsAsDeclared` | a `caller` parameter in front of others, and keywords given twice one of which is a Python keyword |

## 4. Disagreements met

Places where the code does something else than its documentation says or a
reader expects. For those of the table the claim is a definition of the module
named; no run checks it, and TLC refutes it, with a behaviour that breaks it,
as soon as it is added to the INVARIANTS of the configuration (to its
PROPERTIES for `SetdefaultLeavesUnchanged` and `GlobalsStayApart`):

| Claim refuted | Configuration | What happens |
|---|---|---|
| `LRUCache!SetdefaultLeavesUnchanged` | `lru_cache.cfg` | `setdefault` is not atomic (`utils.py:485-489`): it overwrites a value that another thread stored after its lookup, against its docstring |
| `TemplateLoading!ReloadsWhenChanged` | `template_fresh.cfg` | `get_source` reads before it takes the mtime (`loaders.py:214-217`): a write in between is never noticed |
| `TemplateLoading!GlobalsStayApart` | `template_globals.cfg` | globals are kept by reference (`environment.py:1130`): updating one template's changes every template loaded with the same dictionary, against the docstring of `make_globals` |
| `LoopContext!ElseOnlyWithoutIterations` | `loop_context.cfg` | `break` and `continue` skip the reset of the iteration indicator (`compiler.py:1279-1280`): `else` runs behind a loop that has iterated, against `docs/templates.rst:787` |
| `Inheritance!RequiredNotRendered` | `inheritance.cfg` | a required block that another required block overrides is rendered (`compiler.py:964` only counts definitions), against `docs/templates.rst:557-560` |
| `InheritanceReference!FilterSectionsApply` | `inheritance.cfg` | `include ... without context` in a filter section of synchronous code yields past the section's buffer (`compiler.py:1089`), against `docs/templates.rst:1017` |
| `FilterContracts!SliceFillsMissing` | `filters.cfg` | `slice` with a fill value appends it to every slice when the items come out even (`filters.py:1092`), against its docstring (`filters.py:1074-1075`) |

Three more are refuted the same way, which the lists below are about: `AutoescapeActive` (of `AutoescapeBlocks`; `expressions.cfg`), `FunctionsSeeLoops`
(`scoping.cfg`) and `AlwaysBinds` (`imports.cfg`).

Expressions (`docs/templates.rst:1952-1960` promises autoescape inside the block):

- A constant in an autoescape block whose value is known only at run time is
  escaped, or not, by the setting outside the block.
- `~` folded at compile time joins without escaping (`Concat.as_const`), while
  the generated code escapes what is joined to markup.
- `break` and `continue` in an autoescape block leave the loop without the revert
  (`compiler.py:1992`), so the setting stays for what follows.

Scopes:

- A name that an inner scope reads and an enclosing scope assigns only
  afterwards is undefined in the inner scope, even if the context has it.
- `_loop_vars` is one Python variable per function, so a context function called
  behind a nested loop does not see what the outer loop has set, against
  `docs/templates.rst:1044`.

Parser: a test's argument without parentheses takes the next name, so a word
meant for what follows is read as the argument (`docs/templates.rst:159-166`).

Filters:

- `sum(start=acc)` in asynchronous code adds to `acc` in place when it is a list.
- `|map|sort` and `|select|batch` fail in asynchronous code, whose `map` and `select` give asynchronous
  generators, against `docs/api.rst:521-525`.

Imports and macros:

- A template that was loaded with extra globals, and itself imports another
  without context, fails with a KeyError when it is included, or imported with
  context, by a template that has not these globals (`environment.py:1433`).
- A render variable hides the global of the same name from templates
  imported without context.
- A macro whose `caller` parameter has a default and others behind it rejects a call with
  positional arguments for them (`compiler.py:632-637`).
- A keyword argument given twice is an error, unless one of the keywords of the
  call is a Python keyword: then the later one wins.

`LRUCache.copy` reads its two structures in two steps without the lock, and is
modelled so; nothing in Jinja copies a cache that is in use, and no property
speaks of the copy.

## 5. Proofs

The prover shows, for every value of the constants that meets the named
assumptions:

- `LRUCacheProofs`: `Spec => []I` for the type invariant and the four safety
  invariants of the run. `QueueMirrorsMapping` holds only while the lock is
  free, so the inductive invariant says, for each statement at which the lock
  can be held, how far queue and mapping are apart (`Apart`), that a thread
  between two statements holds the lock (`ControlInv`), and that its call fits
  its statement (`CallFits`). Each statement's step is then one lemma, on top
  of facts about removing and appending keys. Assumed: the
  capacity is positive (`CapacityAssumption`) and `None` is no key, value or
  thread (`NoneAssumption`).
- `BytecodeCacheProofs`: the same for the four invariants of its run. A process
  reads files others have written, so the inductive invariant says of every
  file, under whichever name or open, that its code is that of its checksum and
  magic (`Sound`), that the cache file is whole, and for each process what its
  bucket and its temporary file hold at its step (`ProcInv`). A step of one
  process leaves the others' parts alone (`Bystander`), so each action is one
  lemma about one process. Assumed: `LitterAssumption`, `NoneAssumption`.
- `IterationProofs`: the invariants of `LoopContext`, for sequences of any
  length, and `Implementation`: `Spec => ImplementsLoop`, the refinement itself.
  The inductive invariant (`IndInv`) places the item handed out, the one drawn early and
  the rest of the iterator in the sequence, and says that the indicator follows
  the bodies that have run to their end (`Indicated`), which decides where the else
  part is run and whether `LeftByJumps` is met. Assumed: `Missing` is no item.
- `EvalContextProofs`: the type and `Reverted`, for every template that is well
  nested: of any length, with blocks and loops nested to any depth. The inductive
  invariant speaks of the blocks that are open at an instruction (`Open`). Of the
  compiler it says that the saved contexts are those these blocks were compiled
  under, the outermost first (`SavedInv`), and that outside of all blocks the
  context is the environment's. Of the run (`RunInv`) that outside of all blocks
  autoescape is the environment's, and inside the outermost one its temporary
  variable holds it: what the inner blocks have saved does not matter. A loop
  goes back, or on, to where the same blocks are open; only a jump out of a
  block, or an error that ends the run, does not. Assumed: `TemplatesAssumption`
  and `OptionsAssumption`; the expressions may be anything.
- `LRUCacheProofs` also proves `Refines`: `Spec => ImplementsRecencyCache`. On
  top of the invariant it needs what a thread carries from the statement that
  decides its outcome to its last one (`CarriedInv`). Under both, the entries of
  the abstract cache, which are read off the mapping and the queue by what the
  lock's holder has left to do, change at that one statement as the abstract
  method says, and at no other; one lemma per statement.
- `TemplateLoadingProofs`: the type, `Fresh`, `FailuresJustified` and
  `GlobalsDelivered`, for any numbers of threads, names, places and changes.
  `ControlInv` says what a thread has in hand at each step of `get_template`,
  and that the cache has each key once, over a template of that name; it is
  inductive alone. On it rest `SearchInv` (what the sources have shown the
  thread so far: every place before the one it reads was empty at some time
  during the call, the text it has read was there at some time, and no two
  versions of a file share an mtime) and `OffersInv` (the globals of every
  running call are among the offers of the others). `Fresh` has torn reads as
  its exception; `WithoutFilesReloads` shows that where no template is a file
  it needs none. Assumed: names and threads are finite sets, and the kinds
  and dictionaries are as `TemplateLoading` declares them.
- `InheritanceProofs`: the type, `ExtendsKnownRight` and `BlocksFollowChain`,
  in synchronous and asynchronous code, for every set of templates that meets
  `ProgramsAssumption`, and so for chains and nestings of any depth. The
  inductive invariant ties every activation to the `Context` of the innermost
  root below it (`StackInv`): its template is of the chain of extends, a block
  stands in the list of its context, a root has extended just where the
  compiler has counted an extends, and the lists of blocks follow the chain.
  Besides, `ParentLoaded` (no `root_render_func` is taken from a parent that is
  None) and `SuperFindsItself` (`Context.super` never fails to find the block
  that calls it).
- `LexerProofs`, for every source: the type, `LinesTrue` and `OnlyBlanksLost`.
  The inductive invariant (`LexInv`) says that the tokens are the source up to
  `pos` in order, that what lies between them is blank, and that each is on
  the line that the newlines before it make; each rule of `tokeniter` is one
  lemma about the groups it yields. `NeverStuck`: every step moves on, leaves
  a state or stops at an error, so `tokeniter` ends, and its RuntimeError for
  a rule that matches nothing without changing the stack (`lexer.py:854-857`)
  is never raised.
- `LexerProofs`, for every template: `TextsAreControlled`: `TemplateSpec =>
  []DataControlled`, for any number of tags with any signs, texts of any
  length and every option. `DataControlled` is about the tokens and says
  nothing of where the lexer is, so the inductive invariant (`ControlInv`)
  adds that (`Stands`): at the entry of a text, which is where the sign and
  `trim_blocks` of the tag before it have taken the lexer, in `root` or in a
  raw block and on a new line or not; inside a tag; or behind everything; and
  in each case what is said so far is the texts before that place, as
  `Controlled` has them (`Said`). Between the two is that the lexer strips
  what it has left (from the entry, and with `line_starting` for what is no
  longer there to see) where the documentation strips the text as a whole
  (`StripAgrees`), and that no rule matches anywhere in a text but at its end.
  Assumed is only what `Template` says: one word in each tag, and no start of
  a directive in a text.
- `ImportsProofs`: `Implements`: `Spec => ImplementsAlone`, for any tasks,
  programs, macros and texts. The inductive invariant (`ImportsInv`) says that
  the default module is what lib renders with its own globals
  (`DefaultModuleInv`), that a name stands for a module there is, one of its
  attributes or a string, that a task waits only at an import the default
  module is right for, and that only public names are exported; each statement
  is one lemma, which gives the step of `ImportsAlone` as well. `DefaultModuleIsOwn`
  is that invariant. Assumed: `x` is an identifier, and what set statements
  assign is a text (`NamesAssumption`, `TextsAssumption`).

Only model-checked, and why:

- `LockReleased` is liveness, which the prover does not reach; nor does it
  reach ENABLED.
- What a recursive definition computes for every input takes an induction over
  data, which it cannot do. `ParserExpressions`, `Parser`, `TemplateGrammar`,
  `Expressions`, `AutoescapeBlocks`, `CompilerFrames`, `Scoping`,
  `LexicalScopes` and `InheritanceReference` follow trees of nodes with recursive
  operators; so all their properties (`FoldingUnseen` and `RendersChain` among
  them) are checked only. No module that is proved about uses one.
- `PromiseKept` and `BindsAsDeclared` compare the loops of filters and of
  argument binding, written as folds, with what they are to compute, and
  `AsyncAsSync` the loops of a filter's two implementations with each other: again
  an induction over data.

## 6. Plan

Next, in this order:

1. The rest of what can be said of tasks and threads at once: a cache and its
   templates composed, so that `TemplateLoading`'s atomic cache steps are
   replaced by `RecencyCache`'s.
2. Recursive loops in `LoopContext`; call blocks and namespaces in `Scoping`.

## 7. Not modelled

- **Lexer**: delimiters other than the default ones (the rules are then tried
  longest first), conversion of literals, the cache of lexers.
- **Parser**: tags of extensions, line numbers of nodes.
- **Scoping**: call blocks, overlay scopes, tuple targets, namespaces,
  recursive loops.
- **Loops**: `loop(...)` and `depth`.
- **Expressions**: dicts, slices, calls and the other arithmetic fold and run the
  way the modelled ones do; `NativeEnvironment`.
- **Inheritance**: `ignore missing`, and an extends whose expression fails.
- **Loading**: `select_template`, `join_path`, `PrefixLoader`, `ModuleLoader`,
  zip packages, overlays, a loader replaced while threads run.
- **Bytecode cache**: the memcached client, the default directory.
- **`TemplateStream`**: a loop of one task that shares nothing.
- **Filters on strings and numbers, tests**: formatting, or one Python call each.
- **Undefined types, i18n, debug, meta, packaging**: tables, string processing
  and introspection without state that outlives a call.
- **Sandbox**: a policy on names and callables, which is no correctness property.
