-------------------------- MODULE FilterContracts --------------------------
(* What the documentation of the filters on sequences promises of the last *)
(* filter of a chain, said of its input and its output without the loops   *)
(* that compute it.                                                        *)
EXTENDS SequenceFilters

Applied(names) == applied.name \in names
Done(mode) == ~Fails(value[mode]) /\ value[mode] # undefined
in(mode) == was[mode].items
out(mode) == value[mode].items
With(items, key) == SelectSeq(items, LAMBDA item : Key(item, applied) = key)
Ordered(a, b) == IF applied.reverse THEN ~Less(multi_attrgetter(a, applied), multi_attrgetter(b, applied))
                 ELSE ~Less(multi_attrgetter(b, applied), multi_attrgetter(a, applied))

(* sort and dictsort give the items of their input in order, and those     *)
(* that count as equal in the order they came in, whichever the direction. *)
SortsStably ==
    Applied({"sort", "dictsort"}) => \A mode \in Modes : Done(mode) =>
        /\ \A i, j \in DOMAIN out(mode) : i < j => Ordered(out(mode)[i], out(mode)[j])
        /\ \A i \in DOMAIN in(mode) :
               LET equal(item) == multi_attrgetter(item, applied) = multi_attrgetter(in(mode)[i], applied)
               IN  SelectSeq(out(mode), equal) = SelectSeq(in(mode), equal)
        /\ Len(out(mode)) = Len(in(mode))

(* groupby gives one group for every key there is, ignoring the case       *)
(* unless told not to; a group has the items with that key, in the order   *)
(* they came in, and is called what the first of them is.                  *)
GroupsOncePerKey ==
    Applied({"groupby"}) => \A mode \in Modes : Done(mode) =>
        LET groups == out(mode)
            key(group) == IF applied.case_sensitive THEN group.grouper ELSE ignore_case(group.grouper)
        IN  /\ {key(groups[i]) : i \in DOMAIN groups} = Keys(in(mode), applied)
            /\ Len(groups) = Cardinality(Keys(in(mode), applied))
            /\ \A i \in DOMAIN groups :
                   /\ groups[i].list = With(in(mode), key(groups[i]))
                   /\ groups[i].grouper = Key(Head(groups[i].list), [applied EXCEPT !.case_sensitive = TRUE])

(* slice and batch deal all items out in their order and invent none but   *)
(* the fill.  The slices, of which those at late end in the fill, are as   *)
(* even as they can be, the longer ones first.                             *)
Slices(parts, items, late) ==
    LET dealt == [i \in DOMAIN parts |-> IF i \in late THEN Front(parts[i]) ELSE parts[i]]
    IN  /\ Len(parts) = applied.n
        /\ \A i \in late : parts[i] # << >> /\ Last(parts[i]) = applied.with
        /\ FlattenSeq(dealt) = items
        /\ \A i, j \in DOMAIN dealt : i < j => Len(dealt[i]) - Len(dealt[j]) \in {0, 1}

(* "If you pass it a second argument it's used to fill missing values on   *)
(* the last iteration" (filters.py:1074): the fill is at the end of the    *)
(* slices that lack an item which the first ones have.                     *)
FillsMissing(mode) ==
    LET short == Len(in(mode)) % applied.n
    IN  Slices(out(mode), in(mode), IF applied.fill /\ short > 0 THEN short + 1 .. applied.n ELSE {})

(* Where the code departs from it: if the items come out even and none is  *)
(* missing, every slice gets the fill nevertheless (filters.py:1092).      *)
FillsEven(mode) ==
    /\ applied.fill /\ Len(in(mode)) % applied.n = 0
    /\ Slices(out(mode), in(mode), 1 .. applied.n)

(* The rows of a batch are full but for the last, which the fill completes.*)
RowsFilled(mode) ==
    LET rows == out(mode)
        given == FlattenSeq(rows)
    IN  /\ IsPrefix(in(mode), given)
        /\ \A i \in Len(in(mode)) + 1 .. Len(given) : applied.fill /\ given[i] = applied.with
        /\ \A i \in DOMAIN rows : Len(rows[i]) = applied.n \/ (i = Len(rows) /\ ~applied.fill)
        /\ Len(rows) * applied.n - Len(in(mode)) \in 0 .. applied.n - 1

DealsOut ==
    \A mode \in Modes : Done(mode) =>
        /\ Applied({"slice"}) => FillsMissing(mode) \/ FillsEven(mode)
        /\ Applied({"batch"}) => RowsFilled(mode)

(* The claim without the exception.  TLC refutes it.                       *)
SliceFillsMissing == Applied({"slice"}) => \A mode \in Modes : Done(mode) => FillsMissing(mode)

(* unique, min and max keep the first of the items that count as equal.    *)
PicksFirst ==
    Applied({"unique", "min", "max"}) => \A mode \in Modes : Done(mode) =>
        LET firsts == SelectSeq(in(mode), LAMBDA item : item = Head(With(in(mode), Key(item, applied))))
            extreme(best) == \A i \in DOMAIN in(mode) :
                IF applied.name = "min" THEN Rank(Key(best, applied)) <= Rank(Key(in(mode)[i], applied))
                ELSE Rank(Key(best, applied)) >= Rank(Key(in(mode)[i], applied))
        IN  IF applied.name = "unique"
            THEN Len(out(mode)) = Cardinality(Keys(in(mode), applied))
                 /\ ToSet(out(mode)) \subseteq ToSet(firsts) /\ Keys(out(mode), applied) = Keys(in(mode), applied)
            ELSE out(mode)[1] \in ToSet(firsts) /\ extreme(out(mode)[1])

(* Each filter keeps what is documented of it, whatever filters made its   *)
(* input, and in both modes (do_sort, do_dictsort, do_groupby, do_slice,   *)
(* do_batch, do_unique, do_min and do_max of filters.py).                  *)
PromiseKept == SortsStably /\ GroupsOncePerKey /\ DealsOut /\ PicksFirst

(* "For the template designer, this support (when enabled) is entirely     *)
(* transparent" (docs/api.rst:507).  Two exceptions: these filters cannot  *)
(* take the asynchronous iterators which others yield, and a sum may start *)
(* from a list that the sum of asynchronous code has changed before        *)
(* (filters.py:1352).                                                      *)
NoVariant == {"sort", "min", "max", "last", "reverse", "length", "batch"}
TakesNone(f) == value["async"].form = "async" /\ f.name \in NoVariant
StartChanged(f) == f.name = "sum" /\ acc["async"] # acc["sync"]

Alike(a, b) == /\ a.of = b.of /\ a.items = b.items
               /\ a.form = b.form \/ (a.form = "async" /\ b.form = "iterator")

(* A filter gives in asynchronous code what it gives in synchronous code,  *)
(* up to the kind of an iterator, and fails only where it does, although   *)
(* another function may do it (async_variant of async_utils.py, and the    *)
(* functions of filters.py that are written twice).                        *)
AsyncAsSync ==
    [][ (/\ Alike(value["async"], value["sync"])
         /\ ~TakesNone(applied') /\ ~StartChanged(applied'))
        => Alike(value'["async"], value'["sync"]) ]_chain_vars
=============================================================================
