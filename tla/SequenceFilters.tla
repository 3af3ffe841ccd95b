-------------------------- MODULE SequenceFilters --------------------------
(* Chains of the filters on sequences (filters.py), each run as the        *)
(* environment runs it without async support and with it, where            *)
(* async_variant puts another implementation in the place of some of them. *)
(*                                                                         *)
(* An item is a mapping with the keys id and key; key is one of a few      *)
(* strings, or not there. A value is what a filter gives: its form tells   *)
(* what can be done with it, of tells what its items are.                  *)
EXTENDS Integers, SequencesExt

CONSTANTS
    Sequences, \* of items, that a template is given
    MaxChain   \* bound: filters in a chain

VARIABLES
    value,    \* of the chain so far, in each mode
    acc,      \* a list the template holds, in each mode
    was,      \* value before the last filter
    applied,  \* the last filter
    chain     \* how many there are
chain_vars == <<value, acc, was, applied, chain>>

Modes == {"sync", "async"}
V(form, of, items) == [form |-> form, of |-> of, items |-> items]
error == V("error", "nothing", << >>)
undefined == V("undefined", "nothing", << >>)
scalar(x) == V("scalar", "nothing", <<x>>)
Fails(v) == v.form = "error"

(* make_attrgetter and its kin: what the environment finds under an        *)
(* attribute, lower-cased by ignore_case, in Python's order of strings.    *)
ignore_case(key) == IF key = "A" THEN "a" ELSE key
Rank(key) == CASE key = "undefined" -> 0 [] key = "A" -> 1 [] key = "a" -> 2 [] key = "b" -> 3
Key(item, f) == LET key == IF item.key = "undefined" THEN f.default ELSE item.key
                IN  IF f.case_sensitive THEN key ELSE ignore_case(key)
multi_attrgetter(item, f) == [i \in DOMAIN f.by |-> IF f.by[i] = "id" THEN item.id ELSE Rank(Key(item, f))]
Less(a, b) == a[1] < b[1] \/ (Len(a) = 2 /\ a[1] = b[1] /\ a[2] < b[2])
(* Python orders neither two undefined keys nor one and a string; in the   *)
(* lists that multi_attrgetter makes, two undefined ones are just equal.   *)
Keys(items, f) == {Key(items[i], f) : i \in DOMAIN items}
Comparable(items, f) == Len(items) < 2 \/ "undefined" \notin Keys(items, f)
Sortable(items, f) == f.by = <<"id">> \/ Keys(items, f) = {"undefined"} \/ "undefined" \notin Keys(items, f)

(* Python's sorted is stable, in both directions.                          *)
InsertBefore(sorted, item, f) ==  \* mutated: before the items that count as equal
    LET after(other) == IF f.reverse THEN ~Less(multi_attrgetter(item, f), multi_attrgetter(other, f))
                        ELSE ~Less(multi_attrgetter(other, f), multi_attrgetter(item, f))
        place == SelectInSeq(sorted, after)
    IN  IF place = 0 THEN Append(sorted, item) ELSE InsertAt(sorted, place, item)
Insert(sorted, item, f) ==
    LET after(other) == IF f.reverse THEN Less(multi_attrgetter(other, f), multi_attrgetter(item, f))
                        ELSE Less(multi_attrgetter(item, f), multi_attrgetter(other, f))
        place == SelectInSeq(sorted, after)
    IN  IF place = 0 THEN Append(sorted, item) ELSE InsertAt(sorted, place, item)
sorted_by(items, f) == FoldLeft(LAMBDA s, item : Insert(s, item, f), << >>, items)

-----------------------------------------------------------------------------
(* The filters with one implementation, which go through the items with a  *)
(* plain for, and so not through an asynchronous iterator.                 *)
Over(v, result) == IF v.form = "async" THEN error ELSE result

do_sort(v, f) == Over(v, IF Sortable(v.items, f) THEN V("list", v.of, sorted_by(v.items, f)) ELSE error)
_min_or_max(v, f, sign) ==
    IF v.items = << >> THEN undefined
    ELSE IF ~Comparable(v.items, f) THEN error
    ELSE scalar(FoldLeft(LAMBDA best, item :
                             IF sign * Rank(Key(item, f)) < sign * Rank(Key(best, f)) THEN item ELSE best,
                         Head(v.items), Tail(v.items)))
do_min(v, f) == Over(v, _min_or_max(v, f, 1))
do_max(v, f) == Over(v, _min_or_max(v, f, -1))
do_last(v) == IF v.form \in {"iterator", "async"} THEN error
              ELSE IF v.items = << >> THEN undefined ELSE scalar(Last(v.items))
do_reverse(v) == Over(v, V(IF v.form = "iterator" THEN "list" ELSE "iterator", v.of, Reverse(v.items)))
length(v) == IF v.form \in {"iterator", "async"} THEN error ELSE scalar(Len(v.items))
Lists(of) == IF of = "objects" THEN "lists" ELSE "key lists"
do_batch(v, f) ==
    LET step(rows, item) == IF rows = << >> \/ Len(Last(rows)) = f.n THEN Append(rows, <<item>>)
                            ELSE Append(Front(rows), Append(Last(rows), item))
        rows == FoldLeft(step, << >>, v.items)
        filled == IF ~f.fill \/ rows = << >> THEN rows
                  ELSE Append(Front(rows), Last(rows) \o [i \in 1 .. f.n - Len(Last(rows)) |-> f.with])
    IN  Over(v, V("iterator", Lists(v.of), filled))
do_dictsort(v, f) == V("list", "objects", sorted_by(v.items, f))

-----------------------------------------------------------------------------
(* The filters with two, the first for synchronous code and the second,    *)
(* which takes asynchronous iterators as well, for asynchronous code.      *)
auto_to_list(v) == V("list", v.of, v.items)

sync_do_list(v) == Over(v, V("list", v.of, v.items))
do_list(v) == auto_to_list(v)

sync_do_first(v) == Over(v, IF v.items = << >> THEN undefined ELSE scalar(Head(v.items)))
do_first(v) == IF v.items = << >> THEN undefined ELSE scalar(Head(v.items))

sync_do_unique(v, f) ==
    LET key(item) == Key(item, f)
        add(out, item) == IF \E i \in DOMAIN out : key(out[i]) = key(item) THEN out ELSE Append(out, item)
    IN  Over(v, V("iterator", v.of, FoldLeft(add, << >>, v.items)))
do_uniquePlain(v, f) == sync_do_unique(v, f)  \* mutated: on what it is given
do_unique(v, f) == sync_do_unique(auto_to_list(v), f)

sync_do_slice(v, f) ==
    LET items_per_slice == Len(v.items) \div f.n
        slices_with_extra == Len(v.items) % f.n
        slice(k) ==
            LET offset == IF k <= slices_with_extra THEN k ELSE slices_with_extra
                start == offset + k * items_per_slice
                end == (IF k < slices_with_extra THEN offset + 1 ELSE offset) + (k + 1) * items_per_slice
                tmp == SubSeq(v.items, start + 1, end)
            IN  IF f.fill /\ k >= slices_with_extra THEN Append(tmp, f.with) ELSE tmp
    IN  Over(v, V("iterator", Lists(v.of), [k \in 1 .. f.n |-> slice(k - 1)]))
do_slice(v, f) == sync_do_slice(auto_to_list(v), f)

(* itertools.groupby over the sorted items.                                *)
Groups(items, f) ==
    FoldLeft(LAMBDA groups, item :
                 IF groups # << >> /\ Key(Head(Last(groups)), f) = Key(item, f)
                 THEN Append(Front(groups), Append(Last(groups), item)) ELSE Append(groups, <<item>>),
             << >>, sorted_by(items, f))
_GroupTuple(key, list) == [grouper |-> key, list |-> list]
(* output_expr reads the real key, where expr has ignored the case.        *)
output_expr(item, f) == Key(item, [f EXCEPT !.case_sensitive = TRUE])
sync_do_groupby(v, f) ==
    LET groups == Groups(v.items, f)
        out == [i \in DOMAIN groups |-> _GroupTuple(Key(Head(groups[i]), f), groups[i])]
        real == [i \in DOMAIN out |-> _GroupTuple(output_expr(Head(out[i].list), f), out[i].list)]
    IN  Over(v, IF ~Comparable(v.items, f) THEN error
                ELSE V("list", "groups", IF f.case_sensitive THEN out ELSE real))
do_groupby(v, f) ==
    LET values == auto_to_list(v).items
        groups == Groups(values, f)
        out == [i \in DOMAIN groups |-> _GroupTuple(Key(Head(groups[i]), f), groups[i])]
        real == [i \in DOMAIN out |-> _GroupTuple(output_expr(Head(out[i].list), f), out[i].list)]
    IN  IF ~Comparable(values, f) THEN error
        ELSE V("list", "groups", IF f.case_sensitive THEN out ELSE real)

prepare_map(item, f) == [item EXCEPT !.key = IF @ = "undefined" THEN f.default ELSE @]
sync_do_map(v, f) == Over(v, V("iterator", "keys", [i \in DOMAIN v.items |-> prepare_map(v.items[i], f)]))
do_map(v, f) == V("async", "keys", FoldLeft(LAMBDA out, item : Append(out, prepare_map(item, f)), << >>, v.items))

(* The test is defined, of the items or of their attribute.                *)
prepare_select_or_reject(item, keep) == (item.key # "undefined") = keep
select_or_reject(v, keep) ==
    Over(v, V("iterator", v.of, SelectSeq(v.items, LAMBDA item : prepare_select_or_reject(item, keep))))
async_select_or_reject(v, keep) ==
    V("async", v.of, FoldLeft(LAMBDA out, item : IF prepare_select_or_reject(item, keep) THEN Append(out, item) ELSE out,
                              << >>, v.items))

(* Of lists, Python's sum makes a new one; the loop adds to start in place *)
(* (Apply), and gives that.                                                *)
sync_do_sum(v, start) ==
    Over(v, IF v.of = "lists" THEN V("list", "objects", start \o FlattenSeq(v.items))
            ELSE scalar(FoldLeft(LAMBDA sum, item : sum + item.id, 0, v.items)))
do_sum(v, start) ==
    IF v.of = "lists" THEN V("list", "objects", FoldLeft(LAMBDA rv, item : rv \o item, start, v.items))
    ELSE scalar(FoldLeft(LAMBDA rv, item : rv + item.id, 0, v.items))

-----------------------------------------------------------------------------
(* async_variant puts the second implementation in the place of the first. *)
async_variants == {"unique", "first", "slice", "groupby", "map", "select", "reject", "sum", "list"}
AsyncVariant(v, f, start) ==
    CASE f.name = "unique" -> do_unique(v, f)
      [] f.name = "first" -> do_first(v)
      [] f.name = "slice" -> do_slice(v, f)
      [] f.name = "groupby" -> do_groupby(v, f)
      [] f.name = "map" -> do_map(v, f)
      [] f.name \in {"select", "reject"} -> async_select_or_reject(v, f.name = "select")
      [] f.name = "sum" -> do_sum(v, start)
      [] f.name = "list" -> do_list(v)
NormalFunc(v, f, start) ==
    CASE f.name = "sort" -> do_sort(v, f)
      [] f.name = "unique" -> sync_do_unique(v, f)
      [] f.name = "min" -> do_min(v, f)
      [] f.name = "max" -> do_max(v, f)
      [] f.name = "first" -> sync_do_first(v)
      [] f.name = "last" -> do_last(v)
      [] f.name = "reverse" -> do_reverse(v)
      [] f.name = "length" -> length(v)
      [] f.name = "slice" -> sync_do_slice(v, f)
      [] f.name = "batch" -> do_batch(v, f)
      [] f.name = "groupby" -> sync_do_groupby(v, f)
      [] f.name = "map" -> sync_do_map(v, f)
      [] f.name \in {"select", "reject"} -> select_or_reject(v, f.name = "select")
      [] f.name = "sum" -> sync_do_sum(v, start)
      [] f.name = "list" -> sync_do_list(v)
      [] f.name = "items" -> V("iterator", "objects", v.items)
      [] f.name = "dictsort" -> do_dictsort(v, f)
Filtered(v, f, mode) ==
    IF mode = "async" /\ f.name \in async_variants THEN AsyncVariant(v, f, acc[mode])
    ELSE NormalFunc(v, f, acc[mode])

-----------------------------------------------------------------------------
Start == [name |-> "start", case_sensitive |-> FALSE, reverse |-> FALSE, by |-> <<"key">>, n |-> 1, fill |-> FALSE,
          default |-> "undefined", with |-> [id |-> 0, key |-> "undefined"]]
(* A template is given a list, an iterator (an asynchronous one where the  *)
(* code is asynchronous), a mapping, or nothing.                           *)
ChainInit ==
    /\ \E items \in Sequences, form \in {"list", "iterator", "dict", "undefined"} :
           /\ form = "undefined" => items = << >>
           /\ form = "dict" => \A i \in DOMAIN items : items[i].key # "undefined"
           /\ value = [mode \in Modes |-> V(IF form = "iterator" /\ mode = "async" THEN "async" ELSE form, "objects", items)]
    /\ was = value
    /\ acc = [mode \in Modes |-> << >>]
    /\ applied = Start
    /\ chain = 0

(* sum of the async implementation adds to its start value in place.       *)
Apply(f) ==
    /\ chain < MaxChain
    /\ chain' = chain + 1
    /\ applied' = f /\ was' = value
    /\ value' = [mode \in Modes |-> Filtered(value[mode], f, mode)]
    /\ acc' = IF f.name = "sum" /\ value["async"].of = "lists" THEN [acc EXCEPT !["async"] = value'["async"].items]
              ELSE acc

Of(kinds) == \A mode \in Modes : value[mode].of \in kinds /\ value[mode].form \notin {"scalar", "error"}
OnMapping == /\ \A mode \in Modes : value[mode].form \in {"dict", "undefined"}
             /\ \/ Apply([Start EXCEPT !.name = "items"])
                \/ \E by \in {<<"key">>, <<"id">>}, reverse, cs \in BOOLEAN :
                       /\ value["sync"].form = "dict"
                       /\ Apply([Start EXCEPT !.name = "dictsort", !.by = by, !.reverse = reverse, !.case_sensitive = cs])
Sequence == Of({"objects", "keys"}) /\ value["sync"].form # "dict"
Order == Sequence /\ \E reverse, cs \in BOOLEAN, by \in {<<"key">>, <<"key", "id">>} :
             /\ Len(by) = 2 => Of({"objects"})
             /\ Apply([Start EXCEPT !.name = "sort", !.reverse = reverse, !.case_sensitive = cs, !.by = by])
Pick == Sequence /\ \E name \in {"unique", "min", "max"}, cs \in BOOLEAN :
            Apply([Start EXCEPT !.name = name, !.case_sensitive = cs])
Plain == (Sequence \/ Of({"lists", "key lists"})) /\ \E name \in {"first", "last", "reverse", "length", "list"} :
             Apply([Start EXCEPT !.name = name])
Columns == Sequence /\ \E name \in {"slice", "batch"}, n \in 1 .. 3, fill \in BOOLEAN :
               Apply([Start EXCEPT !.name = name, !.n = n, !.fill = fill])
Grouped == Of({"objects"}) /\ Sequence /\ \E cs \in BOOLEAN, default \in {"undefined", "A"} :
               Apply([Start EXCEPT !.name = "groupby", !.case_sensitive = cs, !.default = default])
Lazily == Sequence /\ \/ \E name \in {"select", "reject"} : Apply([Start EXCEPT !.name = name])
                      \/ Of({"objects"}) /\ \E default \in {"undefined", "b"} :
                             Apply([Start EXCEPT !.name = "map", !.default = default])
Summed == (Of({"lists"}) \/ (Of({"objects"}) /\ Sequence)) /\ Apply([Start EXCEPT !.name = "sum"])

ChainNext == OnMapping \/ Order \/ Pick \/ Plain \/ Columns \/ Grouped \/ Lazily \/ Summed
ChainSpec == ChainInit /\ [][ChainNext]_chain_vars
=============================================================================
