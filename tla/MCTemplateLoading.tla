-------------------------- MODULE MCTemplateLoading --------------------------
(***************************************************************************)
(* Two threads and two names over a cache of one or two templates.  The    *)
(* freshness runs have a mapping and a file, each in up to two places, of  *)
(* which only the first holds anything to begin with, and sources that     *)
(* change; the globals runs have two callers' dictionaries and a source    *)
(* that changes once.                                                      *)
(***************************************************************************)
EXTENDS TemplateLoading, TLC

CONSTANTS n1, n2, valid, invalid, t1, t2, d1, d2, x1, x2

MCNames   == {n1, n2}
MCThreads == {t1, t2}
MCKinds   == [n \in Names |-> IF n = n1 THEN "dict" ELSE "file"]
MCValue   == [d \in CallerDicts |-> IF d = d1 THEN x1 ELSE x2]

GoodAndBad == {valid, invalid}
OnlyBad    == {invalid}
OnlyGood   == {valid}
TwoDicts   == {d1, d2}
Nothing    == {}
StaticKinds == [n \in Names |-> IF n = n1 THEN "dict" ELSE "function"]

(* Bound on the initial states: what is there is in the first place ...    *)
FirstPlaceInit == Init /\ \A n \in Names, p \in 2..Places : ~Exists(n, p)
FirstPlaceSpec == FirstPlaceInit /\ [][Next]_vars
(* ... or everything is.                                                   *)
AllPresentInit == Init /\ \A n \in Names, p \in 1..Places : Exists(n, p)
AllPresentSpec == AllPresentInit /\ [][Next]_vars

ThreadSymmetry == Permutations(Threads)
=============================================================================
