------------------------------- MODULE Lists --------------------------------
(***************************************************************************)
(* What the code's iterators make of a list: those of its elements that    *)
(* pass a filter, its sum, its elements in order.  Written as recursive    *)
(* functions and choices from sets, so that they can be reasoned about.    *)
(***************************************************************************)
EXTENDS Integers, Sequences, FiniteSets

(* filter: the elements in S, in the order of the list.                    *)
Only(list, S) ==
    LET only[n \in 0 .. Len(list)] ==
            IF n = 0 THEN <<>>
            ELSE IF list[n] \in S THEN Append(only[n - 1], list[n])
            ELSE only[n - 1]
    IN  only[Len(list)]

(* sum                                                                     *)
Total(list) ==
    LET total[n \in 0 .. Len(list)] == IF n = 0 THEN 0 ELSE total[n - 1] + list[n]
    IN  total[Len(list)]

Increasing(list) == \A i, j \in DOMAIN list : i < j => list[i] < list[j]

(* sort_by_key: the elements of a set of numbers, the least first.         *)
Ascending(S) == CHOOSE list \in [1 .. Cardinality(S) -> S] : Increasing(list)
=============================================================================
