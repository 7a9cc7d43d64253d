------------------------------ MODULE DueQueue ------------------------------
(***************************************************************************)
(* What the retry queue promises: an entry that is put in comes out once,  *)
(* not before its time, and not before one that is due earlier.  An entry  *)
(* carries the time left until it is due, negative once it is overdue.     *)
(***************************************************************************)
EXTENDS Integers

VARIABLES waiting,  \* entries put in and not taken yet
          taken     \* ids of the entries that came out

Init == waiting = {} /\ taken = {}

Put == \E e \in waiting' \ waiting :
          /\ e.id \notin taken /\ \A w \in waiting : w.id # e.id
          /\ waiting' = waiting \cup {e}
          /\ UNCHANGED taken

Take == \E e \in waiting :
          /\ e.left <= 0
          /\ \A w \in waiting : e.left <= w.left
          /\ waiting' = waiting \ {e}
          /\ taken' = taken \cup {e.id}

(* Time passes: no entry is delayed, none is dropped or made up.           *)
Pass == /\ \A e \in waiting : \E w \in waiting' : w.id = e.id /\ w.left <= e.left
        /\ \A w \in waiting' : \E e \in waiting : w.id = e.id
        /\ UNCHANGED taken

Next == Put \/ Take \/ Pass

Spec == Init /\ [][Next]_<<waiting, taken>>
=============================================================================
