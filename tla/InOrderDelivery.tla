-------------------------- MODULE InOrderDelivery --------------------------
(***************************************************************************)
(* What a streaming runner promises its pipeline: each speaker's chunks    *)
(* arrive one after the other from number 0, none twice, none skipped,     *)
(* none that was not uploaded, and nothing once the feed is closed.  A     *)
(* restarted worker begins a new feed.                                     *)
(***************************************************************************)
EXTENDS Naturals, Sequences

CONSTANT Speakers

VARIABLES uploaded,  \* the chunk numbers stored for each speaker
          log,       \* what the pipeline was fed, per speaker
          closed     \* the feed has ended

deliveryVars == <<uploaded, log, closed>>

Counting(n) == [i \in 1 .. n |-> i - 1]

Init == /\ uploaded = [sp \in Speakers |-> {}]
        /\ log = [sp \in Speakers |-> <<>>]
        /\ closed = FALSE

Upload == /\ \A sp \in Speakers : uploaded[sp] \subseteq uploaded'[sp]
          /\ UNCHANGED <<log, closed>>

Deliver(sp) ==
    /\ ~closed
    /\ Len(log[sp]) < Len(log'[sp])
    /\ log' = [log EXCEPT ![sp] = Counting(Len(log'[sp]))]
    /\ \A i \in 1 .. Len(log'[sp]) : log'[sp][i] \in uploaded[sp]
    /\ UNCHANGED <<uploaded, closed>>

Close == ~closed /\ closed' = TRUE /\ UNCHANGED <<uploaded, log>>

Restart == /\ log' = [sp \in Speakers |-> <<>>]
           /\ UNCHANGED uploaded
           /\ closed => closed'

Next == Upload \/ Close \/ Restart \/ \E sp \in Speakers : Deliver(sp)

Spec == Init /\ [][Next]_deliveryVars
=============================================================================
