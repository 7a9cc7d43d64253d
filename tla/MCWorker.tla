------------------------------ MODULE MCWorker ------------------------------
(***************************************************************************)
(* Values of Worker's constants for model checking.                        *)
(***************************************************************************)
EXTENDS Worker

(* What TransitionsAssumption asks for, and the claim of a finished        *)
(* session, which an admin rerun needs.                                    *)
MCTransitions ==
    ({"uploaded", "transcribing", "transcribing_failed", "transcribed"}
        \X {"transcribing"})
    \cup ({"transcribing"} \X {"transcribed", "transcribing_failed"})

NoBudget == [k \in BudgetKinds |-> 0]

(* One session: enough faults to fail the first run and the retry, a       *)
(* restart, a rerun, an event lost, one repeated or late.                  *)
DisturbedBudget ==
    [k \in BudgetKinds |-> CASE k = "fault" -> 2
                             [] k \in {"chunk", "delete"} -> 0
                             [] OTHER -> 1]

(* A bus that delivers everything; the session may be deleted.             *)
LiveBudget ==
    [NoBudget EXCEPT !["fault"] = 2, !["crash"] = 1, !["chunk"] = 1, !["delete"] = 1]

(* The same bus, one event lost, nothing else wrong.                       *)
LossBudget == [NoBudget EXCEPT !["chunk"] = 1, !["loss"] = 1]

(* One failing run; one rerun.                                             *)
FaultBudget == [NoBudget EXCEPT !["fault"] = 1]
RerunBudget == [NoBudget EXCEPT !["rerun"] = 1]
=============================================================================
