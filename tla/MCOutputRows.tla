---------------------------- MODULE MCOutputRows ----------------------------
(***************************************************************************)
(* Values of OutputRows' constants for model checking.                     *)
(***************************************************************************)
EXTENDS OutputRows

(* Two requests fail, one rerun is asked for.                              *)
MCBudget == [k \in Kinds |-> IF k = "fault" THEN 2 ELSE 1]
=============================================================================
