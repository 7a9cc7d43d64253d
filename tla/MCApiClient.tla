----------------------------- MODULE MCApiClient -----------------------------
(***************************************************************************)
(* Values of ApiClient's constants for model checking.                     *)
(***************************************************************************)
EXTENDS ApiClient

(* Two tokens are forgotten and one request fails.                         *)
MCBudget == [k \in Kinds |-> IF k = "revoke" THEN 2 ELSE 1]
=============================================================================
