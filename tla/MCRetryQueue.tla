---------------------------- MODULE MCRetryQueue ----------------------------
(***************************************************************************)
(* Values of RetryQueue's constants for model checking.                    *)
(***************************************************************************)
EXTENDS RetryQueue

(* The form of the default, with a stray comma; a retry at once; retries   *)
(* switched off; a value that is refused.                                  *)
MCConfigs == {<<1, Blank, 3>>, <<2, 0>>, <<Blank>>, <<1, Junk>>}
=============================================================================
