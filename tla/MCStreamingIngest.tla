-------------------------- MODULE MCStreamingIngest --------------------------
(***************************************************************************)
(* Values of StreamingIngest's constants for model checking.               *)
(***************************************************************************)
EXTENDS StreamingIngest

CONSTANTS a, b

MCSilent == {<<a, 1>>}

Disturbed == [k \in DisturbanceKinds |-> 1]
OneFault  == [k \in DisturbanceKinds |-> IF k = "fault" THEN 1 ELSE 0]
=============================================================================
