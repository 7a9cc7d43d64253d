--------------------------- MODULE MCOneShotSteps ---------------------------
(***************************************************************************)
(* Values of OneShotSteps' constants for model checking: bytes of four     *)
(* values, channels at both ends of their range and next to zero; words of *)
(* 128 values, so the longest region does not fit.                         *)
(***************************************************************************)
EXTENDS OneShotSteps

CONSTANTS ann, bob

MCSpeakers == {ann, bob}

MCLevels == {-8, -1, 7}

MCLengths == {0, 1, 41, 45, 46, 60}

MCLogprobs == {-3, -2, -1}

MCDefault == -20
=============================================================================
