--------------------------- MODULE MCAdminSurface ---------------------------
(***************************************************************************)
(* Values of AdminSurface's constants for model checking.                  *)
(***************************************************************************)
EXTENDS AdminSurface

CONSTANTS r1, r2, s1, s2   \* two reruns, two status requests

MCRequests == {r1, r2, s1, s2}

MCReruns == {r1, r2}
=============================================================================
