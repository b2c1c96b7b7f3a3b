---------------------------- MODULE MCExitIndex -----------------------------
(* Families for the runs of ExitIndex.                                      *)
EXTENDS ExitIndex, TLC

CONSTANTS Fam, Fin, x, y, z

(* One family of two leaves, one of one. *)
DifferentLeaves == (Fam :> <<x, y>>) @@ (Fin :> <<z>>)

(* The hypothesis of the theorem about the records served.                  *)
ASSUME RootsAssumption == RootsTell

=============================================================================
