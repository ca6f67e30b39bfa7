-------------------------- MODULE MCRatAfcRefinement --------------------------
(***************************************************************************)
(* The controller instance of MCRatAfc checked against ConsoleStatus.      *)
(***************************************************************************)
EXTENDS MCRatAfc, RatAfcRefinement
=============================================================================
