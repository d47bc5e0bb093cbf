-------------------------- MODULE MCProductionServer ---------------------------
(* Two requests, two resources; one request registers up to two callbacks.  *)
EXTENDS ProductionServer, TLC

CONSTANTS r1, r2

MCRequests == {r1, r2}
MCMaxTasks == (r1 :> 2 @@ r2 :> 0)
=============================================================================
