---------------------------- MODULE GracefulShutdown ----------------------------
(***************************************************************************)
(* What a production server promises about its end, without signals,       *)
(* timers, promises or hooks: it admits requests until it begins to drain, *)
(* cleans up once, after the start has settled and the responses are over  *)
(* (unless it is forced, or its host does not wait), has released what was *)
(* acquired when the cleanup is over, and reports success only after a     *)
(* cleanup without an error.                                               *)
(***************************************************************************)
CONSTANTS Requests, Resources

VARIABLES
  patient,   \* the process waits for the responses before it cleans up
  booting,   \* the start is in progress
  phase,     \* "open", "draining", "cleaning", then "clean" or "dirty"
  serving,   \* the requests whose client awaits a handler or a stream
  held,      \* the resources acquired and not released
  forced,    \* the patience has run out
  exit       \* how the process ended

shutdownVars == <<patient, booting, phase, serving, held, forced, exit>>

ShutdownInit ==
  /\ patient \in BOOLEAN
  /\ booting = FALSE
  /\ phase = "open"
  /\ serving = {}
  /\ held = {}
  /\ forced = FALSE
  /\ exit = "running"

Over == phase \in {"clean", "dirty"}

-----------------------------------------------------------------------------
StartBegins ==
  /\ phase = "open"
  /\ booting' = TRUE
  /\ UNCHANGED <<patient, phase, serving, held, forced, exit>>

(* A start that failed admits nobody any more.                             *)
StartEnds ==
  /\ booting' = FALSE
  /\ phase' \in {phase, IF phase = "open" THEN "draining" ELSE phase}
  /\ UNCHANGED <<patient, serving, held, forced, exit>>

Begin(r) ==
  /\ phase = "open" /\ ~booting
  /\ serving' = serving \cup {r}
  /\ UNCHANGED <<patient, booting, phase, held, forced, exit>>

End(r) ==
  /\ serving' = serving \ {r}
  /\ UNCHANGED <<patient, booting, phase, held, forced, exit>>

Acquire(x) ==
  /\ ~Over
  /\ held' = held \cup {x}
  /\ UNCHANGED <<patient, booting, phase, serving, forced, exit>>

Release(x) ==
  /\ held' = held \ {x}
  /\ UNCHANGED <<patient, booting, phase, serving, forced, exit>>

-----------------------------------------------------------------------------
Drain ==
  /\ phase = "open"
  /\ phase' = "draining"
  /\ UNCHANGED <<patient, booting, serving, held, forced, exit>>

CleanUp ==
  /\ phase = "draining"
  /\ forced \/ (~booting /\ (patient => serving = {}))
  /\ phase' = "cleaning"
  /\ UNCHANGED <<patient, booting, serving, held, forced, exit>>

(* The cleanup begins at once, whatever is still in progress.              *)
Force ==
  /\ forced' = TRUE
  /\ phase' = IF phase \in {"open", "draining"} THEN "cleaning" ELSE phase
  /\ UNCHANGED <<patient, booting, serving, held, exit>>

Finish ==
  /\ phase = "cleaning"
  /\ held = {}
  /\ phase' \in {"clean", "dirty"}
  /\ UNCHANGED <<patient, booting, serving, held, forced, exit>>

Exit ==
  /\ exit = "running"
  /\ exit' \in (IF phase = "clean" THEN {"success", "failure"} ELSE {"failure"})
  /\ UNCHANGED <<patient, booting, phase, serving, held, forced>>

ShutdownNext ==
  /\ exit = "running"
  /\ \/ StartBegins \/ StartEnds
     \/ \E r \in Requests : Begin(r) \/ End(r)
     \/ \E x \in Resources : Acquire(x) \/ Release(x)
     \/ Drain \/ CleanUp \/ Force \/ Finish \/ Exit

ShutdownSpec == ShutdownInit /\ [][ShutdownNext]_shutdownVars
=============================================================================
