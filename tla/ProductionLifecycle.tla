-------------------------- MODULE ProductionLifecycle --------------------------
(***************************************************************************)
(* createFarmProductionLifecycle (packages/farm/src/production-lifecycle): *)
(* one start and one close of the runtime, however often and in whatever   *)
(* order they are asked for, and the requests counted while they are       *)
(* handled and their responses stream.  Its promises are the hooks of      *)
(* RuntimeHooks: startPromise is pending from "registering" until starting *)
(* is settled, resourceClosePromise likewise with closing.                 *)
(***************************************************************************)
EXTENDS RuntimeHooks, AfterQueue, Integers, FiniteSets

ASSUME RequestsAssumption == IsFiniteSet(Requests)

VARIABLES
  state,           \* as readiness reports it
  activeRequests,
  closeWaits,      \* closePromise waits for the start or for a forced close
  forced,          \* forcedCloseWait is resolved
  idleWait,        \* what waitForIdle told its caller
  pc               \* where each request is

lifecycleVars == <<state, activeRequests, closeWaits, forced, idleWait, pc>>

LifecycleTypeOK ==
  /\ state \in {"starting", "ready", "draining", "failed", "closed"}
  /\ activeRequests \in Nat
  /\ closeWaits \in BOOLEAN
  /\ forced \in BOOLEAN
  /\ idleWait \in {"none", "waiting", "drained", "expired"}
  /\ pc \in [Requests -> {"idle", "starting", "handling", "streaming", "ended", "refused"}]

LifecycleInit ==
  /\ state = "starting"
  /\ activeRequests = 0
  /\ closeWaits = FALSE
  /\ forced = FALSE
  /\ idleWait = "none"
  /\ pc = [r \in Requests |-> "idle"]

-----------------------------------------------------------------------------
(* start()                                                                 *)

Start ==
  /\ state = "starting"
  /\ StartHook
  /\ UNCHANGED lifecycleVars

(* Mutant: ready whatever has happened since start() was called.           *)
StartMakesReady ==
  /\ PluginsStarted
  /\ state' = "ready"
  /\ UNCHANGED <<activeRequests, closeWaits, forced, idleWait, pc>>

StartFulfilled ==
  /\ PluginsStarted
  /\ state' = IF state = "starting" THEN "ready" ELSE state
  /\ UNCHANGED <<activeRequests, closeWaits, forced, idleWait, pc>>

StartRejected ==
  /\ Registered(FALSE) \/ RolledBack
  /\ state' = IF state # "closed" THEN "failed" ELSE state
  /\ UNCHANGED <<activeRequests, closeWaits, forced, idleWait, pc>>

-----------------------------------------------------------------------------
(* close() and forceClose()                                                *)

StateAfterDrain == IF state \in {"closed", "failed"} THEN state ELSE "draining"

BeginDrain == state' = StateAfterDrain

(* A second close, or one after forceClose, returns the promise of the     *)
(* first.                                                                  *)
Close ==
  IF closing # "none" \/ closeWaits
    THEN UNCHANGED <<state, closeWaits>>
    ELSE BeginDrain /\ closeWaits' = TRUE

(* Mutant: close() does not wait for a start in progress.                  *)
CloseResourcesAtOnce ==
  /\ closeWaits
  /\ closeWaits' = FALSE
  /\ IF closing = "none" THEN CloseHook ELSE UNCHANGED hookVars
  /\ UNCHANGED <<state, activeRequests, forced, idleWait, pc>>

(* The race of close() is won: closeResources starts the close hook, once. *)
CloseResources ==
  /\ closeWaits
  /\ starting \in {"none"} \cup Settled \/ forced
  /\ closeWaits' = FALSE
  /\ IF closing = "none" THEN CloseHook ELSE UNCHANGED hookVars
  /\ UNCHANGED <<state, activeRequests, forced, idleWait, pc>>

ForceClose ==
  /\ BeginDrain
  /\ forced' = TRUE
  /\ IF closing = "none" THEN CloseHook ELSE UNCHANGED hookVars
  /\ UNCHANGED <<activeRequests, closeWaits, idleWait, pc>>

ResourcesClosed ==
  /\ Closed
  /\ state' = "closed"
  /\ UNCHANGED <<activeRequests, closeWaits, forced, idleWait, pc>>

-----------------------------------------------------------------------------
(* runRequest                                                              *)

Goto(r, where) == pc' = [pc EXCEPT ![r] = where]

(* Refused, or waiting for a start that it may itself have to ask for.     *)
RunRequest(r) ==
  /\ pc[r] = "idle"
  /\ IF state \in {"failed", "draining", "closed"}
       THEN Goto(r, "refused") /\ UNCHANGED hookVars
       ELSE /\ Goto(r, "starting")
            /\ IF state = "starting" /\ starting = "none" THEN StartHook ELSE UNCHANGED hookVars
  /\ UNCHANGED <<state, activeRequests, closeWaits, forced, idleWait>>

(* Mutant: the state is not read again after the start.                    *)
StartAwaitedUnchecked(r) ==
  /\ pc[r] = "starting"
  /\ starting = "ok"
  /\ Goto(r, "handling") /\ activeRequests' = activeRequests + 1
  /\ UNCHANGED <<state, closeWaits, forced, idleWait>>

(* start() has settled: the state may have changed since.                  *)
StartAwaited(r) ==
  /\ pc[r] = "starting"
  /\ starting \in Settled
  /\ IF state = "ready"
       THEN Goto(r, "handling") /\ activeRequests' = activeRequests + 1
       ELSE Goto(r, "refused") /\ UNCHANGED activeRequests
  /\ UNCHANGED <<state, closeWaits, forced, idleWait>>

(* Mutant: a request stops counting when its handler returns.              *)
RespondsAndFinishes(r) ==
  /\ pc[r] = "handling"
  /\ Goto(r, "streaming")
  /\ activeRequests' = activeRequests - 1
  /\ UNCHANGED <<state, closeWaits, forced, idleWait>>

Responds(r) ==
  /\ pc[r] = "handling"
  /\ Goto(r, "streaming")
  /\ UNCHANGED <<state, activeRequests, closeWaits, forced, idleWait>>

Tracked == {r \in Requests : pc[r] \in {"handling", "streaming"}}

(* Mutant: every event of the response counts.                             *)
FinishAgain(r) ==
  /\ pc[r] \in {"handling", "streaming", "ended"}
  /\ Goto(r, "ended")
  /\ activeRequests' = activeRequests - 1
  /\ UNCHANGED <<state, closeWaits, forced, idleWait>>

(* finish(): the handler threw, or the body was read to its end, failed or *)
(* was cancelled, or the Node response finished or closed.  Several of     *)
(* these may reach one response; only the first one counts.                *)
Finish(r) ==
  /\ pc[r] \in {"handling", "streaming", "ended"}
  /\ IF pc[r] = "ended"
       THEN UNCHANGED <<pc, activeRequests, idleWait>>
       ELSE /\ Goto(r, "ended")
            /\ activeRequests' = activeRequests - 1
            /\ idleWait' = IF activeRequests' = 0 /\ idleWait = "waiting" THEN "drained" ELSE idleWait
  /\ UNCHANGED <<state, closeWaits, forced>>

WaitForIdle ==
  /\ idleWait = "none"
  /\ idleWait' = IF activeRequests = 0 THEN "drained" ELSE "waiting"
  /\ UNCHANGED <<state, activeRequests, closeWaits, forced, pc>>

IdleTimeout ==
  /\ idleWait = "waiting"
  /\ idleWait' = "expired"
  /\ UNCHANGED <<state, activeRequests, closeWaits, forced, pc>>

-----------------------------------------------------------------------------
(* What waitForIdle and activeRequests report: the handlers and streams    *)
(* that are not over.                                                      *)
CountIsExact == activeRequests = Cardinality(Tracked)

(* A start hook still running when resources are closed is the exception   *)
(* forceClose makes.                                                       *)
CloseAwaitsStart ==
  closing # "none" => forced \/ starting \in {"none"} \cup Settled

=============================================================================
