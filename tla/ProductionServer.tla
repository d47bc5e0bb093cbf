--------------------------- MODULE ProductionServer ----------------------------
(***************************************************************************)
(* The production server: the lifecycle, its hooks and the queues of       *)
(* post-response work under the entry that owns the process                *)
(* (nitro/node-server-entry.ts), or under a host that only forwards        *)
(* requests and may run Nitro's close hook (nitro/universal-build.ts).     *)
(*                                                                         *)
(* The HTTP adapter (srvx, Nitro) is external: server.close() refuses new  *)
(* connections and, when the open ones have ended, calls the close hook;   *)
(* an open connection may still bring a request.  A client may disconnect  *)
(* while its request is handled: the handler runs on, uncounted by the     *)
(* adapter.                                                                *)
(***************************************************************************)
EXTENDS ProductionLifecycle

VARIABLES
  boot,      \* where the entry is; "hosted" without an entry
  shutdown,  \* where shutdown(signal) is
  exit,      \* how the process ended
  gone       \* the requests whose client has disconnected

entryVars == <<boot, shutdown, exit>>
vars == <<hookVars, afterVars, lifecycleVars, entryVars, gone>>

TypeOK ==
  /\ HooksTypeOK /\ AfterTypeOK /\ LifecycleTypeOK
  /\ boot \in {"hosted", "booting", "interrupted", "closing", "forcing", "failing",
               "listening", "up", "unbound"}
  /\ shutdown \in {"none", "draining", "cleaning", "forced"}
  /\ exit \in {"running", "success", "failure"}
  /\ gone \subseteq Requests

Init ==
  /\ HooksInit /\ AfterInit /\ LifecycleInit
  /\ boot \in {"hosted", "booting"}
  /\ shutdown = "none"
  /\ exit = "running"
  /\ gone = {}

Exit(ok) == exit' = IF ok THEN "success" ELSE "failure"

-----------------------------------------------------------------------------
(* Startup.  The listeners for a signal during startup are installed       *)
(* before start() is called.                                               *)

CallStart ==
  /\ Start
  /\ UNCHANGED <<afterVars, entryVars, gone>>

Interrupt ==
  /\ boot = "booting" /\ starting \notin {"none", "failed"}
  /\ boot' = "interrupted"
  /\ BeginDrain
  /\ UNCHANGED <<hookVars, afterVars, activeRequests, closeWaits, forced, idleWait, pc, shutdown, exit, gone>>

(* Any of the four places that call close() on the lifecycle.              *)
CallClose(from, to) ==
  /\ boot = from
  /\ boot' = to
  /\ Close
  /\ UNCHANGED <<hookVars, afterVars, activeRequests, forced, idleWait, pc, shutdown, exit, gone>>

StartupFails == starting = "failed" /\ CallClose("booting", "failing")
StartupClose == CallClose("interrupted", "closing")
ListenFails  == CallClose("listening", "unbound")
HostCloses   == CallClose("hosted", "hosted")

(* Only tests and hosts wait for the lifecycle to be idle.                 *)
HostWaits ==
  /\ boot = "hosted"
  /\ WaitForIdle \/ IdleTimeout
  /\ UNCHANGED <<hookVars, afterVars, entryVars, gone>>

StartupEnds ==
  /\ boot = "booting" /\ starting = "ok"
  /\ boot' = "listening"
  /\ UNCHANGED <<hookVars, afterVars, lifecycleVars, shutdown, exit, gone>>

Listens ==
  /\ boot = "listening"
  /\ boot' = "up"
  /\ UNCHANGED <<hookVars, afterVars, lifecycleVars, shutdown, exit, gone>>

StartupCloseTimeout ==
  /\ boot = "closing" /\ closing \notin Settled
  /\ boot' = "forcing"
  /\ ForceClose
  /\ UNCHANGED <<afterVars, shutdown, exit, gone>>

(* The exit after an interrupted startup: cleanup is over, or its second   *)
(* timer has expired.                                                      *)
StartupExit ==
  /\ (boot = "closing" /\ closing \in Settled) \/ boot = "forcing"
  /\ Exit(closing = "ok")
  /\ UNCHANGED <<hookVars, afterVars, lifecycleVars, boot, shutdown, gone>>

(* The module throws after close() has settled, without a timer.           *)
FailedExit ==
  /\ boot \in {"failing", "unbound"}
  /\ closing \in Settled
  /\ Exit(FALSE)
  /\ UNCHANGED <<hookVars, afterVars, lifecycleVars, boot, shutdown, gone>>

-----------------------------------------------------------------------------
(* shutdown(signal), once                                                  *)

(* Mutant: the signal closes the lifecycle before the adapter has drained. *)
SignalCloses ==
  /\ boot \in {"listening", "up", "unbound"} /\ shutdown = "none"
  /\ shutdown' = "draining"
  /\ Close
  /\ UNCHANGED <<hookVars, afterVars, activeRequests, forced, idleWait, pc, boot, exit, gone>>

Signal ==
  /\ boot \in {"listening", "up", "unbound"} /\ shutdown = "none"
  /\ shutdown' = "draining"
  /\ BeginDrain
  /\ UNCHANGED <<hookVars, afterVars, activeRequests, closeWaits, forced, idleWait, pc, boot, exit, gone>>

Connected == {r \in Requests \ gone : pc[r] \in {"starting", "handling", "streaming"}}

(* server.close(): the connections have ended, the close hook is called.   *)
AdapterDrained ==
  /\ shutdown = "draining"
  /\ Connected = {}
  /\ shutdown' = "cleaning"
  /\ Close
  /\ UNCHANGED <<hookVars, afterVars, activeRequests, forced, idleWait, pc, boot, exit, gone>>

DrainTimeout ==
  /\ shutdown = "draining" \/ (shutdown = "cleaning" /\ closing \notin Settled)
  /\ shutdown' = "forced"
  /\ ForceClose
  /\ UNCHANGED <<afterVars, boot, exit, gone>>

(* Mutants: the exit code ignores a failed cleanup; a forced close has no  *)
(* timer.                                                                  *)
ShutdownExitsZero ==
  /\ (shutdown = "cleaning" /\ closing \in Settled) \/ shutdown = "forced"
  /\ Exit(boot # "unbound")
  /\ UNCHANGED <<hookVars, afterVars, lifecycleVars, boot, shutdown, gone>>

ShutdownExitAwaitsClose ==
  /\ shutdown \in {"cleaning", "forced"} /\ closing \in Settled
  /\ Exit(closing = "ok" /\ boot # "unbound")
  /\ UNCHANGED <<hookVars, afterVars, lifecycleVars, boot, shutdown, gone>>

ShutdownExit ==
  /\ (shutdown = "cleaning" /\ closing \in Settled) \/ shutdown = "forced"
  /\ Exit(closing = "ok" /\ boot # "unbound")
  /\ UNCHANGED <<hookVars, afterVars, lifecycleVars, boot, shutdown, gone>>

-----------------------------------------------------------------------------
(* Requests                                                                *)

Arrives(r) ==
  /\ boot \in {"hosted", "up"} /\ shutdown \in {"none", "draining"}
  /\ RunRequest(r)
  /\ UNCHANGED <<afterVars, entryVars, gone>>

Proceeds(r) ==
  /\ StartAwaited(r) \/ Responds(r) \/ Finish(r)
  /\ UNCHANGED <<hookVars, afterVars, entryVars, gone>>

Disconnects(r) ==
  /\ pc[r] \in {"handling", "streaming"} /\ r \notin gone
  /\ gone' = gone \cup {r}
  /\ UNCHANGED <<hookVars, afterVars, lifecycleVars, entryVars>>

(* after() outside a request throws.  The queue drains when the response   *)
(* has finished, or when the client has gone and the handler still runs.   *)
AfterStep(r) ==
  /\ \/ pc[r] \in {"handling", "streaming"} /\ After(r)
     \/ busy[r] /\ After(r)
     \/ (pc[r] = "ended" \/ r \in gone) /\ BeginTasks(r)
     \/ NextTask(r)
     \/ TaskSettles(r)
  /\ UNCHANGED <<hookVars, lifecycleVars, entryVars, gone>>

-----------------------------------------------------------------------------
(* The hooks                                                               *)

HookSettles ==
  /\ StartFulfilled \/ StartRejected \/ ResourcesClosed
  /\ UNCHANGED <<afterVars, entryVars, gone>>

HookStep ==
  /\ \/ Registered(TRUE) \/ PluginsFailed
     \/ \E r \in Resources : OnShutdown(r) \/ Withdraw(r)
     \/ TakeBatch \/ Drained
     \/ \E ok \in BOOLEAN : ShutdownHooksRan(ok) \/ Disposed(ok) \/ Flushed(ok)
  /\ UNCHANGED <<afterVars, lifecycleVars, entryVars, gone>>

CallCloseResources ==
  /\ CloseResources
  /\ UNCHANGED <<afterVars, entryVars, gone>>

-----------------------------------------------------------------------------
(* The process runs until it exits.                                        *)
Next ==
  /\ exit = "running"
  /\ \/ CallStart \/ Interrupt \/ StartupFails \/ StartupClose \/ StartupEnds
     \/ Listens \/ ListenFails \/ HostCloses \/ HostWaits
     \/ StartupCloseTimeout \/ StartupExit \/ FailedExit
     \/ Signal \/ AdapterDrained \/ DrainTimeout \/ ShutdownExit
     \/ HookSettles \/ HookStep \/ CallCloseResources
     \/ \E r \in Requests : Arrives(r) \/ Proceeds(r) \/ Disconnects(r) \/ AfterStep(r)

(* The continuations of the entry run and its timers fire: nothing is      *)
(* assumed of hooks, handlers, clients or callbacks.                       *)
Running(A) == exit = "running" /\ A

Fairness ==
  /\ WF_vars(Running(StartupClose))
  /\ WF_vars(Running(StartupCloseTimeout))
  /\ WF_vars(Running(StartupExit))
  /\ WF_vars(Running(DrainTimeout))
  /\ WF_vars(Running(ShutdownExit))

Spec == Init /\ [][Next]_vars /\ Fairness

-----------------------------------------------------------------------------
(* Properties                                                              *)

(* Once a signal has been handled, or close() called, no handler begins:   *)
(* not for a new request, nor for one that was waiting for the start.      *)
NoHandlerWhileDraining ==
  [][\A r \in Requests :
       pc'[r] = "handling" /\ pc[r] # "handling" =>
         shutdown = "none" /\ boot \in {"hosted", "up"} /\ ~closeWaits /\ closing = "none"]_vars

Rank == [starting |-> 0, ready |-> 1, draining |-> 2, failed |-> 3, closed |-> 4]

(* Readiness never comes back: a start that completes, or fails, after a   *)
(* shutdown has begun or ended leaves its mark nowhere.                    *)
NeverBack == [][Rank[state'] >= Rank[state]]_vars

(* Cleanup begins when every response of a client that stayed is over,     *)
(* unless the drain has timed out.                                         *)
CleanupAfterDrain ==
  boot # "hosted" /\ closing # "none" /\ ~forced => Connected = {}

(* A process that reports success has cleaned up to the end: every shutdown *)
(* hook and disposer has run, none failed, and no resource is left open.   *)
SuccessMeansClean ==
  exit = "success" =>
    /\ closing = "ok" /\ flush = "ok" /\ ~closeError
    /\ \A r \in Resources : resource[r] \in {"unopened", "disposed", "withdrawn"}

(* Every callback after() accepted has run when the queue of its request   *)
(* closes, the ones other callbacks added included, and none runs before   *)
(* the response is over or its client gone.                                *)
CallbacksAllRun ==
  \A r \in Requests :
    /\ phase[r] = "closed" => index[r] = tasks[r] /\ ~busy[r]
    /\ phase[r] # "open" => pc[r] = "ended" \/ r \in gone

(* A signal ends the process, whatever hangs: the start or close hook, a   *)
(* disposer, a handler, a stream.                                          *)
SignalEndsProcess ==
  (boot = "interrupted" \/ shutdown # "none") ~> (exit # "running")

(* The phase of the shutdown, read off the state and the close hook.       *)
PhaseOfShutdown ==
  CASE closing = "ok"     -> "clean"
    [] closing = "failed" -> "dirty"
    [] closing = "none"   -> IF state \in {"starting", "ready"} THEN "open" ELSE "draining"
    [] OTHER              -> "cleaning"

Promised == INSTANCE GracefulShutdown WITH
  patient <- boot # "hosted",
  booting <- starting \in {"registering", "plugins", "rollback"},
  phase   <- PhaseOfShutdown,
  serving <- Tracked \ gone,
  held    <- {x \in Resources : resource[x] \in {"registered", "taken"}}

(* Signals, timers, hooks and late resources together are a shutdown in    *)
(* order: no step of any of them reopens the server, cleans up early or    *)
(* twice, ends the cleanup with a resource held, or reports what is not so. *)
ImplementsGracefulShutdown == Promised!ShutdownSpec

=============================================================================
