----------------------------- MODULE RuntimeHooks ------------------------------
(***************************************************************************)
(* What the production runtime does around its traffic: the start hook and *)
(* the close hook the build generates (nitro/universal-build.ts), which    *)
(* run the instrumentation lifecycle (instrumentation-runtime.ts) and the  *)
(* plugin manager (plugin.ts).  Closing deliberately does not wait for the *)
(* plugins' startup, so a plugin may still be setting up, and registering  *)
(* resources to dispose, while or after the runtime is closed.             *)
(*                                                                         *)
(* A hook is code of the application: it settles at any time, fails, or    *)
(* never settles.  Its outcome is the argument ok of the action.           *)
(***************************************************************************)
EXTENDS Naturals, SequencesExt

CONSTANT Resources   \* what plugins may register with lifecycle.onShutdown

VARIABLES
  register,   \* instrumentation: the promise of register()
  flush,      \* instrumentation: shutdownPromise
  starting,   \* where the start hook is
  closing,    \* where the close hook is
  disposers,  \* runtimeDisposers
  batch,      \* the disposers taken by the drain; the last one is running
  resource,   \* what became of each resource
  closeError  \* a shutdown hook or a disposer failed

hookVars == <<register, flush, starting, closing, disposers, batch, resource, closeError>>

Promise == {"none", "pending", "ok", "failed"}
Settled == {"ok", "failed"}

HooksTypeOK ==
  /\ register \in Promise
  /\ flush \in Promise
  /\ starting \in {"none", "registering", "plugins", "rollback"} \cup Settled
  /\ closing \in {"none", "hooks", "draining", "flushing"} \cup Settled
  /\ disposers \in Seq(Resources)
  /\ batch \in Seq(Resources)
  /\ resource \in [Resources -> {"unopened", "registered", "taken", "disposed", "withdrawn"}]
  /\ closeError \in BOOLEAN

HooksInit ==
  /\ register = "none" /\ flush = "none"
  /\ starting = "none" /\ closing = "none"
  /\ disposers = <<>>  /\ batch = <<>>
  /\ resource = [r \in Resources |-> "unopened"]
  /\ closeError = FALSE

Outcome(ok) == IF ok THEN "ok" ELSE "failed"

(* closeRuntime sets runtimeClosed when the drain ends.                    *)
runtimeClosed == closing \in {"flushing"} \cup Settled

(* shutdown() of the instrumentation is memoised.                          *)
Shutdown == flush' = IF flush = "none" THEN "pending" ELSE flush

-----------------------------------------------------------------------------
(* The start hook                                                          *)

StartHook ==
  /\ starting = "none"
  /\ starting' = "registering"
  /\ register' = "pending"
  /\ UNCHANGED <<flush, closing, disposers, batch, resource, closeError>>

(* A failing register() fails the start hook: nothing is rolled back.      *)
Registered(ok) ==
  /\ register = "pending"
  /\ register' = Outcome(ok)
  /\ starting' = IF ok THEN "plugins" ELSE "failed"
  /\ UNCHANGED <<flush, closing, disposers, batch, resource, closeError>>

PluginsStarted ==
  /\ starting = "plugins"
  /\ starting' = "ok"
  /\ UNCHANGED <<register, flush, closing, disposers, batch, resource, closeError>>

(* A failing setup or ready hook shuts the instrumentation down first.     *)
PluginsFailed ==
  /\ starting = "plugins"
  /\ starting' = "rollback"
  /\ Shutdown
  /\ UNCHANGED <<register, closing, disposers, batch, resource, closeError>>

RolledBack ==
  /\ starting = "rollback"
  /\ flush \in Settled
  /\ starting' = "failed"
  /\ UNCHANGED <<register, flush, closing, disposers, batch, resource, closeError>>

-----------------------------------------------------------------------------
(* Resources                                                               *)

(* lifecycle.onShutdown, by code of a plugin whose setup has begun: once   *)
(* the runtime is closed the resource is disposed of on the spot.          *)
OnShutdown(r) ==
  /\ starting \notin {"none", "registering"} /\ register = "ok"
  /\ resource[r] = "unopened"
  /\ IF runtimeClosed
       THEN /\ resource' = [resource EXCEPT ![r] = "disposed"]
            /\ UNCHANGED disposers
       ELSE /\ resource' = [resource EXCEPT ![r] = "registered"]
            /\ disposers' = Append(disposers, r)
  /\ UNCHANGED <<register, flush, starting, closing, batch, closeError>>

(* The function onShutdown returns: it finds nothing to withdraw once the  *)
(* drain has taken the disposer.                                           *)
Withdraw(r) ==
  /\ resource[r] = "registered"
  /\ \E i \in 1..Len(disposers) : disposers[i] = r /\ disposers' = RemoveAt(disposers, i)
  /\ resource' = [resource EXCEPT ![r] = "withdrawn"]
  /\ UNCHANGED <<register, flush, starting, closing, batch, closeError>>

-----------------------------------------------------------------------------
(* The close hook                                                          *)

CloseHook ==
  /\ closing = "none"
  /\ closing' = "hooks"
  /\ UNCHANGED <<register, flush, starting, disposers, batch, resource, closeError>>

(* The shutdown hooks of every plugin have run, whichever of them failed.  *)
ShutdownHooksRan(ok) ==
  /\ closing = "hooks"
  /\ closing' = "draining"
  /\ closeError' = ~ok
  /\ UNCHANGED <<register, flush, starting, disposers, batch, resource>>

TakeBatch ==
  /\ closing = "draining" /\ batch = <<>> /\ disposers # <<>>
  /\ batch' = disposers
  /\ disposers' = <<>>
  /\ resource' = [r \in Resources |-> IF resource[r] = "registered" THEN "taken" ELSE resource[r]]
  /\ UNCHANGED <<register, flush, starting, closing, closeError>>

Disposed(ok) ==
  /\ closing = "draining" /\ batch # <<>>
  /\ resource' = [resource EXCEPT ![batch[Len(batch)]] = "disposed"]
  /\ batch' = SubSeq(batch, 1, Len(batch) - 1)
  /\ closeError' = (closeError \/ ~ok)
  /\ UNCHANGED <<register, flush, starting, closing, disposers>>

(* Mutant: the list is drained once.                                       *)
DrainedOnce ==
  /\ closing = "draining" /\ batch = <<>>
  /\ disposers = <<>> \/ \E r \in Resources : resource[r] = "disposed"
  /\ closing' = "flushing"
  /\ Shutdown
  /\ UNCHANGED <<register, starting, disposers, batch, resource, closeError>>

(* Nothing is left to dispose of: the instrumentation is flushed last.     *)
Drained ==
  /\ closing = "draining" /\ batch = <<>> /\ disposers = <<>>
  /\ closing' = "flushing"
  /\ Shutdown
  /\ UNCHANGED <<register, starting, disposers, batch, resource, closeError>>

(* The instrumentation waits for its own register() before it cleans up.   *)
Flushed(ok) ==
  /\ flush = "pending" /\ register # "pending"
  /\ flush' = Outcome(ok)
  /\ UNCHANGED <<register, starting, closing, disposers, batch, resource, closeError>>

Closed ==
  /\ closing = "flushing" /\ flush \in Settled
  /\ closing' = Outcome(flush = "ok" /\ ~closeError)
  /\ UNCHANGED <<register, flush, starting, disposers, batch, resource, closeError>>

-----------------------------------------------------------------------------
(* plugin.ts promises that what a plugin registers, however late, is       *)
(* released by the close: a resource waits for its disposer only in the    *)
(* list or in the batch of a drain that is not over.                       *)
NothingStranded ==
  \A r \in Resources :
    resource[r] \in {"registered", "taken"} =>
      /\ ~runtimeClosed
      /\ resource[r] = "registered" => \E i \in 1..Len(disposers) : disposers[i] = r
      /\ resource[r] = "taken" => \E i \in 1..Len(batch) : batch[i] = r

=============================================================================
