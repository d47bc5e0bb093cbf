------------------------ MODULE ProductionServerProofs -------------------------
(***************************************************************************)
(* Proofs about ProductionServer, for any finite set of requests and any   *)
(* resources.  The invariant has four parts: what the hooks keep among     *)
(* themselves, what the queues of after() keep, how the lifecycle, the     *)
(* entry and the requests go together, and the count of requests.          *)
(***************************************************************************)
EXTENDS ProductionServer, FiniteSetTheorems, TLAPS

-----------------------------------------------------------------------------
(* The hooks                                                               *)

HookNext ==
  \/ StartHook \/ PluginsStarted \/ PluginsFailed \/ RolledBack
  \/ CloseHook \/ TakeBatch \/ Drained \/ Closed
  \/ \E ok \in BOOLEAN : Registered(ok) \/ ShutdownHooksRan(ok) \/ Disposed(ok) \/ Flushed(ok)
  \/ \E r \in Resources : OnShutdown(r) \/ Withdraw(r)

(* A drain that is over has left neither list with anything in it, and a   *)
(* close hook that succeeded has flushed and met no error.                 *)
HookInv ==
  /\ HooksTypeOK
  /\ NothingStranded
  /\ batch # <<>> => closing = "draining"
  /\ runtimeClosed => disposers = <<>>
  /\ register = "pending" => starting = "registering"
  /\ closing = "ok" => flush = "ok" /\ ~closeError

(* Every step of the server is a step of the hooks or leaves them alone.   *)
LEMMA HookMoves ==
  ASSUME [Next]_vars
  PROVE  HookNext \/ UNCHANGED hookVars
<1>1. ASSUME HookSettles PROVE HookNext
  BY <1>1 DEF HookSettles, HookNext, StartFulfilled, StartRejected, ResourcesClosed
<1>2. ASSUME HookStep PROVE HookNext
  BY <1>2 DEF HookStep, HookNext
<1>3. ASSUME NEW r \in Requests, Arrives(r) PROVE HookNext \/ UNCHANGED hookVars
  BY <1>3 DEF Arrives, RunRequest, HookNext
<1>4. ASSUME CallCloseResources \/ StartupCloseTimeout \/ DrainTimeout \/ CallStart
      PROVE  HookNext \/ UNCHANGED hookVars
  BY <1>4 DEF CallCloseResources, CloseResources, StartupCloseTimeout, DrainTimeout, ForceClose,
              CallStart, Start, HookNext
<1>5. ASSUME Interrupt \/ StartupFails \/ StartupClose \/ StartupEnds \/ Listens \/ ListenFails
               \/ HostCloses \/ HostWaits \/ StartupExit \/ FailedExit
               \/ Signal \/ AdapterDrained \/ ShutdownExit
      PROVE  UNCHANGED hookVars
  BY <1>5 DEF Interrupt, StartupFails, StartupClose, StartupEnds, Listens, ListenFails,
              HostCloses, HostWaits, StartupExit, FailedExit, CallClose,
              Signal, AdapterDrained, ShutdownExit
<1>6. ASSUME NEW r \in Requests, Proceeds(r) \/ Disconnects(r) \/ AfterStep(r)
      PROVE  UNCHANGED hookVars
  BY <1>6 DEF Proceeds, Disconnects, AfterStep
<1>7. ASSUME UNCHANGED vars PROVE UNCHANGED hookVars
  BY <1>7 DEF vars
<1>8. QED
  BY <1>1, <1>2, <1>3, <1>4, <1>5, <1>6, <1>7 DEF Next

(* What splice(i, 1) leaves: a sequence of the same elements but the       *)
(* i-th.                                                                   *)
LEMMA RemoveAtType ==
  ASSUME NEW S, NEW s \in Seq(S), NEW i \in 1..Len(s)
  PROVE  /\ RemoveAt(s, i) \in Seq(S)
         /\ \A j \in 1..Len(s) : j # i => \E k \in 1..Len(RemoveAt(s, i)) : RemoveAt(s, i)[k] = s[j]
<1>0. Len(s) \in Nat /\ i \in Nat /\ 1 <= i /\ i <= Len(s)
  OBVIOUS
<1>1. PICK before \in Seq(S) :
        /\ before = SubSeq(s, 1, i - 1)
        /\ Len(before) = i - 1
        /\ \A k \in 1..(i - 1) : before[k] = s[k]
  <2>1. /\ SubSeq(s, 1, i - 1) \in Seq(S)
        /\ Len(SubSeq(s, 1, i - 1)) = i - 1
        /\ \A k \in 1..(i - 1) : SubSeq(s, 1, i - 1)[k] = s[k]
    OBVIOUS
  <2>2. QED
    BY <2>1, Zenon
<1>2. PICK rest \in Seq(S) :
        /\ rest = SubSeq(s, i + 1, Len(s))
        /\ Len(rest) = Len(s) - i
        /\ \A k \in 1..(Len(s) - i) : rest[k] = s[i + k]
  <2>1. /\ SubSeq(s, i + 1, Len(s)) \in Seq(S)
        /\ Len(SubSeq(s, i + 1, Len(s))) = Len(s) - i
        /\ \A k \in 1..(Len(s) - i) : SubSeq(s, i + 1, Len(s))[k] = s[i + k]
    OBVIOUS
  <2>2. QED
    BY <2>1, Zenon
<1>3. /\ before \o rest \in Seq(S)
      /\ Len(before \o rest) = Len(before) + Len(rest)
      /\ \A k \in 1..Len(before) : (before \o rest)[k] = before[k]
      /\ \A k \in 1..Len(rest) : (before \o rest)[Len(before) + k] = rest[k]
  OBVIOUS
<1>4. Len(before) = i - 1 /\ Len(rest) = Len(s) - i /\ Len(before \o rest) = Len(s) - 1
  <2>1. Len(before) = i - 1 /\ Len(rest) = Len(s) - i /\ Len(before \o rest) = Len(before) + Len(rest)
    BY <1>1, <1>2, <1>3, Zenon
  <2>2. QED
    BY <1>0, <2>1
<1>5. ASSUME NEW j \in 1..Len(s), j # i
      PROVE  \E k \in 1..Len(before \o rest) : (before \o rest)[k] = s[j]
  <2>0. j \in Nat
    BY <1>0
  <2>1. CASE j < i
    <3>1. j \in 1..Len(before) /\ j \in 1..Len(before \o rest)
      BY <1>0, <1>4, <2>0, <2>1
    <3>2. (before \o rest)[j] = s[j]
      BY <3>1, <1>1, <1>3
    <3>3. QED
      BY <3>1, <3>2
  <2>2. CASE j > i
    <3>1. j - i \in 1..Len(rest) /\ j - 1 \in 1..Len(before \o rest)
      BY <1>0, <1>4, <2>0, <2>2
    <3>2. (before \o rest)[Len(before) + (j - i)] = rest[j - i]
      BY <3>1, <1>3
    <3>3. Len(before) + (j - i) = j - 1 /\ i + (j - i) = j
      BY <1>0, <1>4, <2>0
    <3>4. rest[j - i] = s[j]
      BY <3>1, <3>3, <1>2
    <3>5. QED
      BY <3>1, <3>2, <3>3, <3>4
  <2>3. QED
    BY <1>0, <2>0, <2>1, <2>2, <1>5
<1>6. QED
  BY <1>1, <1>2, <1>3, <1>5 DEF RemoveAt

(* What is left of a batch when its last resource has been disposed of.    *)
LEMMA DropLastType ==
  ASSUME NEW S, NEW s \in Seq(S), s # <<>>
  PROVE  /\ Len(s) \in 1..Len(s) /\ s[Len(s)] \in S
         /\ SubSeq(s, 1, Len(s) - 1) \in Seq(S)
         /\ Len(SubSeq(s, 1, Len(s) - 1)) = Len(s) - 1
         /\ \A k \in 1..(Len(s) - 1) : SubSeq(s, 1, Len(s) - 1)[k] = s[k]
<1>1. Len(s) \in 1..Len(s) /\ s[Len(s)] \in S
  OBVIOUS
<1>2. ASSUME NEW i \in 1..Len(s)
      PROVE  /\ SubSeq(s, 1, i - 1) \in Seq(S)
             /\ Len(SubSeq(s, 1, i - 1)) = i - 1
             /\ \A k \in 1..(i - 1) : SubSeq(s, 1, i - 1)[k] = s[k]
  OBVIOUS
<1>3. QED
  BY <1>1, <1>2, Zenon

(* The hooks begin with nothing registered.                                *)
LEMMA HookInvInit == HooksInit => HookInv
<1> SUFFICES ASSUME HooksInit PROVE HookInv
  OBVIOUS
<1>1. <<>> \in Seq(Resources)
  OBVIOUS
<1>2. HooksTypeOK
  BY <1>1 DEF HooksInit, HooksTypeOK, Promise, Settled
<1>3. QED
  BY <1>2 DEF HooksInit, HookInv, Settled, NothingStranded, runtimeClosed

(* A registration, a withdrawal, a disposal or a settled hook strands no   *)
(* resource.                                                               *)
LEMMA HookInvStep ==
  ASSUME HookInv, HookNext \/ UNCHANGED hookVars
  PROVE  HookInv'
<1> USE DEF HookInv, HooksTypeOK, Promise, Settled, NothingStranded, runtimeClosed
<1>1. CASE StartHook \/ PluginsStarted \/ PluginsFailed \/ RolledBack \/ UNCHANGED hookVars
  BY <1>1 DEF StartHook, PluginsStarted, PluginsFailed, RolledBack, Shutdown, hookVars
<1>2. ASSUME NEW ok \in BOOLEAN, Registered(ok) \/ ShutdownHooksRan(ok) \/ Flushed(ok)
      PROVE  HookInv'
  <2>1. CASE Registered(ok)
    BY <2>1 DEF Registered, Outcome
  <2>2. CASE ShutdownHooksRan(ok)
    <3>1. closeError' \in BOOLEAN
      BY <2>2, Zenon DEF ShutdownHooksRan
    <3>2. QED
      BY <2>2, <3>1 DEF ShutdownHooksRan
  <2>3. CASE Flushed(ok)
    BY <2>3 DEF Flushed, Outcome
  <2>4. QED
    BY <1>2, <2>1, <2>2, <2>3
<1>3. CASE CloseHook \/ Drained \/ Closed
  BY <1>3 DEF CloseHook, Drained, Closed, Shutdown, Outcome
<1>4. CASE TakeBatch
  BY <1>4 DEF TakeBatch
<1>5. ASSUME NEW ok \in BOOLEAN, Disposed(ok) PROVE HookInv'
  <2> DEFINE n == Len(batch)
  <2>1. /\ closing = "draining" /\ batch # <<>> /\ batch \in Seq(Resources)
        /\ UNCHANGED <<register, flush, starting, closing, disposers>>
        /\ resource' = [resource EXCEPT ![batch[n]] = "disposed"]
        /\ batch' = SubSeq(batch, 1, n - 1)
        /\ closeError' \in BOOLEAN
    BY <1>5 DEF Disposed
  <2>2. n \in Nat /\ n >= 1 /\ batch[n] \in Resources
    BY <2>1
  <2>3. batch' \in Seq(Resources) /\ Len(batch') = n - 1 /\ \A k \in 1..(n - 1) : batch'[k] = batch[k]
    BY <2>1, DropLastType
  <2>4. HooksTypeOK'
    BY <2>1, <2>2, <2>3
  <2>5. ASSUME NEW r \in Resources, resource'[r] = "registered"
        PROVE  \E i \in 1..Len(disposers') : disposers'[i] = r
    BY <2>1, <2>2, <2>5
  <2>6. ASSUME NEW r \in Resources, resource'[r] = "taken"
        PROVE  \E i \in 1..Len(batch') : batch'[i] = r
    <3>1. resource[r] = "taken" /\ r # batch[n]
      BY <2>1, <2>2, <2>6
    <3>2. PICK i \in 1..n : batch[i] = r
      BY <3>1
    <3>3. i \in 1..(n - 1)
      BY <3>1, <3>2, <2>2
    <3>4. QED
      BY <3>2, <3>3, <2>3
  <2>7. QED
    BY <2>1, <2>4, <2>5, <2>6
<1>6. ASSUME NEW r \in Resources, OnShutdown(r) PROVE HookInv'
  <2>1. CASE runtimeClosed
    BY <1>6, <2>1 DEF OnShutdown
  <2>2. CASE ~runtimeClosed
    <3>1. /\ disposers' = Append(disposers, r)
          /\ resource' = [resource EXCEPT ![r] = "registered"]
          /\ UNCHANGED <<register, flush, starting, closing, batch, closeError>>
      BY <1>6, <2>2 DEF OnShutdown
    <3>2. /\ disposers' \in Seq(Resources) /\ Len(disposers') = Len(disposers) + 1
          /\ disposers'[Len(disposers) + 1] = r
          /\ \A i \in 1..Len(disposers) : disposers'[i] = disposers[i]
      BY <3>1
    <3>3. HooksTypeOK'
      BY <3>1, <3>2
    <3>4. NothingStranded'
      BY <3>1, <3>2, <2>2
    <3>5. QED
      BY <3>1, <3>3, <3>4, <2>2
  <2>3. QED
    BY <2>1, <2>2
<1>7. ASSUME NEW r \in Resources, Withdraw(r) PROVE HookInv'
  <2>1. PICK i \in 1..Len(disposers) : disposers[i] = r /\ disposers' = RemoveAt(disposers, i)
    BY <1>7 DEF Withdraw
  <2>2. /\ resource[r] = "registered" /\ resource' = [resource EXCEPT ![r] = "withdrawn"]
        /\ UNCHANGED <<register, flush, starting, closing, batch, closeError>>
    BY <1>7 DEF Withdraw
  <2>3. /\ disposers' \in Seq(Resources)
        /\ \A j \in 1..Len(disposers) : j # i => \E k \in 1..Len(disposers') : disposers'[k] = disposers[j]
    BY <2>1, RemoveAtType
  <2>4. HooksTypeOK'
    BY <2>2, <2>3
  <2>5. ASSUME NEW q \in Resources, resource'[q] = "registered"
        PROVE  \E k \in 1..Len(disposers') : disposers'[k] = q
    <3>1. q # r /\ resource[q] = "registered"
      BY <2>2, <2>5
    <3>2. PICK j \in 1..Len(disposers) : disposers[j] = q
      BY <3>1
    <3>3. j # i
      BY <2>1, <3>1, <3>2
    <3>4. QED
      BY <2>3, <3>2, <3>3
  <2>6. QED
    BY <2>2, <2>4, <2>5
<1>8. QED
  BY <1>1, <1>2, <1>3, <1>4, <1>5, <1>6, <1>7 DEF HookNext

-----------------------------------------------------------------------------
(* The queues of after()                                                   *)

AfterInv ==
  /\ AfterTypeOK
  /\ \A r \in Requests :
       /\ index[r] <= tasks[r]
       /\ busy[r] => phase[r] = "running"
       /\ phase[r] = "closed" => index[r] = tasks[r]

(* Every step of the server is a step of one after() queue or leaves them  *)
(* alone.                                                                  *)
LEMMA AfterMoves ==
  ASSUME [Next]_vars
  PROVE  \/ \E r \in Requests : After(r) \/ BeginTasks(r) \/ NextTask(r) \/ TaskSettles(r)
         \/ UNCHANGED afterVars
<1>1. ASSUME NEW r \in Requests, Arrives(r) \/ Proceeds(r) \/ Disconnects(r) PROVE UNCHANGED afterVars
  BY <1>1 DEF Arrives, Proceeds, Disconnects
<1>2. ASSUME CallStart \/ Interrupt \/ StartupFails \/ StartupClose \/ StartupEnds \/ Listens
               \/ ListenFails \/ HostCloses \/ HostWaits \/ StartupCloseTimeout \/ StartupExit
               \/ FailedExit \/ Signal \/ AdapterDrained \/ DrainTimeout \/ ShutdownExit
               \/ HookSettles \/ HookStep \/ CallCloseResources
      PROVE  UNCHANGED afterVars
  BY <1>2 DEF CallStart, Interrupt, StartupFails, StartupClose, StartupEnds, Listens, ListenFails,
              HostCloses, HostWaits, StartupCloseTimeout, StartupExit, FailedExit, CallClose,
              Signal, AdapterDrained, DrainTimeout, ShutdownExit, HookSettles, HookStep,
              CallCloseResources
<1>3. QED
  BY <1>1, <1>2 DEF Next, vars, AfterStep

(* A queue closes only when its list is exhausted, whoever registers       *)
(* meanwhile.                                                              *)
LEMMA AfterInvStep ==
  ASSUME AfterInv, [Next]_vars
  PROVE  AfterInv'
<1> USE DEF AfterInv, AfterTypeOK
<1>1. CASE UNCHANGED afterVars
  BY <1>1 DEF afterVars
<1>2. ASSUME NEW r \in Requests, After(r) PROVE AfterInv'
  BY <1>2 DEF After
<1>3. ASSUME NEW r \in Requests, BeginTasks(r) PROVE AfterInv'
  BY <1>3 DEF BeginTasks
<1>4. ASSUME NEW r \in Requests, NextTask(r) PROVE AfterInv'
  <2>1. CASE index[r] < tasks[r]
    <3>1. /\ phase[r] = "running"
          /\ index' = [index EXCEPT ![r] = index[r] + 1]
          /\ busy' = [busy EXCEPT ![r] = TRUE]
          /\ UNCHANGED <<phase, tasks>>
      BY <1>4, <2>1 DEF NextTask
    <3>2. busy' \in [Requests -> BOOLEAN] /\ \A q \in Requests : q # r => busy'[q] = busy[q]
      BY <3>1
    <3>3. AfterTypeOK'
      BY <3>1, <3>2
    <3>4. QED
      BY <3>1, <3>2, <3>3, <2>1
  <2>2. CASE ~(index[r] < tasks[r])
    BY <1>4, <2>2 DEF NextTask
  <2>3. QED
    BY <2>1, <2>2
<1>5. ASSUME NEW r \in Requests, TaskSettles(r) PROVE AfterInv'
  BY <1>5 DEF TaskSettles
<1>6. QED
  BY <1>1, <1>2, <1>3, <1>4, <1>5, AfterMoves

-----------------------------------------------------------------------------
(* The lifecycle, the entry and the requests                               *)

EntryTypeOK ==
  /\ state \in {"starting", "ready", "draining", "failed", "closed"}
  /\ closeWaits \in BOOLEAN
  /\ forced \in BOOLEAN
  /\ idleWait \in {"none", "waiting", "drained", "expired"}
  /\ pc \in [Requests -> {"idle", "starting", "handling", "streaming", "ended", "refused"}]
  /\ boot \in {"hosted", "booting", "interrupted", "closing", "forcing", "failing",
               "listening", "up", "unbound"}
  /\ shutdown \in {"none", "draining", "cleaning", "forced"}
  /\ exit \in {"running", "success", "failure"}
  /\ gone \subseteq Requests

(* A request that waits for the start, or is handled, and whose client is  *)
(* still there.                                                            *)
Waiting(r) == r \notin gone /\ pc[r] \in {"starting", "handling", "streaming"}

EntryInv ==
  /\ EntryTypeOK
  /\ closeWaits \/ forced \/ closing # "none" \/ shutdown # "none" => state \notin {"starting", "ready"}
  /\ CloseAwaitsStart
  /\ exit = "success" => closing = "ok"
  /\ \A r \in Requests :
       /\ pc[r] # "idle" => boot \in {"hosted", "up"}
       /\ boot # "hosted" /\ (closeWaits \/ closing # "none") /\ ~forced => ~Waiting(r)
       /\ phase[r] # "open" => pc[r] = "ended" \/ r \in gone

(* Under any step, an unforced close finds no response of a client that    *)
(* stayed, and readiness is gone as soon as anything closes.               *)
LEMMA EntryInvStep ==
  ASSUME HookInv, AfterInv, EntryInv, [Next]_vars
  PROVE  EntryInv'
<1> USE DEF EntryInv, EntryTypeOK, CloseAwaitsStart, Waiting, Settled
<1>1. CASE CallStart
  BY <1>1 DEF CallStart, Start, StartHook, lifecycleVars, entryVars, afterVars
<1>2. CASE Interrupt
  BY <1>2 DEF Interrupt, BeginDrain, StateAfterDrain, hookVars, afterVars
<1>3. ASSUME NEW from, NEW to \in {"failing", "closing", "unbound", "hosted"}, CallClose(from, to),
             from # "up", from = "hosted" <=> to = "hosted"
      PROVE  EntryInv'
  <2>1. /\ boot = from /\ boot' = to
        /\ UNCHANGED <<hookVars, afterVars, activeRequests, forced, idleWait, pc, shutdown, exit, gone>>
    BY <1>3 DEF CallClose
  <2>2. CASE closing # "none" \/ closeWaits
    <3>1. UNCHANGED <<state, closeWaits>>
      BY <1>3, <2>2 DEF CallClose, Close
    <3>2. QED
      BY <1>3, <2>1, <2>2, <3>1 DEF hookVars, afterVars
  <2>3. CASE ~(closing # "none" \/ closeWaits)
    <3>1. state' = StateAfterDrain /\ closeWaits' = TRUE
      BY <1>3, <2>3 DEF CallClose, Close, BeginDrain
    <3>2. QED
      BY <1>3, <2>1, <2>3, <3>1 DEF hookVars, afterVars, StateAfterDrain
  <2>4. QED
    BY <2>2, <2>3
<1>4. CASE StartupFails \/ StartupClose \/ ListenFails \/ HostCloses
  BY <1>3, <1>4 DEF StartupFails, StartupClose, ListenFails, HostCloses
<1>5. CASE StartupEnds \/ Listens
  BY <1>5 DEF StartupEnds, Listens, hookVars, afterVars, lifecycleVars
<1>6. CASE HostWaits
  BY <1>6 DEF HostWaits, WaitForIdle, IdleTimeout, hookVars, afterVars, entryVars
<1>7. CASE StartupCloseTimeout \/ DrainTimeout
  BY <1>7 DEF StartupCloseTimeout, DrainTimeout, ForceClose, BeginDrain, StateAfterDrain, CloseHook,
              hookVars, afterVars
<1>8. CASE StartupExit \/ FailedExit \/ ShutdownExit
  BY <1>8 DEF StartupExit, FailedExit, ShutdownExit, Exit, hookVars, afterVars, lifecycleVars
<1>9. CASE Signal
  BY <1>9 DEF Signal, BeginDrain, StateAfterDrain, hookVars, afterVars
<1>10. CASE AdapterDrained
  BY <1>10 DEF AdapterDrained, Connected, Close, BeginDrain, StateAfterDrain, hookVars, afterVars
<1>11. CASE HookSettles
  BY <1>11 DEF HookSettles, StartFulfilled, PluginsStarted, StartRejected, Registered, RolledBack, Outcome,
               ResourcesClosed, Closed, HookInv, HooksTypeOK, afterVars, entryVars
<1>12. CASE HookStep
  <2>1. UNCHANGED <<afterVars, lifecycleVars, entryVars, gone>>
    BY <1>12 DEF HookStep
  <2>2. /\ closing' # "none" => closing # "none"
        /\ closing = "ok" => closing' = "ok"
        /\ starting' # starting => starting' \in {"plugins", "rollback"} /\ starting \in {"registering", "plugins"}
    BY <1>12 DEF HookStep, Registered, Outcome, PluginsFailed, OnShutdown, Withdraw, TakeBatch, Drained,
                 ShutdownHooksRan, Disposed, Flushed, HookInv, HooksTypeOK
  <2>3. QED
    BY <2>1, <2>2 DEF afterVars, lifecycleVars, entryVars
<1>13. CASE CallCloseResources
  <2>1. /\ closeWaits /\ closeWaits' = FALSE
        /\ starting \in {"none"} \cup Settled \/ forced
        /\ UNCHANGED <<state, activeRequests, forced, idleWait, pc, afterVars, entryVars, gone>>
    BY <1>13 DEF CallCloseResources, CloseResources
  <2>2. /\ closing' = IF closing = "none" THEN "hooks" ELSE closing
        /\ starting' = starting
    BY <1>13 DEF CallCloseResources, CloseResources, CloseHook, hookVars
  <2>3. EntryTypeOK'
    BY <2>1 DEF entryVars
  <2>4. state \notin {"starting", "ready"}
    BY <2>1
  <2>5. CloseAwaitsStart'
    BY <2>1, <2>2
  <2>6. \A r \in Requests : boot # "hosted" /\ ~forced => ~Waiting(r)
    BY <2>1
  <2>7. QED
    BY <2>1, <2>2, <2>3, <2>4, <2>5, <2>6 DEF afterVars, entryVars
<1>14. ASSUME NEW r \in Requests, Arrives(r) PROVE EntryInv'
  BY <1>14 DEF Arrives, RunRequest, Goto, StartHook, hookVars, afterVars, entryVars
<1>15. ASSUME NEW r \in Requests, Proceeds(r) PROVE EntryInv'
  BY <1>15 DEF Proceeds, StartAwaited, Responds, Finish, Goto, hookVars, afterVars, entryVars
<1>16. ASSUME NEW r \in Requests, Disconnects(r) PROVE EntryInv'
  BY <1>16 DEF Disconnects, hookVars, afterVars, lifecycleVars, entryVars
<1>17. ASSUME NEW r \in Requests, AfterStep(r) PROVE EntryInv'
  BY <1>17 DEF AfterStep, After, BeginTasks, NextTask, TaskSettles, AfterInv, AfterTypeOK,
               hookVars, lifecycleVars, entryVars
<1>18. CASE UNCHANGED vars
  BY <1>18 DEF vars, hookVars, afterVars, lifecycleVars, entryVars
<1>19. QED
  BY <1>1, <1>2, <1>4, <1>5, <1>6, <1>7, <1>8, <1>9, <1>10, <1>11, <1>12, <1>13, <1>14,
     <1>15, <1>16, <1>17, <1>18 DEF Next

-----------------------------------------------------------------------------
(* The count of requests                                                   *)

(* Each response enters and leaves the count once.                         *)
LEMMA CountStep ==
  ASSUME EntryInv, CountIsExact, [Next]_vars
  PROVE  CountIsExact'
<1>1. IsFiniteSet(Tracked)
  BY RequestsAssumption, FS_Subset DEF Tracked
<1>2. ASSUME UNCHANGED <<pc, activeRequests>> PROVE CountIsExact'
  BY <1>2 DEF CountIsExact, Tracked
<1>3. ASSUME NEW r \in Requests, Proceeds(r) PROVE CountIsExact'
  <2>1. CASE StartAwaited(r)
    <3>1. CASE state = "ready"
      <4>1. Tracked' = Tracked \cup {r} /\ r \notin Tracked
        BY <2>1, <3>1 DEF StartAwaited, Goto, Tracked, EntryInv, EntryTypeOK
      <4>2. activeRequests' = activeRequests + 1
        BY <2>1, <3>1 DEF StartAwaited
      <4>3. QED
        BY <1>1, <4>1, <4>2, FS_AddElement DEF CountIsExact
    <3>2. CASE state # "ready"
      <4>1. Tracked' = Tracked /\ activeRequests' = activeRequests
        BY <2>1, <3>2 DEF StartAwaited, Goto, Tracked, EntryInv, EntryTypeOK
      <4>2. QED
        BY <4>1 DEF CountIsExact
    <3>3. QED
      BY <3>1, <3>2
  <2>2. CASE Responds(r)
    <3>1. Tracked' = Tracked /\ activeRequests' = activeRequests
      BY <2>2 DEF Responds, Goto, Tracked, EntryInv, EntryTypeOK
    <3>2. QED
      BY <3>1 DEF CountIsExact
  <2>3. CASE Finish(r)
    <3>1. CASE pc[r] = "ended"
      BY <1>2, <2>3, <3>1 DEF Finish
    <3>2. CASE pc[r] # "ended"
      <4>1. Tracked' = Tracked \ {r} /\ r \in Tracked
        BY <2>3, <3>2 DEF Finish, Goto, Tracked, EntryInv, EntryTypeOK
      <4>2. activeRequests' = activeRequests - 1
        BY <2>3, <3>2 DEF Finish
      <4>3. QED
        BY <1>1, <4>1, <4>2, FS_RemoveElement DEF CountIsExact
    <3>3. QED
      BY <3>1, <3>2
  <2>4. QED
    BY <1>3, <2>1, <2>2, <2>3 DEF Proceeds
<1>4. ASSUME NEW r \in Requests, Arrives(r) PROVE CountIsExact'
  <2>1. Tracked' = Tracked /\ activeRequests' = activeRequests
    BY <1>4 DEF Arrives, RunRequest, Goto, Tracked, EntryInv, EntryTypeOK
  <2>2. QED
    BY <2>1 DEF CountIsExact
<1>5. ASSUME NEW r \in Requests, Disconnects(r) \/ AfterStep(r) PROVE CountIsExact'
  BY <1>2, <1>5 DEF Disconnects, AfterStep, lifecycleVars
<1>6. CASE CallStart \/ Interrupt \/ StartupFails \/ StartupClose \/ StartupEnds \/ Listens
             \/ ListenFails \/ HostCloses \/ HostWaits
  BY <1>2, <1>6 DEF CallStart, Start, Interrupt, StartupFails, StartupClose, StartupEnds, Listens,
                    ListenFails, HostCloses, CallClose, HostWaits, WaitForIdle, IdleTimeout, lifecycleVars
<1>7. CASE StartupCloseTimeout \/ StartupExit \/ FailedExit \/ Signal \/ AdapterDrained
             \/ DrainTimeout \/ ShutdownExit
  BY <1>2, <1>7 DEF StartupCloseTimeout, StartupExit, FailedExit, Signal, AdapterDrained, DrainTimeout,
                    ShutdownExit, ForceClose, lifecycleVars
<1>8. CASE HookSettles \/ HookStep \/ CallCloseResources
  BY <1>2, <1>8 DEF HookSettles, StartFulfilled, StartRejected, ResourcesClosed, HookStep,
                    CallCloseResources, CloseResources, lifecycleVars
<1>9. CASE UNCHANGED vars
  BY <1>2, <1>9 DEF vars, lifecycleVars
<1>10. QED
  BY <1>3, <1>4, <1>5, <1>6, <1>7, <1>8, <1>9 DEF Next

-----------------------------------------------------------------------------
(* The invariant and what follows from it                                  *)

ServerInv == HookInv /\ AfterInv /\ EntryInv /\ CountIsExact

(* The inductive invariant: the four parts together, each of which needs   *)
(* others: the entry reads the hooks' promises and the phases of the       *)
(* queues, the count reads the requests.                                   *)
THEOREM Inductive == Spec => []ServerInv
<1>1. Init => ServerInv
  <2> SUFFICES ASSUME Init PROVE ServerInv
    OBVIOUS
  <2>1. HookInv
    BY HookInvInit DEF Init
  <2>2. AfterInv
    BY MaxTasksAssumption DEF Init, AfterInit, AfterInv, AfterTypeOK
  <2>3. EntryInv
    BY DEF Init, AfterInit, HooksInit, LifecycleInit, EntryInv, EntryTypeOK, CloseAwaitsStart, Waiting
  <2>4. Tracked = {} /\ activeRequests = 0
    BY DEF Init, LifecycleInit, Tracked
  <2>5. QED
    BY <2>1, <2>2, <2>3, <2>4, FS_EmptySet DEF ServerInv, CountIsExact
<1>2. ServerInv /\ [Next]_vars => ServerInv'
  BY HookMoves, HookInvStep, AfterInvStep, EntryInvStep, CountStep DEF ServerInv
<1>3. QED
  BY <1>1, <1>2, PTL DEF Spec

(* Every variable keeps its type; the count of requests is a natural.      *)
THEOREM TypeSafe == Spec => []TypeOK
<1>1. ServerInv => TypeOK
  <2> SUFFICES ASSUME ServerInv PROVE TypeOK
    OBVIOUS
  <2>1. activeRequests \in Nat
    BY RequestsAssumption, FS_Subset, FS_CardinalityType DEF ServerInv, CountIsExact, Tracked
  <2>2. QED
    BY <2>1 DEF ServerInv, HookInv, AfterInv, EntryInv, EntryTypeOK, TypeOK, LifecycleTypeOK
<1>2. QED
  BY <1>1, Inductive, PTL

(* What a plugin registers with onShutdown, however late, is released by   *)
(* the close (plugin.ts closeRuntime).                                     *)
THEOREM ResourcesReleased == Spec => []NothingStranded
<1>1. ServerInv => NothingStranded
  BY DEF ServerInv, HookInv
<1>2. QED
  BY <1>1, Inductive, PTL

(* activeRequests counts the handlers and streams that are not over.       *)
THEOREM CountCorrect == Spec => []CountIsExact
<1>1. ServerInv => CountIsExact
  BY DEF ServerInv
<1>2. QED
  BY <1>1, Inductive, PTL

(* close() closes nothing under a running start unless it was forced.      *)
THEOREM CloseWaitsForStart == Spec => []CloseAwaitsStart
<1>1. ServerInv => CloseAwaitsStart
  BY DEF ServerInv, EntryInv
<1>2. QED
  BY <1>1, Inductive, PTL

(* Under the entry, cleanup begins after the last response of a client     *)
(* that stayed, or when the drain has timed out.                           *)
THEOREM OrderlyCleanup == Spec => []CleanupAfterDrain
<1>1. ServerInv => CleanupAfterDrain
  BY DEF ServerInv, EntryInv, Waiting, CleanupAfterDrain, Connected
<1>2. QED
  BY <1>1, Inductive, PTL

(* Exit code 0 means that the whole cleanup ran and nothing in it failed.  *)
THEOREM HonestExit == Spec => []SuccessMeansClean
<1>1. ServerInv => SuccessMeansClean
  BY DEF ServerInv, EntryInv, HookInv, HooksTypeOK, NothingStranded, runtimeClosed, Settled, SuccessMeansClean
<1>2. QED
  BY <1>1, Inductive, PTL

(* after() loses no callback it accepted and runs none too early.          *)
THEOREM AllCallbacksRun == Spec => []CallbacksAllRun
<1>1. ServerInv => CallbacksAllRun
  BY DEF ServerInv, EntryInv, AfterInv, AfterTypeOK, CallbacksAllRun
<1>2. QED
  BY <1>1, Inductive, PTL

(* No handler begins once a shutdown or a close has.                       *)
THEOREM NoLateHandler == Spec => NoHandlerWhileDraining
<1> DEFINE Begins(r) == pc'[r] = "handling" /\ pc[r] # "handling"
<1>1. ASSUME ServerInv, [Next]_vars, NEW r \in Requests, Begins(r)
      PROVE  shutdown = "none" /\ boot \in {"hosted", "up"} /\ ~closeWaits /\ closing = "none"
  <2>1. \E q \in Requests : StartAwaited(q) /\ state = "ready" /\ q = r
    <3>1. pc' # pc
      BY <1>1
    <3>2. CASE \E q \in Requests : Proceeds(q)
      BY <1>1, <3>2 DEF Proceeds, StartAwaited, Responds, Finish, Goto, ServerInv, EntryInv, EntryTypeOK
    <3>3. CASE \E q \in Requests : Arrives(q)
      BY <1>1, <3>3 DEF Arrives, RunRequest, Goto, ServerInv, EntryInv, EntryTypeOK
    <3>4. ASSUME NEW q \in Requests, Disconnects(q) \/ AfterStep(q) PROVE FALSE
      BY <3>1, <3>4 DEF Disconnects, AfterStep, lifecycleVars
    <3>5. CASE CallStart \/ Interrupt \/ StartupFails \/ StartupClose \/ StartupEnds \/ Listens
                 \/ ListenFails \/ HostCloses \/ HostWaits
      BY <3>1, <3>5 DEF CallStart, Start, Interrupt, StartupFails, StartupClose, StartupEnds, Listens,
                        ListenFails, HostCloses, CallClose, HostWaits, WaitForIdle, IdleTimeout, lifecycleVars
    <3>6. CASE StartupCloseTimeout \/ StartupExit \/ FailedExit \/ Signal \/ AdapterDrained
                 \/ DrainTimeout \/ ShutdownExit
      BY <3>1, <3>6 DEF StartupCloseTimeout, StartupExit, FailedExit, Signal, AdapterDrained, DrainTimeout,
                        ShutdownExit, ForceClose, lifecycleVars
    <3>7. CASE HookSettles \/ HookStep \/ CallCloseResources
      BY <3>1, <3>7 DEF HookSettles, StartFulfilled, StartRejected, ResourcesClosed, HookStep,
                        CallCloseResources, CloseResources, lifecycleVars
    <3>8. CASE UNCHANGED vars
      BY <3>1, <3>8 DEF vars, lifecycleVars
    <3>9. QED
      BY <1>1, <3>2, <3>3, <3>4, <3>5, <3>6, <3>7, <3>8 DEF Next
  <2>2. QED
    BY <1>1, <2>1 DEF StartAwaited, ServerInv, EntryInv, EntryTypeOK
<1>2. ServerInv /\ [Next]_vars =>
        [\A r \in Requests : Begins(r) =>
           shutdown = "none" /\ boot \in {"hosted", "up"} /\ ~closeWaits /\ closing = "none"]_vars
  BY <1>1
<1>3. QED
  BY <1>2, Inductive, PTL DEF Spec, NoHandlerWhileDraining

(* Readiness never comes back, and a closed runtime stays closed.          *)
THEOREM ReadinessFalls == Spec => NeverBack
<1>1. ASSUME ServerInv, [Next]_vars PROVE Rank[state'] >= Rank[state]
  <2>0. /\ \A s \in {"starting", "ready", "draining", "failed", "closed"} : Rank[s] \in Nat
        /\ Rank["starting"] = 0 /\ Rank["ready"] = 1 /\ Rank["draining"] = 2
        /\ Rank["failed"] = 3 /\ Rank["closed"] = 4
    BY DEF Rank
  <2>1. state \in {"starting", "ready", "draining", "failed", "closed"}
    BY <1>1 DEF ServerInv, EntryInv, EntryTypeOK
  <2>2. CASE UNCHANGED state
    BY <2>0, <2>1, <2>2
  <2>3. CASE state' = StateAfterDrain
    BY <2>0, <2>1, <2>3 DEF StateAfterDrain
  <2>4. CASE HookSettles
    <3>1. \/ state = "starting" /\ state' = "ready"
          \/ state' = state
          \/ state # "closed" /\ state' = "failed"
          \/ state' = "closed"
      BY <2>4 DEF HookSettles, StartFulfilled, StartRejected, ResourcesClosed
    <3>2. QED
      BY <2>0, <2>1, <3>1
  <2>5. ASSUME NEW r \in Requests, Arrives(r) \/ Proceeds(r) \/ Disconnects(r) \/ AfterStep(r)
        PROVE  UNCHANGED state
    BY <2>5 DEF Arrives, RunRequest, Proceeds, StartAwaited, Responds, Finish, Disconnects, AfterStep,
                lifecycleVars
  <2>6. CASE CallStart \/ Interrupt \/ StartupFails \/ StartupClose \/ StartupEnds \/ Listens
               \/ ListenFails \/ HostCloses \/ HostWaits
    BY <2>2, <2>3, <2>6 DEF CallStart, Start, Interrupt, StartupFails, StartupClose, StartupEnds, Listens,
                      ListenFails, HostCloses, CallClose, Close, BeginDrain, HostWaits, WaitForIdle,
                      IdleTimeout, lifecycleVars
  <2>7. CASE StartupCloseTimeout \/ StartupExit \/ FailedExit \/ Signal \/ AdapterDrained
               \/ DrainTimeout \/ ShutdownExit
    BY <2>2, <2>3, <2>7 DEF StartupCloseTimeout, StartupExit, FailedExit, Signal, AdapterDrained, DrainTimeout,
                      ShutdownExit, Close, ForceClose, BeginDrain, lifecycleVars
  <2>8. CASE HookStep \/ CallCloseResources \/ UNCHANGED vars
    BY <2>2, <2>8 DEF HookStep, CallCloseResources, CloseResources, vars, lifecycleVars
  <2>9. QED
    BY <1>1, <2>2, <2>4, <2>5, <2>6, <2>7, <2>8 DEF Next
<1>2. QED
  BY <1>1, Inductive, PTL DEF Spec, NeverBack

-----------------------------------------------------------------------------
(* The shutdown is graceful. Every action of the lifecycle, the hooks, the *)
(* entry and the requests maps to one of GracefulShutdown's; ServerInv     *)
(* says where it may.                                                      *)

(* The states of the promise, in the variables of the server.              *)
Booting == starting \in {"registering", "plugins", "rollback"}
Serving == Tracked \ gone
Held    == {x \in Resources : resource[x] \in {"registered", "taken"}}

(* No start, no request, no resource.                                      *)
LEMMA ShutdownInits == Init => Promised!ShutdownInit
BY DEF Init, HooksInit, LifecycleInit, Promised!ShutdownInit, PhaseOfShutdown, Tracked

(* A step of the server that leaves the promise where it is.               *)
LEMMA ShutdownKept ==
  ASSUME (boot # "hosted") <=> (boot # "hosted")', Booting <=> Booting',
         UNCHANGED <<PhaseOfShutdown, Serving, Held, forced, exit>>
  PROVE  [Promised!ShutdownNext]_(Promised!shutdownVars)
BY DEF Booting, Serving, Held, Promised!shutdownVars

(* A step of the hooks, or of after(), that the promise does not see.      *)
LEMMA OthersKept ==
  ASSUME (boot # "hosted") <=> (boot # "hosted")', UNCHANGED <<starting, closing, resource, state, pc, gone, forced, exit>>
  PROVE  [Promised!ShutdownNext]_(Promised!shutdownVars)
<1>1. UNCHANGED <<PhaseOfShutdown, Serving, Held>> /\ (Booting <=> Booting')
  BY DEF PhaseOfShutdown, Serving, Tracked, Held, Booting
<1>2. QED
  BY <1>1, ShutdownKept

(* The drain begins at the first signal, close or interruption.            *)
LEMMA DrainMaps ==
  ASSUME EntryInv, exit = "running", (boot # "hosted") <=> (boot # "hosted")',
         state' \in {state, StateAfterDrain},
         UNCHANGED <<starting, closing, resource, pc, gone, forced, exit>>
  PROVE  [Promised!ShutdownNext]_(Promised!shutdownVars)
<1>1. UNCHANGED <<Serving, Held>> /\ (Booting <=> Booting')
  BY DEF Serving, Tracked, Held, Booting
<1>2. CASE PhaseOfShutdown' = PhaseOfShutdown
  BY <1>1, <1>2, ShutdownKept
<1>3. CASE PhaseOfShutdown' # PhaseOfShutdown
  <2>1. PhaseOfShutdown = "open" /\ PhaseOfShutdown' = "draining"
    BY <1>3 DEF PhaseOfShutdown, StateAfterDrain, EntryInv, EntryTypeOK
  <2>2. Promised!Drain
    BY <1>1, <2>1 DEF Promised!Drain, Booting, Serving, Held
  <2>3. QED
    BY <2>2 DEF Promised!ShutdownNext
<1>4. QED
  BY <1>2, <1>3

(* A timer runs the cleanup, if nothing has.                               *)
LEMMA ForceMaps ==
  ASSUME EntryInv, HookInv, ForceClose, exit = "running", (boot # "hosted") <=> (boot # "hosted")',
         UNCHANGED <<gone, exit>>
  PROVE  Promised!ShutdownNext
<1>1. UNCHANGED <<Serving, Held>> /\ (Booting <=> Booting') /\ forced' = TRUE
  BY DEF ForceClose, CloseHook, hookVars, Serving, Tracked, Held, Booting
<1>2. PhaseOfShutdown' = IF PhaseOfShutdown \in {"open", "draining"} THEN "cleaning" ELSE PhaseOfShutdown
  BY DEF ForceClose, CloseHook, hookVars, PhaseOfShutdown, HookInv, HooksTypeOK, Settled
<1>3. Promised!Force
  BY <1>1, <1>2 DEF Promised!Force, Booting, Serving, Held
<1>4. QED
  BY <1>3 DEF Promised!ShutdownNext

(* Success is reported after a cleanup without an error.                   *)
LEMMA ExitMaps ==
  ASSUME exit = "running", exit' \in {"success", "failure"}, exit' = "success" => closing = "ok",
         (boot # "hosted") <=> (boot # "hosted")',
         UNCHANGED <<starting, closing, resource, state, pc, gone, forced>>
  PROVE  Promised!ShutdownNext
<1>1. UNCHANGED <<PhaseOfShutdown, Serving, Held>> /\ (Booting <=> Booting')
  BY DEF PhaseOfShutdown, Serving, Tracked, Held, Booting
<1>2. exit' \in (IF PhaseOfShutdown = "clean" THEN {"success", "failure"} ELSE {"failure"})
  BY DEF PhaseOfShutdown
<1>3. Promised!Exit
  BY <1>1, <1>2 DEF Promised!Exit, Booting, Serving, Held
<1>4. QED
  BY <1>3 DEF Promised!ShutdownNext

(* The start begins before the server drains.                              *)
LEMMA StartMaps ==
  ASSUME EntryInv, StartHook, state = "starting", exit = "running",
         \A r \in Requests : pc'[r] = pc[r] \/ {pc[r], pc'[r]} \cap {"handling", "streaming"} = {},
         UNCHANGED <<boot, state, forced, exit, gone>>
  PROVE  Promised!ShutdownNext
<1>1. UNCHANGED <<Serving, Held>> /\ Booting'
  BY DEF StartHook, Serving, Tracked, Held, Booting
<1>2. PhaseOfShutdown = "open" /\ PhaseOfShutdown' = "open"
  BY DEF StartHook, PhaseOfShutdown, EntryInv
<1>3. Promised!StartBegins
  BY <1>1, <1>2 DEF Promised!StartBegins, Booting, Serving, Held
<1>4. QED
  BY <1>3 DEF Promised!ShutdownNext

(* The start and the close hook settle, the latter with nothing held.      *)
LEMMA SettleMaps ==
  ASSUME EntryInv, HookInv, HookSettles, exit = "running"
  PROVE  Promised!ShutdownNext
<1>1. UNCHANGED <<boot, forced, exit, gone, pc, resource>>
  BY DEF HookSettles, StartFulfilled, PluginsStarted, StartRejected, Registered, RolledBack,
         ResourcesClosed, Closed, entryVars
<1>2. UNCHANGED <<Serving, Held>>
  BY <1>1 DEF Serving, Tracked, Held
<1>3. CASE StartFulfilled \/ StartRejected
  <2>1. ~Booting' /\ UNCHANGED closing
    BY <1>3 DEF StartFulfilled, PluginsStarted, StartRejected, Registered, RolledBack, Outcome, Booting
  <2>2. PhaseOfShutdown' \in {PhaseOfShutdown, IF PhaseOfShutdown = "open" THEN "draining" ELSE PhaseOfShutdown}
    BY <1>3, <2>1 DEF StartFulfilled, StartRejected, PhaseOfShutdown, EntryInv, EntryTypeOK
  <2>3. Promised!StartEnds
    BY <1>1, <1>2, <2>1, <2>2 DEF Promised!StartEnds, Booting, Serving, Held
  <2>4. QED
    BY <2>3 DEF Promised!ShutdownNext
<1>4. CASE ResourcesClosed
  <2>1. PhaseOfShutdown = "cleaning" /\ PhaseOfShutdown' \in {"clean", "dirty"} /\ UNCHANGED starting
    BY <1>4 DEF ResourcesClosed, Closed, Outcome, PhaseOfShutdown
  <2>2. Held = {}
    BY <1>4 DEF ResourcesClosed, Closed, HookInv, NothingStranded, runtimeClosed, Held
  <2>3. Promised!Finish
    BY <1>1, <1>2, <2>1, <2>2 DEF Promised!Finish, Booting, Serving, Held
  <2>4. QED
    BY <2>3 DEF Promised!ShutdownNext
<1>5. QED
  BY <1>3, <1>4 DEF HookSettles

(* Resources are acquired while something will release them, and released. *)
LEMMA ResourceMaps ==
  ASSUME HookInv, NEW x \in Resources, exit = "running",
         UNCHANGED <<boot, starting, closing, state, forced, exit, gone, pc>>,
         \/ Held' = Held \cup {x} /\ ~runtimeClosed
         \/ Held' = Held \ {x}
  PROVE  Promised!ShutdownNext
<1>1. UNCHANGED <<PhaseOfShutdown, Serving>> /\ (Booting <=> Booting')
  BY DEF PhaseOfShutdown, Serving, Tracked, Booting
<1>2. CASE Held' = Held \cup {x} /\ ~runtimeClosed
  <2>1. PhaseOfShutdown \notin {"clean", "dirty"}
    BY <1>2 DEF PhaseOfShutdown, runtimeClosed, Settled
  <2>2. Promised!Acquire(x)
    BY <1>1, <1>2, <2>1 DEF Promised!Acquire, Promised!Over, Booting, Serving, Held
  <2>3. QED
    BY <2>2 DEF Promised!ShutdownNext
<1>3. CASE Held' = Held \ {x}
  <2>1. Promised!Release(x)
    BY <1>1, <1>3 DEF Promised!Release, Booting, Serving, Held
  <2>2. QED
    BY <2>1 DEF Promised!ShutdownNext
<1>4. QED
  BY <1>2, <1>3

(* What the hooks do in between.                                           *)
LEMMA HookMaps ==
  ASSUME HookInv, HookStep, exit = "running"
  PROVE  [Promised!ShutdownNext]_(Promised!shutdownVars)
<1>1. UNCHANGED <<boot, state, forced, exit, gone, pc>>
  BY DEF HookStep, lifecycleVars, entryVars
<1>2. ASSUME UNCHANGED Held, Booting <=> Booting', PhaseOfShutdown' = PhaseOfShutdown
      PROVE  [Promised!ShutdownNext]_(Promised!shutdownVars)
  BY <1>1, <1>2, ShutdownKept DEF Serving, Tracked
<1>3. CASE Registered(TRUE) \/ PluginsFailed
  <2>1. Booting /\ Booting' /\ UNCHANGED <<closing, resource>>
    BY <1>3 DEF Registered, Outcome, PluginsFailed, Booting, HookInv
  <2>2. QED
    BY <1>1, <1>2, <2>1 DEF Held, PhaseOfShutdown
<1>4. ASSUME NEW x \in Resources, OnShutdown(x) PROVE [Promised!ShutdownNext]_(Promised!shutdownVars)
  <2>1. UNCHANGED <<starting, closing>> /\ resource[x] = "unopened"
    BY <1>4 DEF OnShutdown
  <2>2. resource \in [Resources -> {"unopened", "registered", "taken", "disposed", "withdrawn"}]
    BY DEF HookInv, HooksTypeOK
  <2>3. CASE runtimeClosed
    <3>1. UNCHANGED Held
      BY <1>4, <2>1, <2>2, <2>3 DEF OnShutdown, Held
    <3>2. QED
      BY <1>1, <1>2, <2>1, <3>1 DEF Booting, PhaseOfShutdown
  <2>4. CASE ~runtimeClosed
    <3>1. Held' = Held \cup {x}
      BY <1>4, <2>2, <2>4 DEF OnShutdown, Held
    <3>2. QED
      BY <1>1, <2>1, <2>4, <3>1, ResourceMaps
  <2>5. QED
    BY <2>3, <2>4
<1>5. ASSUME NEW x \in Resources, UNCHANGED <<starting, closing>>,
             \E to \in {"withdrawn", "disposed"} : resource' = [resource EXCEPT ![x] = to]
      PROVE  [Promised!ShutdownNext]_(Promised!shutdownVars)
  <2>1. Held' = Held \ {x}
    BY <1>5 DEF Held, HookInv, HooksTypeOK
  <2>2. QED
    BY <1>1, <1>5, <2>1, ResourceMaps
<1>6. ASSUME NEW x \in Resources, Withdraw(x) PROVE [Promised!ShutdownNext]_(Promised!shutdownVars)
  BY <1>5, <1>6 DEF Withdraw
<1>7. ASSUME NEW ok \in BOOLEAN, Disposed(ok) PROVE [Promised!ShutdownNext]_(Promised!shutdownVars)
  <2>1. batch[Len(batch)] \in Resources
    BY <1>7, DropLastType DEF Disposed, HookInv, HooksTypeOK
  <2>2. QED
    BY <1>5, <1>7, <2>1 DEF Disposed
<1>8. CASE TakeBatch
  <2>1. UNCHANGED Held
    BY <1>8 DEF TakeBatch, Held
  <2>2. QED
    BY <1>1, <1>2, <1>8, <2>1 DEF TakeBatch, Booting, PhaseOfShutdown
<1>9. ASSUME Drained \/ \E ok \in BOOLEAN : ShutdownHooksRan(ok) \/ Flushed(ok)
      PROVE  [Promised!ShutdownNext]_(Promised!shutdownVars)
  <2>1. /\ UNCHANGED <<starting, resource>>
        /\ closing' = closing \/ (closing \in {"hooks", "draining"} /\ closing' \in {"draining", "flushing"})
    BY <1>9 DEF Drained, ShutdownHooksRan, Flushed
  <2>2. PhaseOfShutdown' = PhaseOfShutdown
    BY <1>1, <2>1 DEF PhaseOfShutdown
  <2>3. QED
    BY <1>2, <2>1, <2>2 DEF Held, Booting
<1>10. QED
  BY <1>3, <1>4, <1>6, <1>7, <1>8, <1>9 DEF HookStep

(* The cleanup begins when nobody is served and the start has settled.     *)
LEMMA CleanUpMaps ==
  ASSUME HookInv, EntryInv, CallCloseResources, exit = "running"
  PROVE  [Promised!ShutdownNext]_(Promised!shutdownVars)
<1>1. UNCHANGED <<boot, state, forced, exit, gone, pc, starting, resource>>
  BY DEF CallCloseResources, CloseResources, CloseHook, hookVars, entryVars
<1>2. CASE closing # "none"
  BY <1>1, <1>2, OthersKept DEF CallCloseResources, CloseResources, hookVars
<1>3. CASE closing = "none"
  <2>1. PhaseOfShutdown = "draining" /\ PhaseOfShutdown' = "cleaning"
    BY <1>3 DEF CallCloseResources, CloseResources, CloseHook, EntryInv, PhaseOfShutdown
  <2>2. UNCHANGED <<Serving, Held>> /\ (Booting <=> Booting')
    BY <1>1 DEF Serving, Tracked, Held, Booting
  <2>3. forced \/ (~Booting /\ (boot # "hosted" => Serving = {}))
    BY DEF CallCloseResources, CloseResources, EntryInv, Waiting, Settled, Booting, Serving, Tracked
  <2>4. Promised!CleanUp
    BY <1>1, <2>1, <2>2, <2>3 DEF Promised!CleanUp, Booting, Serving, Held
  <2>5. QED
    BY <2>4 DEF Promised!ShutdownNext
<1>4. QED
  BY <1>2, <1>3

(* Requests come, are handled and end.                                     *)
LEMMA RequestMaps ==
  ASSUME EntryInv, NEW r \in Requests, exit = "running",
         Arrives(r) \/ Proceeds(r) \/ Disconnects(r) \/ AfterStep(r)
  PROVE  [Promised!ShutdownNext]_(Promised!shutdownVars)
<1>1. pc \in [Requests -> {"idle", "starting", "handling", "streaming", "ended", "refused"}]
  BY DEF EntryInv, EntryTypeOK
<1>2. ASSUME UNCHANGED <<boot, starting, closing, resource, state, forced, exit>>,
             Serving' \in {Serving, Serving \ {r}}
      PROVE  [Promised!ShutdownNext]_(Promised!shutdownVars)
  <2>1. UNCHANGED <<PhaseOfShutdown, Held>> /\ (Booting <=> Booting')
    BY <1>2 DEF PhaseOfShutdown, Held, Booting
  <2>2. CASE Serving' = Serving
    BY <1>2, <2>1, <2>2, ShutdownKept
  <2>3. CASE Serving' = Serving \ {r}
    <3>1. Promised!End(r)
      BY <1>2, <2>1, <2>3 DEF Promised!End, Booting, Serving, Held
    <3>2. QED
      BY <3>1 DEF Promised!ShutdownNext
  <2>4. QED
    BY <1>2, <2>2, <2>3
<1>3. CASE Arrives(r)
  <2>1. /\ UNCHANGED <<boot, state, forced, exit, gone>>
        /\ \A q \in Requests : pc'[q] = pc[q] \/ {pc[q], pc'[q]} \cap {"handling", "streaming"} = {}
    BY <1>1, <1>3 DEF Arrives, RunRequest, Goto, entryVars
  <2>2. CASE StartHook /\ state = "starting"
    BY <2>1, <2>2, StartMaps
  <2>3. CASE UNCHANGED hookVars
    BY <1>2, <2>1, <2>3 DEF hookVars, Serving, Tracked
  <2>4. QED
    BY <1>3, <2>2, <2>3 DEF Arrives, RunRequest
<1>4. CASE Proceeds(r)
  <2>1. UNCHANGED <<boot, starting, closing, resource, state, forced, exit, gone>>
    BY <1>4 DEF Proceeds, StartAwaited, Responds, Finish, hookVars, entryVars
  <2>2. CASE StartAwaited(r) /\ state = "ready"
    <3>1. PhaseOfShutdown = "open" /\ PhaseOfShutdown' = "open" /\ ~Booting /\ ~Booting' /\ UNCHANGED Held
      BY <2>1, <2>2 DEF StartAwaited, EntryInv, Settled, PhaseOfShutdown, Booting, Held
    <3>2. Serving' = IF r \in gone THEN Serving ELSE Serving \cup {r}
      BY <1>1, <2>1, <2>2 DEF StartAwaited, Goto, Serving, Tracked
    <3>3. CASE r \in gone
      BY <1>2, <2>1, <3>2, <3>3
    <3>4. CASE r \notin gone
      <4>1. Promised!Begin(r)
        BY <2>1, <3>1, <3>2, <3>4 DEF Promised!Begin, Booting, Serving, Held
      <4>2. QED
        BY <4>1 DEF Promised!ShutdownNext
    <3>5. QED
      BY <3>3, <3>4
  <2>3. CASE (StartAwaited(r) /\ state # "ready") \/ Responds(r)
    <3>1. Serving' = Serving
      BY <1>1, <2>1, <2>3 DEF StartAwaited, Responds, Goto, Serving, Tracked
    <3>2. QED
      BY <1>2, <2>1, <3>1
  <2>4. CASE Finish(r)
    <3>1. Serving' = Serving \ {r}
      BY <1>1, <2>1, <2>4 DEF Finish, Goto, Serving, Tracked
    <3>2. QED
      BY <1>2, <2>1, <3>1
  <2>5. QED
    BY <1>4, <2>2, <2>3, <2>4 DEF Proceeds
<1>5. CASE Disconnects(r)
  <2>1. Serving' = Serving \ {r}
    BY <1>5 DEF Disconnects, lifecycleVars, Serving, Tracked
  <2>2. QED
    BY <1>2, <1>5, <2>1 DEF Disconnects, hookVars, lifecycleVars, entryVars
<1>6. CASE AfterStep(r)
  BY <1>6, OthersKept DEF AfterStep, hookVars, lifecycleVars, entryVars
<1>7. QED
  BY <1>3, <1>4, <1>5, <1>6

(* Every step of the server is a step of the shutdown, or none of its.     *)
LEMMA ShutdownStep ==
  ServerInv /\ [Next]_vars => [Promised!ShutdownNext]_(Promised!shutdownVars)
<1> SUFFICES ASSUME ServerInv, [Next]_vars
             PROVE  [Promised!ShutdownNext]_(Promised!shutdownVars)
  OBVIOUS
<1>1. HookInv /\ EntryInv
  BY DEF ServerInv
<1>2. CASE UNCHANGED vars
  BY <1>2, OthersKept DEF vars, hookVars, lifecycleVars, entryVars
<1>3. ASSUME exit = "running", CallStart PROVE Promised!ShutdownNext
  BY <1>1, <1>3, StartMaps DEF CallStart, Start, lifecycleVars, entryVars
<1>4. ASSUME exit = "running",
             Interrupt \/ StartupFails \/ StartupClose \/ ListenFails \/ HostCloses \/ Signal \/ AdapterDrained
      PROVE  [Promised!ShutdownNext]_(Promised!shutdownVars)
  BY <1>1, <1>4, DrainMaps
     DEF Interrupt, StartupFails, StartupClose, ListenFails, HostCloses, CallClose, Signal, AdapterDrained,
         Close, BeginDrain, hookVars
<1>5. ASSUME HostWaits \/ StartupEnds \/ Listens
      PROVE  [Promised!ShutdownNext]_(Promised!shutdownVars)
  BY <1>5, OthersKept
     DEF HostWaits, WaitForIdle, IdleTimeout, StartupEnds, Listens, hookVars, lifecycleVars, entryVars
<1>6. ASSUME exit = "running", StartupCloseTimeout \/ DrainTimeout PROVE Promised!ShutdownNext
  BY <1>1, <1>6, ForceMaps DEF StartupCloseTimeout, DrainTimeout
<1>7. ASSUME exit = "running", StartupExit \/ FailedExit \/ ShutdownExit PROVE Promised!ShutdownNext
  BY <1>7, ExitMaps DEF StartupExit, FailedExit, ShutdownExit, Exit, hookVars, lifecycleVars
<1>8. QED
  BY <1>1, <1>2, <1>3, <1>4, <1>5, <1>6, <1>7, SettleMaps, HookMaps, CleanUpMaps, RequestMaps DEF Next

(* However signals, timers, hooks, requests and late resources interleave, *)
(* the server shuts down in order: nobody is admitted once it drains, it   *)
(* cleans up once and not before the responses are over, holds nothing     *)
(* when it has, and reports success only after that.                       *)
THEOREM Implements == Spec => ImplementsGracefulShutdown
<1>1. ServerInv /\ [Next]_vars => [Promised!ShutdownNext]_(Promised!shutdownVars)
  BY ShutdownStep
<1>2. QED
  BY <1>1, ShutdownInits, Inductive, PTL DEF Spec, ImplementsGracefulShutdown, Promised!ShutdownSpec
=============================================================================
