------------------------------ MODULE SharedCache ------------------------------
(***************************************************************************)
(* getOrSet and revalidateTagAsync of FarmDataCache                        *)
(* (packages/farm/src/cache.ts) on several servers that share an adapter   *)
(* with regeneration leases.  With an adapter a server keeps no entries of *)
(* its own: what is local is the fill in flight, the fills registered as   *)
(* active, the tag's invalidation mark, version and generation.            *)
(*                                                                         *)
(* Every await of the adapter is a point where servers interleave; one     *)
(* action is what the store does at an await and the code that runs up to  *)
(* the next one.  Servers crash, resets (clear, configure) come at any     *)
(* time, and any call of the adapter may fail.                             *)
(***************************************************************************)
EXTENDS TagStore

CONSTANT MaxResets   \* bound of the model: resets and crashes of one server

ASSUME MaxResetsAssumption == MaxResets \in Nat

VARIABLES
  version,     \* this.version
  generation,  \* this.generation
  mark,        \* invalidatedTagVersions at the tag; 0 is an absent mark
  active,      \* activeGenerations: the requests whose fill is registered
  inflight,    \* the request whose fill promise is shared
  announced,   \* history: data covered by the last revalidation the server started
  pc,          \* where each request is
  call,        \* its server, and what was acknowledged and announced when it was made
  found,       \* the entry it read and is checking
  fill,        \* the locals of fillCacheEntry
  waits,       \* whose promise it awaits
  result,      \* what the caller receives
  outlived     \* history: requests whose lease expired while they held it

localVars   == <<version, generation, mark, active, inflight, announced>>
requestVars == <<pc, call, found, fill, waits, result>>
vars        == <<storeVars, localVars, requestVars, outlived>>

PC == {"idle", "getting", "checking", "missed", "leasing", "polling", "comparing",
       "retrying", "capturing", "ready", "producing", "writing", "releasing",
       "settling", "joined", "done"}

Call == [server : Servers, generation : Nat, floor : Nat, announced : Nat]
Fill == [generation : Nat, startVersion : Nat, createdVersion : Nat, token : BOOLEAN,
         tagVersion : Nat, value : Nat \cup {None}]

NoCall == [server |-> None, generation |-> 0, floor |-> 0, announced |-> 0]
NoFill == [generation |-> 0, startVersion |-> 0, createdVersion |-> 0, token |-> FALSE,
           tagVersion |-> 0, value |-> None]

Home(r) == call[r].server
InGeneration(r, g) == generation[Home(r)] = g

(* Every continuation of a request r moves its program counter.            *)
Goto(r, where) == pc' = [pc EXCEPT ![r] = where]

-----------------------------------------------------------------------------
Init ==
  /\ StoreInit
  /\ version = [s \in Servers |-> 0]
  /\ generation = [s \in Servers |-> 0]
  /\ mark = [s \in Servers |-> 0]
  /\ active = [s \in Servers |-> {}]
  /\ inflight = [s \in Servers |-> None]
  /\ announced = [s \in Servers |-> 0]
  /\ pc = [r \in Requests |-> "idle"]
  /\ call = [r \in Requests |-> NoCall]
  /\ found = [r \in Requests |-> None]
  /\ fill = [r \in Requests |-> NoFill]
  /\ waits = [r \in Requests |-> r]
  /\ result = [r \in Requests |-> None]
  /\ outlived = {}

-----------------------------------------------------------------------------
(* The lookup: getEntryAsync                                               *)

GetOrSet(r, s) ==
  /\ pc[r] = "idle"
  /\ Goto(r, "getting")
  /\ call' = [call EXCEPT ![r] = [server |-> s, generation |-> generation[s],
                                  floor |-> acknowledged, announced |-> announced[s]]]
  /\ UNCHANGED <<storeVars, localVars, found, fill, waits, result, outlived>>

(* adapter.get returns.                                                    *)
ReadEntry(r) ==
  /\ pc[r] = "getting"
  /\ IF InGeneration(r, call[r].generation) /\ stored # None
       THEN /\ Goto(r, "checking")
            /\ found' = [found EXCEPT ![r] = stored]
       ELSE /\ Goto(r, "missed")
            /\ UNCHANGED found
  /\ UNCHANGED <<storeVars, localVars, call, fill, waits, result, outlived>>

(* The tag version returns: a hit, or a miss because the entry is stale.   *)
CheckEntry(r) ==
  /\ pc[r] = "checking"
  /\ IF InGeneration(r, call[r].generation) /\ ~IsAdapterEntryStale(found[r])
       THEN /\ Goto(r, "done")
            /\ result' = [result EXCEPT ![r] = found[r].seen]
       ELSE /\ Goto(r, "missed")
            /\ UNCHANGED result
  /\ found' = [found EXCEPT ![r] = None]
  /\ UNCHANGED <<storeVars, localVars, call, fill, waits, outlived>>

-----------------------------------------------------------------------------
(* getOrSet after a miss                                                   *)

WasInvalidatedSince(s, v) == mark[s] > v

Joinable(r) ==
  LET f == inflight[Home(r)]
  IN f # None /\ ~WasInvalidatedSince(Home(r), fill[f].startVersion)

JoinInflight(r) ==
  /\ pc[r] = "missed"
  /\ Joinable(r)
  /\ Goto(r, "joined")
  /\ waits' = [waits EXCEPT ![r] = inflight[Home(r)]]
  /\ UNCHANGED <<storeVars, localVars, call, found, fill, result, outlived>>

StartFill(r) ==
  /\ pc[r] = "missed"
  /\ ~Joinable(r)
  /\ Goto(r, "leasing")
  /\ inflight' = [inflight EXCEPT ![Home(r)] = r]
  /\ fill' = [fill EXCEPT ![r] = [NoFill EXCEPT !.generation = generation[Home(r)],
                                                !.startVersion = version[Home(r)]]]
  /\ UNCHANGED <<storeVars, version, generation, mark, active, announced,
                 call, found, waits, result, outlived>>

-----------------------------------------------------------------------------
(* fillCacheEntry: the lease, and waiting for the entry of its holder      *)

(* The fill is registered as active, with or without the lease.            *)
Register(r, token) ==
  /\ lease' = IF token THEN r ELSE lease
  /\ outlived' = outlived \ {r}
  /\ active' = [active EXCEPT ![Home(r)] = @ \cup {r}]
  /\ fill' = [fill EXCEPT ![r].createdVersion = version[Home(r)], ![r].token = token]
  /\ Goto(r, "capturing")
  /\ UNCHANGED <<stored, tagVersion, data, revalidating, acknowledged,
                 version, generation, mark, inflight, announced,
                 call, found, waits, result>>

AcquireLease(r) ==
  /\ pc[r] = "leasing"
  /\ lease = None
  /\ Register(r, TRUE)

LeaseTaken(r) ==
  /\ pc[r] = "leasing"
  /\ lease # None
  /\ Goto(r, "polling")
  /\ UNCHANGED <<storeVars, localVars, call, found, fill, waits, result, outlived>>

(* waitForAdapterEntry: adapter.get returns an entry.                      *)
PollEntry(r) ==
  /\ pc[r] = "polling"
  /\ InGeneration(r, fill[r].generation)
  /\ stored # None
  /\ Goto(r, "comparing")
  /\ found' = [found EXCEPT ![r] = stored]
  /\ UNCHANGED <<storeVars, localVars, call, fill, waits, result, outlived>>

(* The tag version returns: the entry is shared if it is fresh.            *)
CompareEntry(r) ==
  /\ pc[r] = "comparing"
  /\ CASE ~InGeneration(r, fill[r].generation) ->
            Goto(r, "retrying") /\ UNCHANGED fill
       [] InGeneration(r, fill[r].generation) /\ IsAdapterEntryStale(found[r]) ->
            Goto(r, "polling") /\ UNCHANGED fill
       [] OTHER ->
            /\ Goto(r, "settling")
            /\ fill' = [fill EXCEPT ![r].value = found[r].seen]
  /\ found' = [found EXCEPT ![r] = None]
  /\ UNCHANGED <<storeVars, localVars, call, waits, result, outlived>>

(* The poll finds another generation.                                      *)
StopPolling(r) ==
  /\ pc[r] = "polling"
  /\ ~InGeneration(r, fill[r].generation)
  /\ Goto(r, "retrying")
  /\ UNCHANGED <<storeVars, localVars, call, found, fill, waits, result, outlived>>

(* waitTimeoutMs elapsed.                                                  *)
PollTimesOut(r) ==
  /\ pc[r] = "polling"
  /\ Goto(r, "retrying")
  /\ UNCHANGED <<storeVars, localVars, call, found, fill, waits, result, outlived>>

(* Mutant: the second attempt waits until it gets the lease.               *)
RetryUntilAcquired(r) ==
  /\ pc[r] = "retrying"
  /\ lease = None
  /\ Register(r, TRUE)

(* The second attempt; the fill goes ahead whether it gets the lease or not. *)
RetryLease(r) ==
  /\ pc[r] = "retrying"
  /\ Register(r, InGeneration(r, fill[r].generation) /\ lease = None)

-----------------------------------------------------------------------------
(* fillCacheEntry: from the captured tag version to the release of the lease *)

CaptureTagVersions(r) ==
  /\ pc[r] = "capturing"
  /\ Goto(r, "ready")
  /\ fill' = [fill EXCEPT ![r].tagVersion = tagVersion]
  /\ UNCHANGED <<storeVars, localVars, call, found, waits, result, outlived>>

(* producer() reads its data.                                              *)
CallProducer(r) ==
  /\ pc[r] = "ready"
  /\ Goto(r, "producing")
  /\ fill' = [fill EXCEPT ![r].value = data]
  /\ UNCHANGED <<storeVars, localVars, call, found, waits, result, outlived>>

Dependent(s, act) == \E q \in act : fill[q].createdVersion < mark[s]

(* The finally block up to the await of releaseLease.                      *)
CloseFill(r) ==
  LET s == Home(r) rest == active[Home(r)] \ {r}
  IN /\ active' = [active EXCEPT ![s] = rest]
     /\ mark' = [mark EXCEPT ![s] = IF Dependent(s, rest) THEN @ ELSE 0]
     /\ Goto(r, IF fill[r].token THEN "releasing" ELSE "settling")
     /\ UNCHANGED <<version, generation, inflight, announced>>

(* Mutant: the producer is not awaited.                                    *)
WritesBeforeProducer(r) ==
  /\ pc[r] \in {"ready", "producing"}
  /\ InGeneration(r, fill[r].generation)
  /\ Goto(r, "writing")
  /\ UNCHANGED <<storeVars, localVars, call, found, fill, waits, result, outlived>>

ProducerReturns(r) ==
  /\ pc[r] = "producing"
  /\ InGeneration(r, fill[r].generation)
  /\ Goto(r, "writing")
  /\ UNCHANGED <<storeVars, localVars, call, found, fill, waits, result, outlived>>

(* A reset intervened: the value is returned, not stored.                  *)
ProducerReturnsLate(r) ==
  /\ pc[r] = "producing"
  /\ ~InGeneration(r, fill[r].generation)
  /\ CloseFill(r)
  /\ UNCHANGED <<storeVars, call, found, fill, waits, result, outlived>>

(* Mutant: the entry carries the tag version at the time of the write.     *)
WritesWithLateVersion(r) ==
  /\ pc[r] = "writing"
  /\ stored' = [tagVersion |-> tagVersion, seen |-> fill[r].value]
  /\ CloseFill(r)
  /\ UNCHANGED <<tagVersion, lease, data, revalidating, acknowledged,
                 call, found, fill, waits, result, outlived>>

(* adapter.set returns.                                                    *)
WriteEntry(r) ==
  /\ pc[r] = "writing"
  /\ stored' = [tagVersion |-> fill[r].tagVersion, seen |-> fill[r].value]
  /\ CloseFill(r)
  /\ UNCHANGED <<tagVersion, lease, data, revalidating, acknowledged,
                 call, found, fill, waits, result, outlived>>

(* getTagVersions, the producer or adapter.set rejects.                    *)
FillFails(r) ==
  /\ pc[r] \in {"capturing", "ready", "producing", "writing"}
  /\ CloseFill(r)
  /\ fill' = [fill EXCEPT ![r].value = None]
  /\ UNCHANGED <<storeVars, call, found, waits, result, outlived>>

(* Mutant: DEL without comparing the token.                                *)
ReleaseAnyLease(r) ==
  /\ pc[r] = "releasing"
  /\ Goto(r, "settling")
  /\ lease' = None
  /\ UNCHANGED <<stored, tagVersion, data, revalidating, acknowledged, localVars,
                 call, found, fill, waits, result, outlived>>

(* releaseLease: compare and delete.                                       *)
ReleaseLease(r) ==
  /\ pc[r] = "releasing"
  /\ Goto(r, "settling")
  /\ lease' = IF lease = r THEN None ELSE lease
  /\ UNCHANGED <<stored, tagVersion, data, revalidating, acknowledged, localVars,
                 call, found, fill, waits, result, outlived>>

(* releaseLease rejects; the error is only reported.                       *)
ReleaseFails(r) ==
  /\ pc[r] = "releasing"
  /\ Goto(r, "settling")
  /\ UNCHANGED <<storeVars, localVars, call, found, fill, waits, result, outlived>>

(* The .finally of getOrSet, and the promise settles for all who await it. *)
Settle(r) ==
  LET heirs == {q \in Requests : pc[q] = "joined" /\ waits[q] = r} \cup {r}
  IN /\ pc[r] = "settling"
     /\ inflight' = IF inflight[Home(r)] = r
                      THEN [inflight EXCEPT ![Home(r)] = None] ELSE inflight
     /\ pc' = [q \in Requests |-> IF q \in heirs THEN "done" ELSE pc[q]]
     /\ result' = [q \in Requests |-> IF q \in heirs THEN fill[r].value ELSE result[q]]
     /\ fill' = [fill EXCEPT ![r] = NoFill]
     /\ outlived' = outlived \ {r}
     /\ UNCHANGED <<storeVars, version, generation, mark, active, announced,
                    call, found, waits>>

(* The adapter rejects a lookup: getOrSet rejects.                         *)
LookupFails(r) ==
  /\ pc[r] \in {"getting", "checking"}
  /\ Goto(r, "done")
  /\ found' = [found EXCEPT ![r] = None]
  /\ UNCHANGED <<storeVars, localVars, call, fill, waits, result, outlived>>

(* acquireLease or a poll rejects: the fill ends before it was registered. *)
LeaseFails(r) ==
  /\ pc[r] \in {"leasing", "polling", "comparing", "retrying"}
  /\ Goto(r, "settling")
  /\ found' = [found EXCEPT ![r] = None]
  /\ UNCHANGED <<storeVars, localVars, call, fill, waits, result, outlived>>

-----------------------------------------------------------------------------
Forget(R) ==
  /\ call' = [r \in Requests |-> IF r \in R THEN NoCall ELSE call[r]]
  /\ found' = [r \in Requests |-> IF r \in R THEN None ELSE found[r]]
  /\ fill' = [r \in Requests |-> IF r \in R THEN NoFill ELSE fill[r]]
  /\ waits' = [r \in Requests |-> IF r \in R THEN r ELSE waits[r]]
  /\ result' = [r \in Requests |-> IF r \in R THEN None ELSE result[r]]

(* The caller has its answer; the name is free for another call.           *)
Return(r) ==
  /\ pc[r] = "done"
  /\ Goto(r, "idle")
  /\ Forget({r})
  /\ UNCHANGED <<storeVars, localVars, outlived>>

(* Mutant: pruning compares with the version before the invalidation.      *)
MarksOffByOne(s) ==
  /\ CallInvalidateTags(s)
  /\ version[s] < MaxInvalidations
  /\ version' = [version EXCEPT ![s] = @ + 1]
  /\ mark' = [mark EXCEPT ![s] =
                IF \E q \in active[s] : fill[q].createdVersion < version[s]
                  THEN version[s] + 1 ELSE 0]
  /\ announced' = [announced EXCEPT ![s] = data]
  /\ UNCHANGED <<generation, active, inflight, requestVars, outlived>>

(* invalidateTag, and the call of the store.                               *)
RevalidateTag(s) ==
  /\ CallInvalidateTags(s)
  /\ version[s] < MaxInvalidations
  /\ version' = [version EXCEPT ![s] = @ + 1]
  /\ mark' = [mark EXCEPT ![s] =
                IF \E q \in active[s] : fill[q].createdVersion < version[s] + 1
                  THEN version[s] + 1 ELSE 0]
  /\ announced' = [announced EXCEPT ![s] = data]
  /\ UNCHANGED <<generation, active, inflight, requestVars, outlived>>

TagInvalidated(s) == InvalidateTags(s) /\ UNCHANGED <<localVars, requestVars, outlived>>

RevalidationFails(s) ==
  /\ Starting(s)
  /\ AbandonInvalidateTags(s)
  /\ UNCHANGED <<localVars, requestVars, outlived>>

(* What clear, configure and a new process have in common.                 *)
EmptyLocal(s) ==
  /\ generation[s] < MaxResets
  /\ generation' = [generation EXCEPT ![s] = @ + 1]
  /\ version' = [version EXCEPT ![s] = 0]
  /\ mark' = [mark EXCEPT ![s] = 0]
  /\ active' = [active EXCEPT ![s] = {}]
  /\ inflight' = [inflight EXCEPT ![s] = None]
  /\ UNCHANGED announced

ResetLocal(s) ==
  /\ EmptyLocal(s)
  /\ UNCHANGED <<storeVars, requestVars, outlived>>

(* The server dies, and its requests with it; the lease stays in the store. *)
Crash(s) ==
  LET lost == {r \in Requests : Home(r) = s}
  IN /\ EmptyLocal(s)
     /\ Forget(lost)
     /\ pc' = [r \in Requests |-> IF r \in lost THEN "idle" ELSE pc[r]]
     /\ AbandonInvalidateTags(s)
     /\ outlived' = outlived \ lost

(* The fills that hold a lease they have not released.                     *)
Holders == {r \in Requests : fill[r].token /\ pc[r] \in
              {"capturing", "ready", "producing", "writing", "releasing"}}

ExpireLease ==
  /\ LeaseExpires
  /\ outlived' = outlived \cup ({lease} \cap Holders)
  /\ UNCHANGED <<localVars, requestVars>>

-----------------------------------------------------------------------------
Lookup(r) == ReadEntry(r) \/ CheckEntry(r)

AwaitHolder(r) ==
  \/ AcquireLease(r)
  \/ LeaseTaken(r)
  \/ PollEntry(r)
  \/ CompareEntry(r)
  \/ StopPolling(r)
  \/ RetryLease(r)

RunFill(r) ==
  \/ CaptureTagVersions(r)
  \/ CallProducer(r)
  \/ ProducerReturns(r)
  \/ ProducerReturnsLate(r)
  \/ WriteEntry(r)
  \/ ReleaseLease(r)
  \/ Settle(r)

Continue(r) == Lookup(r) \/ JoinInflight(r) \/ StartFill(r) \/ AwaitHolder(r) \/ RunFill(r)

CallFails(r) == LookupFails(r) \/ LeaseFails(r) \/ FillFails(r) \/ ReleaseFails(r)

Environment ==
  /\ WriteData \/ DropEntry
  /\ UNCHANGED <<localVars, requestVars, outlived>>

Next ==
  \/ \E r \in Requests, s \in Servers : GetOrSet(r, s)
  \/ \E r \in Requests : Continue(r) \/ PollTimesOut(r) \/ CallFails(r) \/ Return(r)
  \/ \E s \in Servers :
       \/ RevalidateTag(s)
       \/ TagInvalidated(s)
       \/ RevalidationFails(s)
       \/ ResetLocal(s)
       \/ Crash(s)
  \/ Environment
  \/ ExpireLease

Spec == Init /\ [][Next]_vars

(* A call of the store or of the producer that does not reject returns,    *)
(* and the event loop runs its continuation; the deadline of a poll passes *)
(* however often the poll was in the middle of a read.                     *)
Fairness ==
  \A r \in Requests : WF_vars(Continue(r)) /\ SF_vars(PollTimesOut(r))

FairSpec == Spec /\ Fairness

-----------------------------------------------------------------------------
(* Properties                                                              *)

(* The state has the shape the classes and the locals of their calls give it. *)
TypeOK ==
  /\ StoreTypeOK
  /\ version \in [Servers -> Nat]
  /\ generation \in [Servers -> Nat]
  /\ mark \in [Servers -> Nat]
  /\ active \in [Servers -> SUBSET Requests]
  /\ inflight \in [Servers -> Requests \cup {None}]
  /\ announced \in [Servers -> Nat]
  /\ pc \in [Requests -> PC]
  /\ call \in [Requests -> Call \cup {NoCall}]
  /\ found \in [Requests -> StoredEntry \cup {None}]
  /\ fill \in [Requests -> Fill]
  /\ waits \in [Requests -> Requests]
  /\ result \in [Requests -> Nat \cup {None}]
  /\ outlived \subseteq Requests

(* A getOrSet that finds an entry, polls one from the lease holder or runs *)
(* the producer itself returns data no older than every revalidation that  *)
(* had completed on any server when it was called: entries carry the tag   *)
(* version captured before their producer ran, and nothing else says so.   *)
(* Of a getOrSet that joined another's fill it says nothing.               *)
OwnReadsAreFresh ==
  \A r \in Requests :
    pc[r] = "done" /\ waits[r] = r /\ result[r] # None => result[r] >= call[r].floor

(* A reader never shares the value of an active fill produced before a     *)
(* revalidation its own server had announced when it called: the server's  *)
(* mark survives as long as one active fill is older than it, whatever     *)
(* other fills, resets and retried leases do in between.  Revalidations of *)
(* another server leave no mark on this one, and are not covered.          *)
ActiveFillsAreFresh ==
  \A r \in Requests :
    LET f == waits[r]
    IN pc[r] = "joined" /\ f \in active[Home(r)] /\ fill[f].value # None
         => fill[f].value >= call[r].announced

(* The lease a fill holds is not taken from it while its period lasts: the *)
(* release of a fill that outlived its own lease frees nobody else's.      *)
LeaseHeld == \A r \in Holders \ outlived : lease = r

(* "A fill that started before one of its tags was invalidated cannot      *)
(* satisfy later readers" (the comment of wasInvalidatedSince): what a     *)
(* reader shares is no older than the revalidations that had completed     *)
(* when it was called.                                                     *)
InvalidatedFillsAreNotShared ==
  \A r \in Requests :
    LET f == waits[r]
    IN pc[r] = "joined" /\ pc[f] \in {"producing", "writing", "releasing", "settling"}
         /\ fill[f].value # None => fill[f].value >= call[r].floor

(* Every getOrSet settles, also when the server holding the lease has died *)
(* and the lease never expires, unless its own server dies.                *)
RequestsSettle ==
  \A r \in Requests : pc[r] # "idle" ~> pc[r] \in {"done", "idle"}

(* What the callers see of their requests.                                 *)
StatusOf(r) ==
  CASE pc[r] = "idle" -> "idle"
    [] pc[r] = "done" -> "closed"
    [] OTHER -> "open"

Promise == INSTANCE RevalidatedData WITH
  Nothing <- None,
  status <- [r \in Requests |-> StatusOf(r)],
  server <- [r \in Requests |-> call[r].server],
  floor  <- [r \in Requests |-> call[r].floor],
  answer <- result

(* The servers, their leases, marks and captured tag versions together are *)
(* a cache that answers one call, or several of one server together, with  *)
(* data covering the revalidations completed before at least one of those  *)
(* calls, and with nothing newer than what was written.                    *)
ImplementsRevalidatedData == Promise!DataSpec

=============================================================================
