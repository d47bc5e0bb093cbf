------------------------------- MODULE TagStore -------------------------------
(***************************************************************************)
(* What the servers of a deployment share when a cache adapter is          *)
(* configured: the FarmCacheAdapter contract of packages/farm/src/cache.ts *)
(* as redisCache of packages/farm-cache-redis/src/index.ts implements it.  *)
(* It follows one cache key, the one tag its callers give it and its       *)
(* regeneration lease; keys do not interact in the store, and an entry is  *)
(* stale as soon as one of its tags makes it so.                           *)
(*                                                                         *)
(* The data the key caches is a counter of the writes made to it, so that  *)
(* a value is the number of writes its producer saw.                       *)
(***************************************************************************)
EXTENDS Integers, FiniteSets

CONSTANTS
  Servers,          \* server instances
  Requests,         \* concurrent requests; a lease token is the name of its holder
  MaxData,          \* bound of the model: writes to the data
  MaxInvalidations, \* bound of the model: revalidations
  None              \* absent entry, lease, value or revalidation

ASSUME StoreBoundsAssumption == MaxData \in Nat /\ MaxInvalidations \in Nat
ASSUME StoreNoneAssumption ==
  /\ None \notin Requests
  /\ None \notin Nat
  /\ None \notin [tagVersion : Nat, seen : Nat]

VARIABLES
  stored,        \* the entry at the key: tag version it was captured at, data seen
  tagVersion,    \* the tag's counter
  lease,         \* the request holding the lease
  data,          \* environment: writes made to the data
  revalidating,  \* revalidateTagAsync awaiting the store, per server: data it covers
  acknowledged   \* history: data covered by the revalidations that have completed

storeVars == <<stored, tagVersion, lease, data, revalidating, acknowledged>>

StoredEntry == [tagVersion : Nat, seen : Nat]

StoreTypeOK ==
  /\ stored \in StoredEntry \cup {None}
  /\ tagVersion \in Nat
  /\ lease \in Requests \cup {None}
  /\ data \in Nat
  /\ revalidating \in [Servers -> Nat \cup {None}]
  /\ acknowledged \in Nat

StoreInit ==
  /\ stored = None
  /\ tagVersion = 0
  /\ lease = None
  /\ data = 0
  /\ revalidating = [s \in Servers |-> None]
  /\ acknowledged = 0

-----------------------------------------------------------------------------
(* isAdapterEntryStale, with the tag version the store has now.            *)
IsAdapterEntryStale(e) == tagVersion > e.tagVersion

Larger(m, n) == IF m > n THEN m ELSE n

(* The application writes the data the key caches.                         *)
WriteData ==
  /\ data < MaxData
  /\ data' = data + 1
  /\ UNCHANGED <<stored, tagVersion, lease, revalidating, acknowledged>>

(* The store drops the entry: PX expiry, eviction, or a reader's delete of *)
(* an expired entry.                                                       *)
DropEntry ==
  /\ stored # None
  /\ stored' = None
  /\ UNCHANGED <<tagVersion, lease, data, revalidating, acknowledged>>

Starting(s) == revalidating[s] # None
Room == tagVersion + Cardinality({s \in Servers : Starting(s)}) < MaxInvalidations

(* revalidateTagAsync on server s up to its await.                         *)
CallInvalidateTags(s) ==
  /\ revalidating[s] = None
  /\ Room
  /\ revalidating' = [revalidating EXCEPT ![s] = data]
  /\ UNCHANGED <<stored, tagVersion, lease, data, acknowledged>>

(* invalidateTags: INCR, and the caller's await returns.                   *)
InvalidateTags(s) ==
  /\ Starting(s)
  /\ tagVersion' = tagVersion + 1
  /\ acknowledged' = Larger(acknowledged, revalidating[s])
  /\ revalidating' = [revalidating EXCEPT ![s] = None]
  /\ UNCHANGED <<stored, lease, data>>

(* invalidateTags rejects, or its server dies: nothing was promised.       *)
AbandonInvalidateTags(s) ==
  /\ revalidating' = [revalidating EXCEPT ![s] = None]
  /\ UNCHANGED <<stored, tagVersion, lease, data, acknowledged>>

(* The lease outlives its PX period.                                       *)
LeaseExpires ==
  /\ lease # None
  /\ lease' = None
  /\ UNCHANGED <<stored, tagVersion, data, revalidating, acknowledged>>
=============================================================================
