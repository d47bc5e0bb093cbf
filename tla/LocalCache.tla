------------------------------ MODULE LocalCache ------------------------------
(***************************************************************************)
(* The in-process data cache: class FarmDataCache of                       *)
(* packages/farm/src/cache.ts when no adapter is configured (the default). *)
(* One JavaScript realm owns the state; every action below is the code a   *)
(* request runs between two awaits, so actions interleave but never        *)
(* overlap.                                                                *)
(*                                                                         *)
(* An invalidation does not touch entries: it leaves a mark, the version at *)
(* which the tag was invalidated, and an entry or a running fill whose     *)
(* createdVersion is older than the mark of one of its tags is stale.      *)
(* Marks are pruned as soon as nothing stale can depend on them.  What can *)
(* go wrong is that a mark is dropped, or a version compared, so that      *)
(* something produced before an invalidation looks fresh after it.         *)
(*                                                                         *)
(* A value stands for what its producer saw: the number of invalidations   *)
(* of each tag (epoch) and of clears (generation) when it read its data.   *)
(***************************************************************************)
EXTENDS Integers, FiniteSets

CONSTANTS
  Keys,           \* cache keys
  Tags,           \* cache tags
  TagSets,        \* the tag sets callers use, a subset of SUBSET Tags
  Requests,       \* concurrent getOrSet calls; a request's own fill has its name
  MaxEntries,     \* config.maxEntries
  MaxVersion,     \* bound of the model: sets and invalidations per generation
  MaxGeneration,  \* bound of the model: clears
  None            \* absent entry, value or fill

ASSUME TagSetsAssumption == TagSets \subseteq SUBSET Tags
ASSUME MaxEntriesAssumption == MaxEntries \in Nat \ {0}
ASSUME BoundsAssumption == MaxVersion \in Nat /\ MaxGeneration \in Nat
ASSUME NoneAssumption ==
  /\ None \notin Requests
  /\ None \notin [tags : SUBSET Tags, generation : Nat, epoch : [Tags -> Nat]]
  /\ None \notin [tags : SUBSET Tags, stale : BOOLEAN]

VARIABLES
  entries,     \* Map key -> entry; entriesByTag is derived from it
  older,       \* insertion order of that Map: <<j, k>> when j was touched before k
  marks,       \* invalidatedTagVersions; 0 is an absent mark
  active,      \* activeGenerations: requests whose fill is registered
  inflight,    \* Map key -> the request whose fill promise is shared
  version,     \* this.version
  generation,  \* this.generation
  pc,          \* where each request is
  call,        \* its arguments, and what had been invalidated when it was made
  fill,        \* the locals of fillCacheEntry
  waits,       \* whose promise the request awaits
  result,      \* what the caller receives
  epoch        \* history: number of invalidations of each tag so far

cacheVars   == <<entries, older, marks, active, inflight, version, generation>>
requestVars == <<pc, call, fill, waits, result>>
vars        == <<cacheVars, requestVars, epoch>>

-----------------------------------------------------------------------------
(* Values, entries, calls and fills                                        *)

Value == [tags : SUBSET Tags, generation : Nat, epoch : [Tags -> Nat]]
Entry == [tags : SUBSET Tags, createdVersion : Nat, expired : BOOLEAN, value : Value]
Call  == [key : Keys, tags : SUBSET Tags, generation : Nat, epoch : [Tags -> Nat]]
Fill  == [startVersion : Nat, createdVersion : Nat, generation : Nat,
          value : Value \cup {None}]
PC    == {"idle", "looked", "started", "producing", "stored", "finished",
          "joined", "done"}

NoEntry == [tags |-> {}, createdVersion |-> 0, expired |-> TRUE, value |-> None]
NoCall  == [key |-> None, tags |-> {}, generation |-> 0, epoch |-> [t \in Tags |-> 0]]
NoFill  == [startVersion |-> 0, createdVersion |-> 0, generation |-> 0, value |-> None]

(* What a producer of data tagged T sees now.                              *)
Seen(T) == [tags |-> T, generation |-> generation, epoch |-> epoch]

(* v was produced no earlier than the invalidations and clears that had    *)
(* happened when call c was made.                                          *)
Fresh(v, c) ==
  /\ v.generation >= c.generation
  /\ \A t \in v.tags : v.epoch[t] >= c.epoch[t]

Cached(es) == {k \in Keys : es[k] # NoEntry}

IsStale(e) ==
  \/ e.expired
  \/ \E t \in e.tags : marks[t] > e.createdVersion

WasInvalidatedSince(T, v) == \E t \in T : marks[t] > v

-----------------------------------------------------------------------------
(* The Map's insertion order, which is the LRU order                       *)

Touch(k, S) == {p \in older : k \notin {p[1], p[2]}} \cup {<<j, k>> : j \in S \ {k}}
Forget(o, S) == {p \in o : p[1] \notin S /\ p[2] \notin S}
Oldest(o, S) == CHOOSE k \in S : \A j \in S \ {k} : <<k, j>> \in o

(* Some entry of es or some fill of act would be stale only because of a   *)
(* mark v on tag t.                                                        *)
Dependent(t, v, es, act) ==
  \/ \E k \in Cached(es) : t \in es[k].tags /\ es[k].createdVersion < v
  \/ \E r \in act : t \in call[r].tags /\ fill[r].createdVersion < v

PruneInvalidatedTagVersions(T, m, es, act) ==
  [t \in Tags |-> IF t \in T /\ ~Dependent(t, m[t], es, act) THEN 0 ELSE m[t]]

(* Mutant: the eviction loop is missing.                                   *)
StoreWithoutEviction(k, e) ==
  LET put == [entries EXCEPT ![k] = e]
  IN /\ entries' = put
     /\ older' = Touch(k, Cached(put))
     /\ marks' = PruneInvalidatedTagVersions(entries[k].tags, marks, put, active)

(* Mutant: Map.set without the delete before it, which keeps the place of a *)
(* key that was there.                                                     *)
StoreInPlace(k, e) ==
  LET put    == [entries EXCEPT ![k] = e]
      recent == IF entries[k] = NoEntry THEN Touch(k, Cached(put)) ELSE older
      victim == IF Cardinality(Cached(put)) > MaxEntries
                  THEN {Oldest(recent, Cached(put))} ELSE {}
      kept   == [j \in Keys |-> IF j \in victim THEN NoEntry ELSE put[j]]
  IN /\ entries' = kept
     /\ older' = Forget(recent, victim)
     /\ marks' = PruneInvalidatedTagVersions(
                   UNION {entries[j].tags : j \in {k} \cup victim}, marks, kept, active)

(* Replace the entry of k, evict the least recently used entry beyond the  *)
(* capacity, and prune the tags of what left the cache.                    *)
StoreLocalEntry(k, e) ==
  LET put    == [entries EXCEPT ![k] = e]
      recent == Touch(k, Cached(put))
      victim == IF Cardinality(Cached(put)) > MaxEntries
                  THEN {Oldest(recent, Cached(put))} ELSE {}
      kept   == [j \in Keys |-> IF j \in victim THEN NoEntry ELSE put[j]]
      gone   == UNION {entries[j].tags : j \in {k} \cup (victim \cap Keys)}
  IN /\ entries' = kept
     /\ older' = Forget(recent, victim)
     /\ marks' = PruneInvalidatedTagVersions(gone, marks, kept, active)

-----------------------------------------------------------------------------
Init ==
  /\ entries = [k \in Keys |-> NoEntry]
  /\ older = {}
  /\ marks = [t \in Tags |-> 0]
  /\ active = {}
  /\ inflight = [k \in Keys |-> None]
  /\ version = 0
  /\ generation = 0
  /\ pc = [r \in Requests |-> "idle"]
  /\ call = [r \in Requests |-> NoCall]
  /\ fill = [r \in Requests |-> NoFill]
  /\ waits = [r \in Requests |-> r]
  /\ result = [r \in Requests |-> None]
  /\ epoch = [t \in Tags |-> 0]

-----------------------------------------------------------------------------
(* getOrSet and fillCacheEntry                                             *)

(* getOrSet up to its first await: the lookup of getEntryAsync.            *)
GetOrSet(r, k, T) ==
  /\ pc[r] = "idle"
  /\ call' = [call EXCEPT ![r] = [key |-> k, tags |-> T,
                                  generation |-> generation, epoch |-> epoch]]
  /\ IF entries[k] # NoEntry /\ ~IsStale(entries[k])
       THEN /\ older' = Touch(k, Cached(entries))
            /\ pc' = [pc EXCEPT ![r] = "done"]
            /\ result' = [result EXCEPT ![r] = entries[k].value]
       ELSE /\ pc' = [pc EXCEPT ![r] = "looked"]
            /\ UNCHANGED <<older, result>>
  /\ UNCHANGED <<entries, marks, active, inflight, version, generation,
                 fill, waits, epoch>>

(* Mutant: any fill in flight is shared.                                   *)
JoinableWhateverItsAge(r) == inflight[call[r].key] # None

(* The fill in flight for r's key may be shared.                           *)
Joinable(r) ==
  LET f == inflight[call[r].key]
  IN f # None /\ ~WasInvalidatedSince(call[f].tags, fill[f].startVersion)

(* The lookup missed and a fill is in flight: await its promise.           *)
JoinInflight(r) ==
  /\ pc[r] = "looked"
  /\ Joinable(r)
  /\ pc' = [pc EXCEPT ![r] = "joined"]
  /\ waits' = [waits EXCEPT ![r] = inflight[call[r].key]]
  /\ UNCHANGED <<cacheVars, call, fill, result, epoch>>

(* The lookup missed: register a fill, up to its await of the tag versions. *)
StartFill(r) ==
  /\ pc[r] = "looked"
  /\ ~Joinable(r)
  /\ fill' = [fill EXCEPT ![r] = [startVersion |-> version, createdVersion |-> version,
                                  generation |-> generation, value |-> None]]
  /\ active' = active \cup {r}
  /\ inflight' = [inflight EXCEPT ![call[r].key] = r]
  /\ pc' = [pc EXCEPT ![r] = "started"]
  /\ UNCHANGED <<entries, older, marks, version, generation, call, waits, result, epoch>>

(* producer() runs and reads its data.                                     *)
CallProducer(r) ==
  /\ pc[r] = "started"
  /\ fill' = [fill EXCEPT ![r].value = Seen(call[r].tags)]
  /\ pc' = [pc EXCEPT ![r] = "producing"]
  /\ UNCHANGED <<cacheVars, call, waits, result, epoch>>

(* Mutant: the finally block does not prune.                               *)
CloseWithoutPruning(r) ==
  /\ active' = active \ {r}
  /\ pc' = [pc EXCEPT ![r] = "finished"]
  /\ UNCHANGED marks

(* The finally block of fillCacheEntry.                                    *)
CloseFill(r) ==
  /\ active' = active \ {r}
  /\ marks' = PruneInvalidatedTagVersions(call[r].tags, marks, entries, active \ {r})
  /\ pc' = [pc EXCEPT ![r] = "finished"]

(* Mutants: the write does not wait for the producer; it does not compare  *)
(* generations; it takes the version at the time of the write.             *)
StoreEntry(r, v) ==
  /\ StoreLocalEntry(call[r].key, [tags |-> call[r].tags, createdVersion |-> v,
                                   expired |-> FALSE, value |-> fill[r].value])
  /\ pc' = [pc EXCEPT ![r] = "stored"]
  /\ UNCHANGED <<active, inflight, version, generation, call, fill, waits, result, epoch>>

WritesBeforeProducer(r) ==
  /\ pc[r] \in {"started", "producing"}
  /\ fill[r].generation = generation
  /\ StoreEntry(r, fill[r].createdVersion)

WritesAfterClear(r) ==
  /\ pc[r] = "producing"
  /\ StoreEntry(r, fill[r].createdVersion)

WritesWithLateVersion(r) ==
  /\ pc[r] = "producing"
  /\ fill[r].generation = generation
  /\ StoreEntry(r, version)

(* The producer resolved and no clear intervened: write the entry with the *)
(* version captured before the producer ran.                               *)
ProducerReturns(r) ==
  /\ pc[r] = "producing"
  /\ fill[r].generation = generation
  /\ StoreLocalEntry(call[r].key,
                     [tags |-> call[r].tags, createdVersion |-> fill[r].createdVersion,
                      expired |-> FALSE, value |-> fill[r].value])
  /\ pc' = [pc EXCEPT ![r] = "stored"]
  /\ UNCHANGED <<active, inflight, version, generation, call, fill, waits, result, epoch>>

(* The producer resolved after a clear: the value is returned, not cached. *)
ProducerReturnsLate(r) ==
  /\ pc[r] = "producing"
  /\ fill[r].generation # generation
  /\ CloseFill(r)
  /\ UNCHANGED <<entries, older, inflight, version, generation,
                 call, fill, waits, result, epoch>>

(* Mutant: a rejection skips the finally blocks.                           *)
FailsWithoutFinally(r) ==
  /\ pc[r] = "producing"
  /\ pc' = [pc EXCEPT ![r] = "done"]
  /\ UNCHANGED <<cacheVars, call, fill, waits, result, epoch>>

(* The producer rejected.                                                  *)
ProducerFails(r) ==
  /\ pc[r] = "producing"
  /\ fill' = [fill EXCEPT ![r].value = None]
  /\ CloseFill(r)
  /\ UNCHANGED <<entries, older, inflight, version, generation,
                 call, waits, result, epoch>>

FinishFill(r) ==
  /\ pc[r] = "stored"
  /\ CloseFill(r)
  /\ UNCHANGED <<entries, older, inflight, version, generation,
                 call, fill, waits, result, epoch>>

(* Mutant: the fill removes whatever is in flight for its key.             *)
SettleAnyFill(r) ==
  LET k     == call[r].key
      heirs == {q \in Requests : pc[q] = "joined" /\ waits[q] = r} \cup {r}
  IN /\ pc[r] = "finished"
     /\ inflight' = [inflight EXCEPT ![k] = None]
     /\ pc' = [q \in Requests |-> IF q \in heirs THEN "done" ELSE pc[q]]
     /\ result' = [q \in Requests |-> IF q \in heirs THEN fill[r].value ELSE result[q]]
     /\ UNCHANGED <<entries, older, marks, active, version, generation,
                    call, fill, waits, epoch>>

(* The .finally of getOrSet: the fill leaves inflight and its promise      *)
(* settles for every request that awaits it.                               *)
SettleFill(r) ==
  LET k     == call[r].key
      heirs == {q \in Requests : pc[q] = "joined" /\ waits[q] = r} \cup {r}
  IN /\ pc[r] = "finished"
     /\ inflight' = IF inflight[k] = r THEN [inflight EXCEPT ![k] = None] ELSE inflight
     /\ pc' = [q \in Requests |-> IF q \in heirs THEN "done" ELSE pc[q]]
     /\ result' = [q \in Requests |-> IF q \in heirs THEN fill[r].value ELSE result[q]]
     /\ UNCHANGED <<entries, older, marks, active, version, generation,
                    call, fill, waits, epoch>>

(* The caller has its answer; the request may be reused for another call.  *)
Return(r) ==
  /\ pc[r] = "done"
  /\ pc' = [pc EXCEPT ![r] = "idle"]
  /\ call' = [call EXCEPT ![r] = NoCall]
  /\ fill' = [fill EXCEPT ![r] = NoFill]
  /\ waits' = [waits EXCEPT ![r] = r]
  /\ result' = [result EXCEPT ![r] = None]
  /\ UNCHANGED <<cacheVars, epoch>>

-----------------------------------------------------------------------------
(* The other operations                                                    *)

(* get and getEntry: a hit moves the entry to the back of the LRU order.   *)
GetEntry(k, allowStale) ==
  /\ entries[k] # NoEntry
  /\ allowStale \/ ~IsStale(entries[k])
  /\ older' = Touch(k, Cached(entries))
  /\ UNCHANGED <<entries, marks, active, inflight, version, generation,
                 requestVars, epoch>>

(* set: the synchronous write, which takes its version in the instant its  *)
(* value is given.  setAsync awaits between the two; PageShells models it. *)
Set(k, T) ==
  /\ version < MaxVersion
  /\ version' = version + 1
  /\ StoreLocalEntry(k, [tags |-> T, createdVersion |-> version + 1,
                         expired |-> FALSE, value |-> Seen(T)])
  /\ UNCHANGED <<active, inflight, generation, requestVars, epoch>>

Delete(k) ==
  LET kept == [entries EXCEPT ![k] = NoEntry]
  IN /\ entries[k] # NoEntry
     /\ entries' = kept
     /\ older' = Forget(older, {k})
     /\ marks' = PruneInvalidatedTagVersions(entries[k].tags, marks, kept, active)
     /\ UNCHANGED <<active, inflight, version, generation, requestVars, epoch>>

(* revalidateTag, updateTag and revalidatePath (a path is a tag).          *)
InvalidateTag(t) ==
  /\ version < MaxVersion
  /\ version' = version + 1
  /\ marks' = PruneInvalidatedTagVersions({t}, [marks EXCEPT ![t] = version + 1],
                                          entries, active)
  /\ epoch' = [epoch EXCEPT ![t] = @ + 1]
  /\ UNCHANGED <<entries, older, active, inflight, generation, requestVars>>

(* clear and configure.                                                    *)
ResetLocal ==
  /\ generation < MaxGeneration
  /\ generation' = generation + 1
  /\ entries' = [k \in Keys |-> NoEntry]
  /\ older' = {}
  /\ marks' = [t \in Tags |-> 0]
  /\ active' = {}
  /\ inflight' = [k \in Keys |-> None]
  /\ version' = 0
  /\ UNCHANGED <<requestVars, epoch>>

(* The revalidate period of an entry elapses.                              *)
Expire(k) ==
  /\ entries[k] # NoEntry
  /\ ~entries[k].expired
  /\ entries' = [entries EXCEPT ![k].expired = TRUE]
  /\ UNCHANGED <<older, marks, active, inflight, version, generation,
                 requestVars, epoch>>

-----------------------------------------------------------------------------
RunFill(r) ==
  \/ StartFill(r)
  \/ CallProducer(r)
  \/ ProducerReturns(r)
  \/ ProducerReturnsLate(r)
  \/ ProducerFails(r)
  \/ FinishFill(r)
  \/ SettleFill(r)

Next ==
  \/ \E r \in Requests, k \in Keys, T \in TagSets : GetOrSet(r, k, T)
  \/ \E r \in Requests : JoinInflight(r) \/ RunFill(r) \/ Return(r)
  \/ \E k \in Keys, allowStale \in BOOLEAN : GetEntry(k, allowStale)
  \/ \E k \in Keys, T \in TagSets : Set(k, T)
  \/ \E k \in Keys : Delete(k) \/ Expire(k)
  \/ \E t \in Tags : InvalidateTag(t)
  \/ ResetLocal

Spec == Init /\ [][Next]_vars

(* Continuations of settled promises are always run, and a producer that   *)
(* was called returns or throws.                                           *)
Fairness == \A r \in Requests : WF_vars(JoinInflight(r) \/ RunFill(r))

FairSpec == Spec /\ Fairness

-----------------------------------------------------------------------------
(* Properties                                                              *)

(* The state has the shape the class and the locals of its calls give it.  *)
TypeOK ==
  /\ entries \in [Keys -> Entry \cup {NoEntry}]
  /\ older \subseteq Keys \X Keys
  /\ marks \in [Tags -> Nat]
  /\ active \subseteq Requests
  /\ inflight \in [Keys -> Requests \cup {None}]
  /\ version \in Nat
  /\ generation \in Nat
  /\ pc \in [Requests -> PC]
  /\ call \in [Requests -> Call \cup {NoCall}]
  /\ fill \in [Requests -> Fill]
  /\ waits \in [Requests -> Requests]
  /\ result \in [Requests -> Value \cup {None}]
  /\ epoch \in [Tags -> Nat]

Running(r) == pc[r] \in {"started", "producing", "stored", "finished"}

(* A getOrSet that starts after an invalidation or a clear has completed   *)
(* never returns an entry, and never shares a fill that is still           *)
(* producing, whose data was read before it; whatever was pruned, evicted  *)
(* or replaced in between (isStale, wasInvalidatedSince and                *)
(* pruneInvalidatedTagVersions together).                                  *)
ReadsAreFresh ==
  \A r \in Requests :
    /\ pc[r] = "done" /\ waits[r] = r /\ result[r] # None => Fresh(result[r], call[r])
    /\ pc[r] = "joined" /\ pc[waits[r]] \in {"producing", "stored"}
          => Fresh(fill[waits[r]].value, call[r])

(* Nothing produced before a clear is in the cache after it: a fill that   *)
(* was running when clear() was called does not put its value back.        *)
NothingSurvivesClear ==
  \A k \in Cached(entries) : entries[k].value.generation = generation

(* The marks are the ones something still depends on: pruning the tags of  *)
(* what left the cache, and only those, leaks no invalidation mark.        *)
MarksHaveDependents ==
  \A t \in Tags : marks[t] # 0 => Dependent(t, marks[t], entries, active)

(* Two fills of a key run at the same time only if one of them was         *)
(* overtaken by an invalidation of its tags or by a clear: concurrent      *)
(* misses of a key share one producer call.                                *)
Overtaken(r) ==
  \/ fill[r].generation # generation
  \/ WasInvalidatedSince(call[r].tags, fill[r].startVersion)

SingleFlight ==
  \A r, q \in Requests :
    /\ r # q
    /\ pc[r] \in {"started", "producing"}
    /\ pc[q] \in {"started", "producing"}
    /\ call[r].key = call[q].key
    => Overtaken(r) \/ Overtaken(q)

(* The bits of TagCache, read off the versions and the marks; its changes  *)
(* are what this.version counts.                                           *)
Nothing == None

CachedItems ==
  [k \in Keys |-> IF entries[k] = NoEntry THEN Nothing
                  ELSE [tags |-> entries[k].tags, stale |-> IsStale(entries[k])]]

FillingItems ==
  [r \in Requests |->
     IF r \in active
       THEN [tags  |-> call[r].tags,
             stale |-> WasInvalidatedSince(call[r].tags, fill[r].createdVersion)]
       ELSE Nothing]

Promise == INSTANCE TagCache WITH cached <- CachedItems, filling <- FillingItems,
                                    changes <- version

(* LocalCache implements TagCache: an entry or a running fill is stale in  *)
(* the code exactly when one of its tags was invalidated since its data    *)
(* may have been read (or its period elapsed), although the code keeps no  *)
(* bit, compares versions that restart at every clear, and forgets marks.  *)
ImplementsTagCache == Promise!TagSpec

(* The Map never holds more than maxEntries entries, and the recency order *)
(* ranks exactly the cached keys (the eviction loop of storeLocalEntry).   *)
CapacityRespected ==
  /\ Cardinality(Cached(entries)) <= MaxEntries
  /\ \A j, k \in Keys :
       /\ <<j, k>> \in older => {j, k} \subseteq Cached(entries)
       /\ {j, k} \subseteq Cached(entries) /\ j # k
            => ((<<j, k>> \in older) # (<<k, j>> \in older))

(* Only the least recently used entry makes room.  When a key enters, no   *)
(* other leaves while there is room, and at the limit exactly one does:    *)
(* the one that every other cached key was used after.  A key is used when *)
(* it is written, over an entry of its own too, and when a getOrSet hits   *)
(* it (storeLocalEntry with detachLocalEntry, touchEntry).                 *)
Written(k) == entries'[k] # NoEntry /\ entries'[k] # entries[k] /\ ~entries'[k].expired
Hit(k) == \E r \in Requests : pc[r] = "idle" /\ pc'[r] = "done" /\ call'[r].key = k

MakesRoom ==
  LET before == Cached(entries)
      gone   == before \ Cached(entries')
  IN IF Cardinality(before) < MaxEntries THEN gone = {}
     ELSE \E v \in before : gone = {v} /\ \A j \in before \ {v} : <<v, j>> \in older

EvictsLeastRecent ==
  [][/\ Cached(entries') \subseteq Cached(entries) \/ MakesRoom
     /\ \A k \in Keys : Written(k) \/ Hit(k)
          => \A j \in Cached(entries') \ {k} : <<j, k>> \in older']_vars

(* Every request whose lookup missed gets an answer, whatever is           *)
(* invalidated, cleared or evicted meanwhile, and whichever producer fails.*)
RequestsSettle == \A r \in Requests : pc[r] = "looked" ~> pc[r] = "done"
=============================================================================
