--------------------------- MODULE LocalCacheProofs ---------------------------
(***************************************************************************)
(* Proofs about LocalCache, for any keys, tags, requests, capacity and     *)
(* bounds.                                                                 *)
(***************************************************************************)
EXTENDS LocalCache, TLAPS

(* What a request has, by where it is: a call once it started, a value     *)
(* once its producer was called.                                           *)
CallInv == \A r \in Requests : pc[r] # "idle" => call[r] \in Call

ValueInv ==
  \A r \in Requests :
    pc[r] \in {"producing", "stored"} =>
      fill[r].value \in Value /\ fill[r].value.tags = call[r].tags

TypeInv == TypeOK /\ CallInv /\ ValueInv

-----------------------------------------------------------------------------
LEMMA PruneType ==
  ASSUME NEW m \in [Tags -> Nat], NEW T, NEW es, NEW act
  PROVE  PruneInvalidatedTagVersions(T, m, es, act) \in [Tags -> Nat]
BY DEF PruneInvalidatedTagVersions

LEMMA TouchType ==
  ASSUME older \subseteq Keys \X Keys, NEW k \in Keys, NEW S \in SUBSET Keys
  PROVE  Touch(k, S) \subseteq Keys \X Keys
BY DEF Touch

LEMMA StoreType ==
  ASSUME TypeOK, NEW k \in Keys, NEW e \in Entry, StoreLocalEntry(k, e)
  PROVE  /\ entries' \in [Keys -> Entry \cup {NoEntry}]
         /\ older' \subseteq Keys \X Keys
         /\ marks' \in [Tags -> Nat]
<1> DEFINE put    == [entries EXCEPT ![k] = e]
           recent == Touch(k, Cached(put))
           victim == IF Cardinality(Cached(put)) > MaxEntries
                       THEN {Oldest(recent, Cached(put))} ELSE {}
           kept   == [j \in Keys |-> IF j \in victim THEN NoEntry ELSE put[j]]
           gone   == UNION {entries[j].tags : j \in {k} \cup (victim \cap Keys)}
<1>1. /\ entries' = kept
      /\ older' = Forget(recent, victim)
      /\ marks' = PruneInvalidatedTagVersions(gone, marks, kept, active)
  BY DEF StoreLocalEntry
<1>2. put \in [Keys -> Entry \cup {NoEntry}]
  BY DEF TypeOK
<1>3. kept \in [Keys -> Entry \cup {NoEntry}]
  BY <1>2
<1>4. Cached(put) \in SUBSET Keys
  BY DEF Cached
<1>5. recent \subseteq Keys \X Keys
  BY <1>4, TouchType DEF TypeOK
<1>6. older' \subseteq Keys \X Keys
  BY <1>1, <1>5 DEF Forget
<1>7. marks' \in [Tags -> Nat]
  BY <1>1, PruneType DEF TypeOK
<1> QED
  BY <1>1, <1>3, <1>6, <1>7

(* Type correctness, with what a request must hold where it is.            *)
THEOREM TypeCorrect == Spec => []TypeInv
<1>1. Init => TypeInv
  BY DEF Init, TypeInv, TypeOK, CallInv, ValueInv, NoEntry, NoCall, NoFill, Fill, PC
<1>2. TypeInv /\ [Next]_vars => TypeInv'
  <2> SUFFICES ASSUME TypeInv, [Next]_vars PROVE TypeInv'
    OBVIOUS
  <2> USE DEF TypeInv, TypeOK, CallInv, ValueInv, PC
  <2>1. ASSUME NEW r \in Requests, NEW k \in Keys, NEW T \in TagSets, GetOrSet(r, k, T)
        PROVE  TypeInv'
    <3>1. [key |-> k, tags |-> T, generation |-> generation, epoch |-> epoch] \in Call
      BY TagSetsAssumption DEF Call
    <3>2. call' \in [Requests -> Call \cup {NoCall}]
      BY <2>1, <3>1 DEF GetOrSet
    <3>3. older' \subseteq Keys \X Keys
      BY <2>1, TouchType DEF GetOrSet, Cached
    <3>4. result' \in [Requests -> Value \cup {None}]
      BY <2>1 DEF GetOrSet, Entry, NoEntry
    <3>5. pc' \in [Requests -> PC]
      BY <2>1 DEF GetOrSet
    <3> QED
      BY <2>1, <3>1, <3>2, <3>3, <3>4, <3>5 DEF GetOrSet
  <2>2. ASSUME NEW r \in Requests, JoinInflight(r)
        PROVE  TypeInv'
    BY <2>2 DEF JoinInflight, Joinable, cacheVars, Call
  <2>3. ASSUME NEW r \in Requests, StartFill(r)
        PROVE  TypeInv'
    BY <2>3 DEF StartFill, Fill
  <2>4. ASSUME NEW r \in Requests, CallProducer(r)
        PROVE  TypeInv'
    <3>1. Seen(call[r].tags) \in Value /\ Seen(call[r].tags).tags = call[r].tags
      BY <2>4 DEF CallProducer, Seen, Value, Call
    <3> QED
      BY <2>4, <3>1 DEF CallProducer, cacheVars, Fill
  <2>5. ASSUME NEW r \in Requests, ProducerReturns(r)
        PROVE  TypeInv'
    <3> DEFINE e == [tags |-> call[r].tags, createdVersion |-> fill[r].createdVersion,
                     expired |-> FALSE, value |-> fill[r].value]
    <3>1. call[r] \in Call /\ fill[r] \in Fill /\ fill[r].value \in Value
      BY <2>5 DEF ProducerReturns
    <3>2. e \in Entry /\ call[r].key \in Keys
      BY <3>1 DEF Entry, Call, Fill
    <3>3. /\ entries' \in [Keys -> Entry \cup {NoEntry}]
          /\ older' \subseteq Keys \X Keys
          /\ marks' \in [Tags -> Nat]
      BY <2>5, <3>2, StoreType DEF ProducerReturns
    <3> QED
      BY <2>5, <3>3 DEF ProducerReturns
  <2>6. ASSUME NEW r \in Requests, ProducerReturnsLate(r)
        PROVE  TypeInv'
    BY <2>6, PruneType DEF ProducerReturnsLate, CloseFill
  <2>7. ASSUME NEW r \in Requests, ProducerFails(r)
        PROVE  TypeInv'
    BY <2>7, PruneType DEF ProducerFails, CloseFill, Fill
  <2>8. ASSUME NEW r \in Requests, FinishFill(r)
        PROVE  TypeInv'
    BY <2>8, PruneType DEF FinishFill, CloseFill
  <2>9. ASSUME NEW r \in Requests, SettleFill(r)
        PROVE  TypeInv'
    BY <2>9 DEF SettleFill, Fill
  <2>10. ASSUME NEW r \in Requests, Return(r)
         PROVE  TypeInv'
    BY <2>10 DEF Return, cacheVars, NoFill, Fill
  <2>11. ASSUME NEW k \in Keys, NEW allowStale \in BOOLEAN, GetEntry(k, allowStale)
         PROVE  TypeInv'
    BY <2>11, TouchType DEF GetEntry, requestVars, Cached
  <2>12. ASSUME NEW k \in Keys, NEW T \in TagSets, Set(k, T)
         PROVE  TypeInv'
    <3> DEFINE e == [tags |-> T, createdVersion |-> version + 1,
                     expired |-> FALSE, value |-> Seen(T)]
    <3>1. e \in Entry
      BY TagSetsAssumption DEF Entry, Seen, Value
    <3>2. /\ entries' \in [Keys -> Entry \cup {NoEntry}]
          /\ older' \subseteq Keys \X Keys
          /\ marks' \in [Tags -> Nat]
      BY <2>12, <3>1, StoreType DEF Set
    <3> QED
      BY <2>12, <3>2 DEF Set, requestVars
  <2>13. ASSUME NEW k \in Keys, Delete(k)
         PROVE  TypeInv'
    BY <2>13, PruneType DEF Delete, Forget, requestVars
  <2>14. ASSUME NEW k \in Keys, Expire(k)
         PROVE  TypeInv'
    <3>1. [entries[k] EXCEPT !.expired = TRUE] \in Entry
      BY <2>14 DEF Expire, Entry
    <3> QED
      BY <2>14, <3>1 DEF Expire, requestVars
  <2>15. ASSUME NEW t \in Tags, InvalidateTag(t)
         PROVE  TypeInv'
    <3>1. [marks EXCEPT ![t] = version + 1] \in [Tags -> Nat]
      OBVIOUS
    <3>2. marks' \in [Tags -> Nat]
      BY <2>15, <3>1, PruneType DEF InvalidateTag
    <3>3. epoch' \in [Tags -> Nat] /\ version' \in Nat
      BY <2>15 DEF InvalidateTag
    <3>4. UNCHANGED <<entries, older, active, inflight, generation,
                      pc, call, fill, waits, result>>
      BY <2>15 DEF InvalidateTag, requestVars
    <3> QED
      BY <3>2, <3>3, <3>4
  <2>16. CASE ResetLocal
    BY <2>16 DEF ResetLocal, requestVars
  <2>17. CASE UNCHANGED vars
    BY <2>17 DEF vars, cacheVars, requestVars
  <2> QED
    BY <2>1, <2>2, <2>3, <2>4, <2>5, <2>6, <2>7, <2>8, <2>9, <2>10, <2>11, <2>12,
       <2>13, <2>14, <2>15, <2>16, <2>17 DEF Next, RunFill
<1> QED
  BY <1>1, <1>2, PTL DEF Spec

(* The state of the cache always has the shape of the class.               *)
THEOREM TypeSafe == Spec => []TypeOK
BY TypeCorrect, PTL DEF TypeInv

-----------------------------------------------------------------------------
(* The inductive invariant behind the safety properties.                   *)

(* No version in the state is ahead of the counter.                        *)
VersionInv ==
  /\ \A k \in Keys : entries[k].createdVersion <= version
  /\ \A t \in Tags : marks[t] <= version

(* A registered fill is one of this generation that has not finished; a    *)
(* running fill of this generation is registered.                          *)
ActiveInv ==
  /\ \A r \in active :
       /\ pc[r] \in {"started", "producing", "stored"}
       /\ fill[r].generation = generation
       /\ fill[r].createdVersion <= version
       /\ fill[r].startVersion = fill[r].createdVersion
  /\ \A r \in Requests :
       /\ fill[r].generation <= generation
       /\ pc[r] \in {"started", "producing", "stored"} /\ fill[r].generation = generation
            => r \in active

(* What is in flight for a key is a running fill of that key and of this   *)
(* generation.                                                             *)
InflightInv ==
  \A k \in Keys : inflight[k] # None =>
    /\ Running(inflight[k])
    /\ call[inflight[k]].key = k
    /\ fill[inflight[k]].generation = generation

(* A request that joined does not await itself, and no call is ahead of    *)
(* the history.                                                            *)
HistoryInv ==
  \A r \in Requests :
    /\ pc[r] = "joined" => waits[r] # r
    /\ call[r].generation <= generation
    /\ \A t \in Tags : call[r].epoch[t] <= epoch[t]

(* A cached value, or the value of a registered fill, has seen every       *)
(* invalidation of its tags, or the mark of a missed one is still there    *)
(* and newer than the version it carries.                                  *)
EntriesFresh ==
  \A k \in Keys : entries[k] # NoEntry =>
    /\ entries[k].value.generation = generation
    /\ entries[k].value.tags = entries[k].tags
    /\ \A t \in entries[k].tags :
         entries[k].value.epoch[t] >= epoch[t] \/ marks[t] > entries[k].createdVersion

FillsFresh ==
  \A r \in active : pc[r] \in {"producing", "stored"} =>
    /\ fill[r].value.generation = generation
    /\ \A t \in call[r].tags :
         fill[r].value.epoch[t] >= epoch[t] \/ marks[t] > fill[r].createdVersion

(* A fill's value is fresh for the request that runs it.                   *)
OwnFresh ==
  \A r \in Requests :
    pc[r] \in {"producing", "stored", "finished"} /\ fill[r].value # None
      => Fresh(fill[r].value, call[r])

FreshInv ==
  /\ VersionInv /\ ActiveInv /\ InflightInv /\ HistoryInv
  /\ EntriesFresh /\ FillsFresh /\ OwnFresh /\ ReadsAreFresh

-----------------------------------------------------------------------------
(* Pruning keeps the mark of every tag that an entry or a registered fill  *)
(* is stale by: it never makes anything look fresh.                        *)
LEMMA PruneKeeps ==
  ASSUME NEW m \in [Tags -> Nat], NEW T, NEW es, NEW act, NEW t \in Tags
  PROVE  LET p == PruneInvalidatedTagVersions(T, m, es, act)
         IN /\ p[t] \in {0, m[t]}
            /\ \A k \in Keys :
                 es[k] # NoEntry /\ t \in es[k].tags /\ es[k].createdVersion < m[t]
                   => p[t] = m[t]
            /\ \A r \in act :
                 t \in call[r].tags /\ fill[r].createdVersion < m[t] => p[t] = m[t]
BY DEF PruneInvalidatedTagVersions, Dependent, Cached

(* Storing an entry changes no other entry except by evicting it, and no   *)
(* mark that what remains is stale by.                                     *)
LEMMA StoreKeeps ==
  ASSUME TypeOK, NEW k \in Keys, NEW e \in Entry, StoreLocalEntry(k, e)
  PROVE  /\ \A j \in Keys : entries'[j] = NoEntry \/ entries'[j] = entries[j]
                            \/ (j = k /\ entries'[j] = e)
         /\ \A t \in Tags :
              /\ marks'[t] \in {0, marks[t]}
              /\ \A j \in Keys :
                   entries'[j] # NoEntry /\ t \in entries'[j].tags
                     /\ entries'[j].createdVersion < marks[t] => marks'[t] = marks[t]
              /\ \A r \in active :
                   t \in call[r].tags /\ fill[r].createdVersion < marks[t]
                     => marks'[t] = marks[t]
<1> DEFINE put    == [entries EXCEPT ![k] = e]
           recent == Touch(k, Cached(put))
           victim == IF Cardinality(Cached(put)) > MaxEntries
                       THEN {Oldest(recent, Cached(put))} ELSE {}
           kept   == [j \in Keys |-> IF j \in victim THEN NoEntry ELSE put[j]]
           gone   == UNION {entries[j].tags : j \in {k} \cup (victim \cap Keys)}
<1>1. /\ entries' = kept
      /\ marks' = PruneInvalidatedTagVersions(gone, marks, kept, active)
  BY DEF StoreLocalEntry
<1>2. \A j \in Keys : kept[j] = NoEntry \/ kept[j] = entries[j] \/ (j = k /\ kept[j] = e)
  <2> SUFFICES ASSUME NEW j \in Keys
               PROVE  kept[j] = NoEntry \/ kept[j] = entries[j] \/ (j = k /\ kept[j] = e)
    OBVIOUS
  <2>1. kept[j] = NoEntry \/ kept[j] = put[j]
    OBVIOUS
  <2>2. put[j] = entries[j] \/ (j = k /\ put[j] = e)
    BY DEF TypeOK
  <2> QED
    BY <2>1, <2>2
<1>3. marks \in [Tags -> Nat]
  BY DEF TypeOK
<1> HIDE DEF kept, gone
<1> QED
  BY <1>1, <1>2, <1>3, PruneKeeps

-----------------------------------------------------------------------------
(* One lemma per action: it preserves FreshInv.                            *)

LEMMA GetOrSetFresh ==
  ASSUME TypeInv, FreshInv, NEW r \in Requests, NEW k \in Keys, NEW T \in TagSets,
         GetOrSet(r, k, T)
  PROVE  FreshInv'
<1> USE DEF TypeInv, TypeOK, FreshInv
<1> DEFINE c == [key |-> k, tags |-> T, generation |-> generation, epoch |-> epoch]
<1>1. /\ pc[r] = "idle"
      /\ call' = [call EXCEPT ![r] = c]
      /\ UNCHANGED <<entries, marks, active, inflight, version, generation,
                     fill, waits, epoch>>
  BY DEF GetOrSet
<1>2. \A q \in Requests : q # r => pc'[q] = pc[q] /\ call'[q] = call[q] /\ result'[q] = result[q]
  BY DEF GetOrSet
<1>3. pc'[r] \in {"looked", "done"}
  BY DEF GetOrSet
<1>4. call'[r] = c
  BY <1>1
<1>5. VersionInv'
  BY <1>1 DEF VersionInv
<1>6. r \notin active
  BY <1>1 DEF ActiveInv
<1>7. ActiveInv'
  BY <1>1, <1>2, <1>3, <1>6 DEF ActiveInv
<1>8. \A j \in Keys : inflight[j] # r
  BY <1>1, NoneAssumption DEF InflightInv, Running
<1>9. InflightInv'
  BY <1>1, <1>2, <1>8 DEF InflightInv, Running
<1>10. HistoryInv'
  <2> SUFFICES ASSUME NEW q \in Requests
               PROVE  /\ pc'[q] = "joined" => waits'[q] # q
                      /\ call'[q].generation <= generation'
                      /\ \A t \in Tags : call'[q].epoch[t] <= epoch'[t]
    BY DEF HistoryInv
  <2>1. CASE q = r
    BY <2>1, <1>1, <1>3, <1>4
  <2>2. CASE q # r
    BY <2>2, <1>1, <1>2 DEF HistoryInv
  <2> QED
    BY <2>1, <2>2
<1>11. EntriesFresh'
  BY <1>1 DEF EntriesFresh
<1>12. FillsFresh'
  BY <1>1, <1>2, <1>6 DEF FillsFresh
<1>13. OwnFresh'
  BY <1>1, <1>2, <1>3 DEF OwnFresh
<1>14. ReadsAreFresh'
  <2> SUFFICES ASSUME NEW q \in Requests
               PROVE  /\ pc'[q] = "done" /\ waits'[q] = q /\ result'[q] # None
                            => Fresh(result'[q], call'[q])
                      /\ pc'[q] = "joined" /\ pc'[waits'[q]] \in {"producing", "stored"}
                            => Fresh(fill'[waits'[q]].value, call'[q])
    BY DEF ReadsAreFresh, Fresh
  <2>1. CASE q # r
    BY <2>1, <1>1, <1>2, <1>3 DEF ReadsAreFresh
  <2>2. CASE q = r /\ pc'[r] = "looked"
    BY <2>2
  <2>3. CASE q = r /\ pc'[r] = "done"
    <3>1. entries[k] # NoEntry /\ ~IsStale(entries[k]) /\ result'[r] = entries[k].value
      BY <2>3 DEF GetOrSet
    <3>2. entries[k].value.generation = generation /\ entries[k].value.tags = entries[k].tags
      BY <3>1 DEF EntriesFresh
    <3>3. \A t \in entries[k].tags : entries[k].value.epoch[t] >= epoch[t]
      BY <3>1 DEF EntriesFresh, IsStale
    <3> QED
      BY <2>3, <3>1, <3>2, <3>3, <1>4 DEF Fresh
  <2> QED
    BY <1>3, <2>1, <2>2, <2>3
<1> QED
  BY <1>5, <1>7, <1>9, <1>10, <1>11, <1>12, <1>13, <1>14

LEMMA JoinFresh ==
  ASSUME TypeInv, FreshInv, NEW r \in Requests, JoinInflight(r)
  PROVE  FreshInv'
<1> USE DEF TypeInv, TypeOK, FreshInv
<1> DEFINE f == inflight[call[r].key]
<1>1. /\ pc[r] = "looked" /\ Joinable(r)
      /\ pc' = [pc EXCEPT ![r] = "joined"]
      /\ waits' = [waits EXCEPT ![r] = f]
      /\ UNCHANGED <<entries, marks, active, inflight, version, generation,
                     call, fill, result, epoch>>
  BY DEF JoinInflight, cacheVars
<1>2. call[r].key \in Keys
  BY <1>1 DEF CallInv, Call
<1>3. f \in Requests /\ Running(f) /\ fill[f].generation = generation
  BY <1>1, <1>2 DEF Joinable, InflightInv
<1>4. f # r
  BY <1>1, <1>3 DEF Running
<1>5. VersionInv' /\ EntriesFresh'
  BY <1>1 DEF VersionInv, EntriesFresh
<1>6. ActiveInv'
  BY <1>1 DEF ActiveInv
<1>7. InflightInv'
  BY <1>1 DEF InflightInv, Running
<1>8. HistoryInv'
  BY <1>1, <1>4 DEF HistoryInv
<1>9. FillsFresh'
  BY <1>1 DEF FillsFresh
<1>10. OwnFresh'
  BY <1>1 DEF OwnFresh
<1>11. pc[f] \in {"producing", "stored"} => Fresh(fill[f].value, call[r])
  <2> SUFFICES ASSUME pc[f] \in {"producing", "stored"}
               PROVE  Fresh(fill[f].value, call[r])
    OBVIOUS
  <2>1. f \in active
    BY <1>3 DEF ActiveInv
  <2>2. /\ fill[f].value \in Value /\ fill[f].value.tags = call[f].tags
        /\ fill[f].value.tags \subseteq Tags /\ fill[f].value.epoch \in [Tags -> Nat]
    BY <1>3 DEF ValueInv, Value
  <2>3. fill[f].value.generation >= call[r].generation
    BY <2>1 DEF FillsFresh, HistoryInv
  <2>4. \A t \in call[f].tags : ~(marks[t] > fill[f].createdVersion)
    BY <1>1, <2>1 DEF Joinable, WasInvalidatedSince, ActiveInv
  <2>5. \A t \in call[f].tags : fill[f].value.epoch[t] >= epoch[t]
    BY <2>1, <2>4 DEF FillsFresh
  <2>6. call[r] \in Call /\ call[r].epoch \in [Tags -> Nat]
    BY <1>1 DEF CallInv, Call
  <2>7. \A t \in call[f].tags : t \in Tags /\ call[r].epoch[t] <= epoch[t]
    BY <2>2 DEF HistoryInv
  <2>8. \A t \in fill[f].value.tags : fill[f].value.epoch[t] >= call[r].epoch[t]
    BY <2>2, <2>5, <2>6, <2>7
  <2> QED
    BY <2>3, <2>8 DEF Fresh
<1>12. ReadsAreFresh'
  BY <1>1, <1>3, <1>4, <1>11 DEF ReadsAreFresh, Fresh
<1> QED
  BY <1>5, <1>6, <1>7, <1>8, <1>9, <1>10, <1>12

LEMMA StartFresh ==
  ASSUME TypeInv, FreshInv, NEW r \in Requests, StartFill(r)
  PROVE  FreshInv'
<1> USE DEF TypeInv, TypeOK, FreshInv
<1>1. /\ pc[r] = "looked"
      /\ fill' = [fill EXCEPT ![r] = [startVersion |-> version, createdVersion |-> version,
                                      generation |-> generation, value |-> None]]
      /\ active' = active \cup {r}
      /\ inflight' = [inflight EXCEPT ![call[r].key] = r]
      /\ pc' = [pc EXCEPT ![r] = "started"]
      /\ UNCHANGED <<entries, marks, version, generation, call, waits, result, epoch>>
  BY DEF StartFill
<1>2. \A q \in Requests : q # r => pc'[q] = pc[q] /\ fill'[q] = fill[q]
  BY <1>1
<1>3. /\ pc'[r] = "started" /\ fill'[r].startVersion = version
      /\ fill'[r].createdVersion = version /\ fill'[r].generation = generation
      /\ fill'[r].value = None
  BY <1>1
<1>4. VersionInv' /\ EntriesFresh'
  BY <1>1 DEF VersionInv, EntriesFresh
<1>5. ActiveInv'
  BY <1>1, <1>2, <1>3 DEF ActiveInv
<1>6. \A j \in Keys : inflight[j] # r
  BY <1>1, NoneAssumption DEF InflightInv, Running
<1>7. InflightInv'
  BY <1>1, <1>2, <1>3, <1>6 DEF InflightInv, Running
<1>8. HistoryInv'
  BY <1>1 DEF HistoryInv
<1>9. FillsFresh'
  BY <1>1, <1>2, <1>3 DEF FillsFresh
<1>10. OwnFresh'
  BY <1>1, <1>2, <1>3 DEF OwnFresh
<1>11. ReadsAreFresh'
  BY <1>1, <1>2, <1>3 DEF ReadsAreFresh
<1> QED
  BY <1>4, <1>5, <1>7, <1>8, <1>9, <1>10, <1>11

LEMMA CallProducerFresh ==
  ASSUME TypeInv, FreshInv, NEW r \in Requests, CallProducer(r)
  PROVE  FreshInv'
<1> USE DEF TypeInv, TypeOK, FreshInv
<1>1. /\ pc[r] = "started"
      /\ fill' = [fill EXCEPT ![r].value = Seen(call[r].tags)]
      /\ pc' = [pc EXCEPT ![r] = "producing"]
      /\ UNCHANGED <<entries, marks, active, inflight, version, generation,
                     call, waits, result, epoch>>
  BY DEF CallProducer, cacheVars
<1>2. \A q \in Requests : q # r => pc'[q] = pc[q] /\ fill'[q] = fill[q]
  BY <1>1
<1>3. /\ pc'[r] = "producing" /\ fill'[r].value = Seen(call[r].tags)
      /\ fill'[r].startVersion = fill[r].startVersion
      /\ fill'[r].createdVersion = fill[r].createdVersion
      /\ fill'[r].generation = fill[r].generation
  BY <1>1 DEF Fill
<1>4. call[r] \in Call /\ call[r].tags \subseteq Tags
  BY <1>1 DEF CallInv, Call
<1>5. \A q \in Requests : Fresh(Seen(call[r].tags), call[q])
  BY <1>4 DEF Fresh, Seen, HistoryInv
<1>6. VersionInv' /\ EntriesFresh'
  BY <1>1 DEF VersionInv, EntriesFresh
<1>7. ActiveInv'
  BY <1>1, <1>2, <1>3 DEF ActiveInv
<1>8. InflightInv'
  BY <1>1, <1>2, <1>3 DEF InflightInv, Running
<1>9. HistoryInv'
  BY <1>1 DEF HistoryInv
<1>10. FillsFresh'
  BY <1>1, <1>2, <1>3, <1>4 DEF FillsFresh, Seen
<1>11. OwnFresh'
  BY <1>1, <1>2, <1>3, <1>5 DEF OwnFresh, Fresh
<1>12. ReadsAreFresh'
  <2> SUFFICES ASSUME NEW q \in Requests
               PROVE  /\ pc'[q] = "done" /\ waits'[q] = q /\ result'[q] # None
                            => Fresh(result'[q], call'[q])
                      /\ pc'[q] = "joined" /\ pc'[waits'[q]] \in {"producing", "stored"}
                            => Fresh(fill'[waits'[q]].value, call'[q])
    BY DEF ReadsAreFresh, Fresh
  <2>1. CASE waits[q] = r
    BY <2>1, <1>1, <1>2, <1>3, <1>5 DEF ReadsAreFresh
  <2>2. CASE waits[q] # r
    BY <2>2, <1>1, <1>2, <1>3 DEF ReadsAreFresh
  <2> QED
    BY <2>1, <2>2
<1> QED
  BY <1>6, <1>7, <1>8, <1>9, <1>10, <1>11, <1>12

(* A step that stores an entry and touches no request.                     *)
LEMMA StoreFresh ==
  ASSUME TypeInv, FreshInv, NEW k \in Keys, NEW e \in Entry, StoreLocalEntry(k, e),
         UNCHANGED <<active, generation, call, fill, epoch>>,
         version' \in Nat, version' >= version, e.createdVersion <= version',
         e.value.generation = generation, e.value.tags = e.tags,
         \A t \in e.tags : e.value.epoch[t] >= epoch[t] \/ marks[t] > e.createdVersion
  PROVE  /\ VersionInv' /\ EntriesFresh'
         /\ \A r \in active, t \in Tags :
              t \in call[r].tags /\ fill[r].createdVersion < marks[t] => marks'[t] = marks[t]
<1> USE DEF TypeInv, TypeOK, FreshInv
<1>1. /\ \A j \in Keys : entries'[j] = NoEntry \/ entries'[j] = entries[j]
                          \/ (j = k /\ entries'[j] = e)
      /\ \A t \in Tags :
           /\ marks'[t] \in {0, marks[t]}
           /\ \A j \in Keys :
                entries'[j] # NoEntry /\ t \in entries'[j].tags
                  /\ entries'[j].createdVersion < marks[t] => marks'[t] = marks[t]
           /\ \A r \in active :
                t \in call[r].tags /\ fill[r].createdVersion < marks[t]
                  => marks'[t] = marks[t]
  BY StoreKeeps
<1>2. VersionInv'
  BY <1>1 DEF VersionInv, Entry, NoEntry
<1>3. EntriesFresh'
  <2> SUFFICES ASSUME NEW j \in Keys, entries'[j] # NoEntry
               PROVE  /\ entries'[j].value.generation = generation
                      /\ entries'[j].value.tags = entries'[j].tags
                      /\ \A t \in entries'[j].tags :
                           entries'[j].value.epoch[t] >= epoch[t]
                             \/ marks'[t] > entries'[j].createdVersion
    BY DEF EntriesFresh
  <2>1. CASE entries'[j] = entries[j]
    <3>1. entries[j] \in Entry
      BY <2>1
    <3>2. entries[j].tags \subseteq Tags /\ entries[j].createdVersion \in Nat
      BY <3>1 DEF Entry
    <3> QED
      BY <2>1, <1>1, <3>2 DEF EntriesFresh
  <2>2. CASE entries'[j] = e
    <3>1. e.tags \subseteq Tags /\ e.createdVersion \in Nat
      BY DEF Entry
    <3> QED
      BY <2>2, <1>1, <3>1
  <2> QED
    BY <1>1, <2>1, <2>2
<1> QED
  BY <1>1, <1>2, <1>3

LEMMA ProducerReturnsFresh ==
  ASSUME TypeInv, FreshInv, NEW r \in Requests, ProducerReturns(r)
  PROVE  FreshInv'
<1> USE DEF TypeInv, TypeOK, FreshInv
<1> DEFINE e == [tags |-> call[r].tags, createdVersion |-> fill[r].createdVersion,
                 expired |-> FALSE, value |-> fill[r].value]
<1>1. /\ pc[r] = "producing" /\ fill[r].generation = generation
      /\ StoreLocalEntry(call[r].key, e)
      /\ pc' = [pc EXCEPT ![r] = "stored"]
      /\ UNCHANGED <<active, inflight, version, generation, call, fill, waits, result, epoch>>
  BY DEF ProducerReturns
<1>2. call[r] \in Call /\ fill[r] \in Fill /\ fill[r].value \in Value
      /\ fill[r].value.tags = call[r].tags
  BY <1>1 DEF CallInv, ValueInv
<1>3. e \in Entry /\ call[r].key \in Keys /\ call[r].tags \subseteq Tags
  BY <1>2 DEF Entry, Call, Fill
<1>4. r \in active
  BY <1>1 DEF ActiveInv
<1>5. /\ fill[r].value.generation = generation
      /\ \A t \in call[r].tags :
           fill[r].value.epoch[t] >= epoch[t] \/ marks[t] > fill[r].createdVersion
  BY <1>1, <1>4 DEF FillsFresh
<1>6. /\ e.tags = call[r].tags /\ e.value = fill[r].value
      /\ e.createdVersion = fill[r].createdVersion
  OBVIOUS
<1>7. e.createdVersion <= version
  BY <1>4 DEF ActiveInv
<1> HIDE DEF e
<1>8. /\ VersionInv' /\ EntriesFresh'
      /\ \A q \in active, t \in Tags :
           t \in call[q].tags /\ fill[q].createdVersion < marks[t] => marks'[t] = marks[t]
  BY <1>1, <1>2, <1>3, <1>4, <1>5, <1>6, <1>7, StoreFresh
<1>9. ActiveInv'
  BY <1>1 DEF ActiveInv
<1>10. InflightInv'
  BY <1>1 DEF InflightInv, Running
<1>11. HistoryInv'
  BY <1>1 DEF HistoryInv
<1>12. FillsFresh'
  <2> SUFFICES ASSUME NEW q \in active, pc'[q] \in {"producing", "stored"}
               PROVE  /\ fill[q].value.generation = generation
                      /\ \A t \in call[q].tags :
                           fill[q].value.epoch[t] >= epoch[t]
                             \/ marks'[t] > fill[q].createdVersion
    BY <1>1 DEF FillsFresh
  <2>1. pc[q] \in {"producing", "stored"}
    BY <1>1
  <2>2. call[q].tags \subseteq Tags
    BY <2>1 DEF CallInv, Call
  <2> QED
    BY <2>1, <2>2, <1>8 DEF FillsFresh, Fill
<1>13. OwnFresh'
  BY <1>1 DEF OwnFresh
<1>14. ReadsAreFresh'
  BY <1>1 DEF ReadsAreFresh
<1> QED
  BY <1>8, <1>9, <1>10, <1>11, <1>12, <1>13, <1>14

(* A step that only drops marks nothing depends on, and deregisters at     *)
(* most request r, which has finished its fill.                            *)
LEMMA CloseFresh ==
  ASSUME TypeInv, FreshInv, NEW r \in Requests, CloseFill(r),
         UNCHANGED <<entries, inflight, version, generation, call, waits, result, epoch>>,
         pc[r] \in {"producing", "stored"},
         fill' \in [Requests -> Fill],
         \A q \in Requests : q # r => fill'[q] = fill[q],
         fill'[r].generation = fill[r].generation,
         fill'[r].value \in {fill[r].value, None}
  PROVE  FreshInv'
<1> USE DEF TypeInv, TypeOK, FreshInv
<1>1. /\ active' = active \ {r}
      /\ marks' = PruneInvalidatedTagVersions(call[r].tags, marks, entries, active \ {r})
      /\ pc' = [pc EXCEPT ![r] = "finished"]
  BY DEF CloseFill
<1>2. \A t \in Tags :
        /\ marks'[t] \in {0, marks[t]}
        /\ \A j \in Keys : entries[j] # NoEntry /\ t \in entries[j].tags
             /\ entries[j].createdVersion < marks[t] => marks'[t] = marks[t]
        /\ \A q \in active \ {r} : t \in call[q].tags
             /\ fill[q].createdVersion < marks[t] => marks'[t] = marks[t]
  BY <1>1, PruneKeeps
<1>3. VersionInv'
  BY <1>2 DEF VersionInv
<1>4. ActiveInv'
  BY <1>1 DEF ActiveInv
<1>5. InflightInv'
  BY <1>1 DEF InflightInv, Running
<1>6. HistoryInv'
  BY <1>1 DEF HistoryInv
<1>7. EntriesFresh'
  <2> SUFFICES ASSUME NEW j \in Keys, entries[j] # NoEntry, NEW t \in entries[j].tags
               PROVE  entries[j].value.epoch[t] >= epoch[t]
                        \/ marks'[t] > entries[j].createdVersion
    BY DEF EntriesFresh
  <2>1. entries[j] \in Entry /\ t \in Tags
    BY DEF Entry
  <2> QED
    BY <2>1, <1>2 DEF EntriesFresh, Entry
<1>8. FillsFresh'
  <2> SUFFICES ASSUME NEW q \in active \ {r}, pc[q] \in {"producing", "stored"}
               PROVE  /\ fill[q].value.generation = generation
                      /\ \A t \in call[q].tags :
                           fill[q].value.epoch[t] >= epoch[t]
                             \/ marks'[t] > fill[q].createdVersion
    BY <1>1 DEF FillsFresh
  <2>1. call[q].tags \subseteq Tags
    BY DEF CallInv, Call
  <2> QED
    BY <2>1, <1>2 DEF FillsFresh, Fill
<1>9. OwnFresh'
  BY <1>1 DEF OwnFresh
<1>10. ReadsAreFresh'
  BY <1>1 DEF ReadsAreFresh
<1> QED
  BY <1>3, <1>4, <1>5, <1>6, <1>7, <1>8, <1>9, <1>10

LEMMA SettleFresh ==
  ASSUME TypeInv, FreshInv, NEW r \in Requests, SettleFill(r)
  PROVE  FreshInv'
<1> USE DEF TypeInv, TypeOK, FreshInv
<1> DEFINE heirs == {q \in Requests : pc[q] = "joined" /\ waits[q] = r} \cup {r}
<1>1. /\ pc[r] = "finished"
      /\ inflight' = IF inflight[call[r].key] = r
                       THEN [inflight EXCEPT ![call[r].key] = None] ELSE inflight
      /\ pc' = [q \in Requests |-> IF q \in heirs THEN "done" ELSE pc[q]]
      /\ result' = [q \in Requests |-> IF q \in heirs THEN fill[r].value ELSE result[q]]
      /\ UNCHANGED <<entries, marks, active, version, generation, call, fill, waits, epoch>>
  BY DEF SettleFill
<1>2. \A q \in Requests : q \notin heirs => pc'[q] = pc[q] /\ result'[q] = result[q]
  BY <1>1
<1>3. \A q \in heirs : pc'[q] = "done" /\ result'[q] = fill[r].value
                      /\ (q = r \/ waits[q] # q)
  BY <1>1 DEF HistoryInv
<1>4. \A q \in heirs : pc[q] \in {"joined", "finished"} /\ q \notin active
  BY <1>1 DEF ActiveInv
<1> HIDE DEF heirs
<1>5. VersionInv' /\ EntriesFresh'
  BY <1>1 DEF VersionInv, EntriesFresh
<1>6. ActiveInv'
  BY <1>1, <1>2, <1>3, <1>4 DEF ActiveInv
<1>7. \A j \in Keys : inflight'[j] # None =>
         /\ inflight'[j] = inflight[j] /\ inflight[j] \in Requests /\ inflight[j] # r
  BY <1>1 DEF InflightInv
<1>8. InflightInv'
  BY <1>1, <1>2, <1>4, <1>7 DEF InflightInv, Running, heirs
<1>9. HistoryInv'
  BY <1>1, <1>2, <1>3 DEF HistoryInv
<1>10. FillsFresh'
  BY <1>1, <1>2, <1>4 DEF FillsFresh
<1>11. OwnFresh'
  BY <1>1, <1>2, <1>3 DEF OwnFresh
<1>12. ReadsAreFresh'
  <2> SUFFICES ASSUME NEW q \in Requests
               PROVE  /\ pc'[q] = "done" /\ waits'[q] = q /\ result'[q] # None
                            => Fresh(result'[q], call'[q])
                      /\ pc'[q] = "joined" /\ pc'[waits'[q]] \in {"producing", "stored"}
                            => Fresh(fill'[waits'[q]].value, call'[q])
    BY DEF ReadsAreFresh, Fresh
  <2>1. CASE q \in heirs
    BY <2>1, <1>1, <1>3 DEF OwnFresh
  <2>2. CASE q \notin heirs
    BY <2>2, <1>1, <1>2, <1>3 DEF ReadsAreFresh
  <2> QED
    BY <2>1, <2>2
<1> QED
  BY <1>5, <1>6, <1>8, <1>9, <1>10, <1>11, <1>12

LEMMA ReturnFresh ==
  ASSUME TypeInv, FreshInv, NEW r \in Requests, Return(r)
  PROVE  FreshInv'
<1> USE DEF TypeInv, TypeOK, FreshInv
<1>1. /\ pc[r] = "done"
      /\ pc' = [pc EXCEPT ![r] = "idle"] /\ call' = [call EXCEPT ![r] = NoCall]
      /\ fill' = [fill EXCEPT ![r] = NoFill] /\ waits' = [waits EXCEPT ![r] = r]
      /\ result' = [result EXCEPT ![r] = None]
      /\ UNCHANGED <<entries, marks, active, inflight, version, generation, epoch>>
  BY DEF Return, cacheVars
<1>2. \A q \in Requests : q # r =>
        /\ pc'[q] = pc[q] /\ call'[q] = call[q] /\ fill'[q] = fill[q]
        /\ waits'[q] = waits[q] /\ result'[q] = result[q]
  BY <1>1
<1>3. pc'[r] = "idle" /\ call'[r] = NoCall /\ fill'[r] = NoFill
  BY <1>1
<1>4. r \notin active /\ \A j \in Keys : inflight[j] # r
  BY <1>1, NoneAssumption DEF ActiveInv, InflightInv, Running
<1>5. VersionInv' /\ EntriesFresh'
  BY <1>1 DEF VersionInv, EntriesFresh
<1>6. ActiveInv'
  BY <1>1, <1>2, <1>3, <1>4 DEF ActiveInv, NoFill
<1>7. InflightInv'
  BY <1>1, <1>2, <1>4 DEF InflightInv, Running
<1>8. HistoryInv'
  BY <1>1, <1>2, <1>3 DEF HistoryInv, NoCall
<1>9. FillsFresh'
  BY <1>1, <1>2, <1>4 DEF FillsFresh
<1>10. OwnFresh'
  BY <1>1, <1>2, <1>3 DEF OwnFresh
<1>11. ReadsAreFresh'
  BY <1>1, <1>2, <1>3 DEF ReadsAreFresh
<1> QED
  BY <1>5, <1>6, <1>7, <1>8, <1>9, <1>10, <1>11

(* A step of the cache that leaves every request, registration and the     *)
(* generation alone, and keeps the marks registered fills depend on.       *)
LEMMA RequestsKeep ==
  ASSUME TypeInv, FreshInv, UNCHANGED <<requestVars, active, inflight, generation>>,
         version' \in Nat, version' >= version,
         \A t \in Tags : epoch'[t] >= epoch[t],
         \A t \in Tags, r \in active : t \in call[r].tags =>
           \/ epoch'[t] = epoch[t]
                /\ (fill[r].createdVersion < marks[t] => marks'[t] = marks[t])
           \/ marks'[t] > version,
         epoch' \in [Tags -> Nat], marks' \in [Tags -> Nat]
  PROVE  ActiveInv' /\ InflightInv' /\ HistoryInv' /\ FillsFresh' /\ OwnFresh' /\ ReadsAreFresh'
<1> USE DEF TypeInv, TypeOK, FreshInv
<1>1. UNCHANGED <<pc, call, fill, waits, result>>
  BY DEF requestVars
<1>2. ActiveInv'
  BY <1>1 DEF ActiveInv, Fill
<1>3. InflightInv'
  BY <1>1 DEF InflightInv, Running
<1>4. HistoryInv'
  <2> SUFFICES ASSUME NEW r \in Requests, NEW t \in Tags
               PROVE  call[r].epoch[t] <= epoch'[t]
    BY <1>1 DEF HistoryInv
  <2>1. call[r].epoch[t] \in Nat
    BY DEF Call, NoCall
  <2> QED
    BY <2>1 DEF HistoryInv
<1>5. FillsFresh'
  <2> SUFFICES ASSUME NEW r \in active, pc[r] \in {"producing", "stored"}
               PROVE  /\ fill[r].value.generation = generation
                      /\ \A t \in call[r].tags :
                           fill[r].value.epoch[t] >= epoch'[t]
                             \/ marks'[t] > fill[r].createdVersion
    BY <1>1 DEF FillsFresh
  <2>1. call[r].tags \subseteq Tags /\ fill[r].createdVersion \in Nat
    BY DEF CallInv, Call, Fill
  <2>2. fill[r].createdVersion <= version
    BY DEF ActiveInv
  <2> QED
    BY <2>1, <2>2 DEF FillsFresh
<1>6. OwnFresh' /\ ReadsAreFresh'
  BY <1>1 DEF OwnFresh, ReadsAreFresh, Fresh
<1> QED
  BY <1>2, <1>3, <1>4, <1>5, <1>6

LEMMA SetFresh ==
  ASSUME TypeInv, FreshInv, NEW k \in Keys, NEW T \in TagSets, Set(k, T)
  PROVE  FreshInv'
<1> USE DEF TypeInv, TypeOK, FreshInv
<1> DEFINE e == [tags |-> T, createdVersion |-> version + 1,
                 expired |-> FALSE, value |-> Seen(T)]
<1>1. /\ version' = version + 1 /\ StoreLocalEntry(k, e)
      /\ UNCHANGED <<active, inflight, generation, requestVars, epoch>>
  BY DEF Set
<1>2. UNCHANGED <<call, fill>>
  BY <1>1 DEF requestVars
<1>3. e \in Entry /\ e.createdVersion = version + 1 /\ e.value.generation = generation
      /\ e.value.tags = e.tags /\ e.value.epoch = epoch /\ e.tags \subseteq Tags
  BY TagSetsAssumption DEF Entry, Seen, Value
<1> HIDE DEF e
<1>4. /\ VersionInv' /\ EntriesFresh'
      /\ \A r \in active, t \in Tags :
           t \in call[r].tags /\ fill[r].createdVersion < marks[t] => marks'[t] = marks[t]
  <2>1. \A t \in e.tags : e.value.epoch[t] >= epoch[t]
    BY <1>3
  <2> QED
    BY <1>1, <1>2, <1>3, <2>1, StoreFresh
<1>5. marks' \in [Tags -> Nat]
  BY <1>1, <1>3, StoreType
<1> QED
  BY <1>1, <1>4, <1>5, RequestsKeep

LEMMA DeleteFresh ==
  ASSUME TypeInv, FreshInv, NEW k \in Keys, Delete(k)
  PROVE  FreshInv'
<1> USE DEF TypeInv, TypeOK, FreshInv
<1> DEFINE kept == [entries EXCEPT ![k] = NoEntry]
<1>1. /\ entries' = kept
      /\ marks' = PruneInvalidatedTagVersions(entries[k].tags, marks, kept, active)
      /\ UNCHANGED <<active, inflight, version, generation, requestVars, epoch>>
  BY DEF Delete
<1>2. \A j \in Keys : kept[j] = NoEntry \/ kept[j] = entries[j]
  OBVIOUS
<1> HIDE DEF kept
<1>3. \A t \in Tags :
        /\ marks'[t] \in {0, marks[t]}
        /\ \A j \in Keys : kept[j] # NoEntry /\ t \in kept[j].tags
             /\ kept[j].createdVersion < marks[t] => marks'[t] = marks[t]
        /\ \A r \in active : t \in call[r].tags
             /\ fill[r].createdVersion < marks[t] => marks'[t] = marks[t]
  BY <1>1, PruneKeeps
<1>4. VersionInv'
  BY <1>1, <1>2, <1>3 DEF VersionInv, NoEntry
<1>5. EntriesFresh'
  <2> SUFFICES ASSUME NEW j \in Keys, kept[j] = entries[j], entries[j] # NoEntry,
                      NEW t \in entries[j].tags
               PROVE  entries[j].value.epoch[t] >= epoch[t]
                        \/ marks'[t] > entries[j].createdVersion
    BY <1>1, <1>2 DEF EntriesFresh
  <2>1. entries[j] \in Entry /\ t \in Tags
    BY DEF Entry
  <2> QED
    BY <2>1, <1>3 DEF EntriesFresh, Entry
<1>6. marks' \in [Tags -> Nat]
  BY <1>1, PruneType
<1> QED
  BY <1>1, <1>3, <1>4, <1>5, <1>6, RequestsKeep

LEMMA InvalidateTagFresh ==
  ASSUME TypeInv, FreshInv, NEW t \in Tags, InvalidateTag(t)
  PROVE  FreshInv'
<1> USE DEF TypeInv, TypeOK, FreshInv
<1> DEFINE m == [marks EXCEPT ![t] = version + 1]
<1>1. /\ version' = version + 1
      /\ marks' = PruneInvalidatedTagVersions({t}, m, entries, active)
      /\ epoch' = [epoch EXCEPT ![t] = epoch[t] + 1]
      /\ UNCHANGED <<entries, active, inflight, generation, requestVars>>
  BY DEF InvalidateTag
<1>2. m \in [Tags -> Nat] /\ m[t] = version + 1 /\ \A u \in Tags \ {t} : m[u] = marks[u]
  OBVIOUS
<1> HIDE DEF m
<1>3. \A u \in Tags :
        /\ marks'[u] \in {0, m[u]}
        /\ \A j \in Keys : entries[j] # NoEntry /\ u \in entries[j].tags
             /\ entries[j].createdVersion < m[u] => marks'[u] = m[u]
        /\ \A r \in active : u \in call[r].tags
             /\ fill[r].createdVersion < m[u] => marks'[u] = m[u]
  <2>1. /\ m \in [Tags -> Nat]
        /\ marks' = PruneInvalidatedTagVersions({t}, m, entries, active)
    BY <1>1, <1>2
  <2> QED
    BY ONLY <2>1, PruneKeeps
<1>4. epoch' \in [Tags -> Nat] /\ epoch'[t] = epoch[t] + 1
      /\ \A u \in Tags \ {t} : epoch'[u] = epoch[u]
  <2>1. epoch' = [epoch EXCEPT ![t] = epoch[t] + 1] /\ epoch \in [Tags -> Nat]
    BY <1>1
  <2> QED
    BY <2>1
<1>5. VersionInv'
  <2>1. \A j \in Keys : entries[j].createdVersion \in Nat
    BY DEF Entry, NoEntry
  <2>2. \A j \in Keys : entries[j].createdVersion <= version + 1
    BY <2>1 DEF VersionInv
  <2>3. \A u \in Tags : marks'[u] <= version + 1
    BY <1>2, <1>3 DEF VersionInv
  <2> QED
    BY <1>1, <2>2, <2>3 DEF VersionInv
<1>6. EntriesFresh'
  <2> SUFFICES ASSUME NEW j \in Keys, entries[j] # NoEntry, NEW u \in entries[j].tags
               PROVE  entries[j].value.epoch[u] >= epoch'[u]
                        \/ marks'[u] > entries[j].createdVersion
    BY <1>1 DEF EntriesFresh
  <2>1. entries[j].createdVersion \in Nat /\ u \in Tags
    BY DEF Entry
  <2>2. entries[j].createdVersion <= version
    BY DEF VersionInv
  <2>3. CASE u = t
    BY <2>1, <2>2, <2>3, <1>2, <1>3
  <2>4. CASE u # t
    BY <2>1, <2>4, <1>2, <1>3, <1>4 DEF EntriesFresh
  <2> QED
    BY <2>3, <2>4
<1>7. \A r \in active : t \in call[r].tags => marks'[t] = version + 1
  BY <1>2, <1>3 DEF ActiveInv, Fill
<1>8. marks' \in [Tags -> Nat]
  BY <1>1, <1>2, PruneType
<1>9. \A u \in Tags, r \in active : u \in call[r].tags =>
        \/ epoch'[u] = epoch[u]
             /\ (fill[r].createdVersion < marks[u] => marks'[u] = marks[u])
        \/ marks'[u] > version
  BY <1>2, <1>3, <1>4, <1>7
<1>10. \A u \in Tags : epoch'[u] >= epoch[u]
  BY <1>4
<1>11. UNCHANGED <<requestVars, active, inflight, generation>>
       /\ version' \in Nat /\ version' >= version
  BY <1>1
<1>12. ActiveInv' /\ InflightInv' /\ HistoryInv' /\ FillsFresh' /\ OwnFresh' /\ ReadsAreFresh'
  BY <1>4, <1>8, <1>9, <1>10, <1>11, RequestsKeep
<1> QED
  BY <1>5, <1>6, <1>12

LEMMA ResetLocalFresh ==
  ASSUME TypeInv, FreshInv, ResetLocal
  PROVE  FreshInv'
<1> USE DEF TypeInv, TypeOK, FreshInv
<1>1. /\ generation' = generation + 1 /\ version' = 0 /\ active' = {}
      /\ entries' = [k \in Keys |-> NoEntry] /\ marks' = [t \in Tags |-> 0]
      /\ inflight' = [k \in Keys |-> None]
      /\ UNCHANGED <<pc, call, fill, waits, result, epoch>>
  BY DEF ResetLocal, requestVars
<1>2. VersionInv' /\ EntriesFresh' /\ FillsFresh' /\ InflightInv'
  BY <1>1 DEF VersionInv, EntriesFresh, FillsFresh, InflightInv, NoEntry
<1>3. ActiveInv'
  BY <1>1 DEF ActiveInv, Fill
<1>4. HistoryInv'
  BY <1>1 DEF HistoryInv, Call, NoCall
<1>5. OwnFresh' /\ ReadsAreFresh'
  BY <1>1 DEF OwnFresh, ReadsAreFresh, Fresh
<1> QED
  BY <1>2, <1>3, <1>4, <1>5

LEMMA ExpireFresh ==
  ASSUME TypeInv, FreshInv, NEW k \in Keys, Expire(k)
  PROVE  FreshInv'
<1> USE DEF TypeInv, TypeOK, FreshInv
<1>1. /\ entries[k] # NoEntry
      /\ entries' = [entries EXCEPT ![k].expired = TRUE]
      /\ UNCHANGED <<marks, active, inflight, version, generation, requestVars, epoch>>
  BY DEF Expire
<1>2. /\ \A j \in Keys \ {k} : entries'[j] = entries[j]
      /\ entries'[k].tags = entries[k].tags /\ entries'[k].value = entries[k].value
      /\ entries'[k].createdVersion = entries[k].createdVersion
  BY <1>1 DEF Entry
<1>3. VersionInv'
  BY <1>1, <1>2 DEF VersionInv
<1>4. EntriesFresh'
  BY <1>1, <1>2 DEF EntriesFresh
<1> QED
  BY <1>1, <1>3, <1>4, RequestsKeep

-----------------------------------------------------------------------------
LEMMA FreshInvariant == Spec => []FreshInv
<1>1. Init => FreshInv
  BY DEF Init, FreshInv, VersionInv, ActiveInv, InflightInv, HistoryInv, EntriesFresh,
         FillsFresh, OwnFresh, ReadsAreFresh, NoEntry, NoCall, NoFill, Running
<1>2. TypeInv /\ TypeInv' /\ FreshInv /\ [Next]_vars => FreshInv'
  <2> SUFFICES ASSUME TypeInv, TypeInv', FreshInv, [Next]_vars PROVE FreshInv'
    OBVIOUS
  <2>1. ASSUME NEW r \in Requests, ProducerReturnsLate(r) PROVE FreshInv'
    BY <2>1, CloseFresh DEF ProducerReturnsLate, TypeInv, TypeOK
  <2>2. ASSUME NEW r \in Requests, FinishFill(r) PROVE FreshInv'
    BY <2>2, CloseFresh DEF FinishFill, TypeInv, TypeOK
  <2>3. ASSUME NEW r \in Requests, ProducerFails(r) PROVE FreshInv'
    <3>1. /\ fill' = [fill EXCEPT ![r].value = None] /\ fill' \in [Requests -> Fill]
          /\ fill \in [Requests -> Fill]
      BY <2>3 DEF ProducerFails, TypeInv, TypeOK
    <3>2. /\ \A q \in Requests : q # r => fill'[q] = fill[q]
          /\ fill'[r].generation = fill[r].generation /\ fill'[r].value = None
      BY <3>1 DEF Fill
    <3> QED
      BY <2>3, <3>1, <3>2, CloseFresh DEF ProducerFails
  <2>4. ASSUME NEW k \in Keys, NEW allowStale \in BOOLEAN, GetEntry(k, allowStale)
        PROVE  FreshInv'
    <3>1. UNCHANGED <<entries, marks, active, inflight, version, generation,
                      pc, call, fill, waits, result, epoch>>
      BY <2>4 DEF GetEntry, requestVars
    <3> QED
      BY <3>1 DEF FreshInv, VersionInv, ActiveInv, InflightInv, HistoryInv, EntriesFresh,
                  FillsFresh, OwnFresh, ReadsAreFresh, Running, Fresh
  <2>5. CASE UNCHANGED vars
    BY <2>5 DEF vars, cacheVars, requestVars, FreshInv, VersionInv, ActiveInv, InflightInv,
                HistoryInv, EntriesFresh, FillsFresh, OwnFresh, ReadsAreFresh, Running, Fresh
  <2> QED
    BY <2>1, <2>2, <2>3, <2>4, <2>5, GetOrSetFresh, JoinFresh, StartFresh, CallProducerFresh,
       ProducerReturnsFresh, SettleFresh, ReturnFresh, SetFresh, DeleteFresh, ExpireFresh,
       InvalidateTagFresh, ResetLocalFresh
    DEF Next, RunFill
<1> QED
  BY <1>1, <1>2, TypeCorrect, PTL DEF Spec

(* No getOrSet returns an entry or a value of its own, or shares a fill    *)
(* that is still producing or writing, whose data was read before an       *)
(* invalidation or a clear that had completed when it was called.          *)
THEOREM NeverStale == Spec => []ReadsAreFresh
BY FreshInvariant, PTL DEF FreshInv

(* Nothing produced before a clear is cached after it.                     *)
THEOREM ClearForgets == Spec => []NothingSurvivesClear
<1>1. FreshInv => NothingSurvivesClear
  BY DEF FreshInv, EntriesFresh, NothingSurvivesClear, Cached
<1> QED
  BY <1>1, FreshInvariant, PTL
=============================================================================
