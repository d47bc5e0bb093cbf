---------------------------- MODULE LocalCacheBounds ----------------------------
(***************************************************************************)
(* What LocalCache keeps stays bounded, for every value of the constants:  *)
(* no mark outlives what depends on it, and no more entries are cached     *)
(* than maxEntries allows.                                                 *)
(***************************************************************************)
EXTENDS LocalCacheProofs, FiniteSetTheorems

-----------------------------------------------------------------------------
(* Marks                                                                   *)

(* What depends on a mark now still does, or the mark was pruned.          *)
LEMMA DependentKept ==
  ASSUME MarksHaveDependents,
         \A t \in Tags :
           \/ marks'[t] = 0
           \/ Dependent(t, marks[t], entries, active)'
           \/ /\ marks'[t] = marks[t]
              /\ \A k \in Cached(entries) : t \in entries[k].tags =>
                   /\ entries'[k] # NoEntry /\ entries'[k].tags = entries[k].tags
                   /\ entries'[k].createdVersion = entries[k].createdVersion
              /\ \A r \in active : t \in call[r].tags =>
                   /\ r \in active' /\ call'[r].tags = call[r].tags
                   /\ fill'[r].createdVersion = fill[r].createdVersion
  PROVE  MarksHaveDependents'
<1> SUFFICES ASSUME NEW t \in Tags, marks'[t] # 0 PROVE Dependent(t, marks[t], entries, active)'
  BY DEF MarksHaveDependents
<1>1. CASE marks'[t] # marks[t] \/ Dependent(t, marks[t], entries, active)'
  BY <1>1
<1>2. CASE marks'[t] = marks[t] /\ ~Dependent(t, marks[t], entries, active)'
  <2>1. Dependent(t, marks[t], entries, active)
    BY <1>2 DEF MarksHaveDependents
  <2>2. QED
    BY <1>2, <2>1 DEF Dependent, Cached
<1>3. QED
  BY <1>1, <1>2

(* storeLocalEntry prunes the tags of the entry it replaces and of the one *)
(* it evicts; no other mark loses a dependent.                             *)
LEMMA StoreMarks ==
  ASSUME TypeOK, MarksHaveDependents, NEW k \in Keys, NEW e \in Entry, StoreLocalEntry(k, e),
         UNCHANGED <<active, call, fill>>
  PROVE  MarksHaveDependents'
<1> DEFINE put    == [entries EXCEPT ![k] = e]
           recent == Touch(k, Cached(put))
           victim == IF Cardinality(Cached(put)) > MaxEntries
                       THEN {Oldest(recent, Cached(put))} ELSE {}
           kept   == [j \in Keys |-> IF j \in victim THEN NoEntry ELSE put[j]]
           gone   == UNION {entries[j].tags : j \in {k} \cup (victim \cap Keys)}
<1>1. entries' = kept /\ marks' = PruneInvalidatedTagVersions(gone, marks, kept, active)
  BY DEF StoreLocalEntry
<1>2. ASSUME NEW t \in Tags
      PROVE  marks'[t] = IF t \in gone /\ ~Dependent(t, marks[t], kept, active) THEN 0 ELSE marks[t]
  BY <1>1 DEF PruneInvalidatedTagVersions
<1>3. ASSUME NEW t \in Tags, t \notin gone
      PROVE  \A j \in Cached(entries) : t \in entries[j].tags => entries'[j] = entries[j]
  <2>1. \A j \in Keys : t \in entries[j].tags => j # k /\ j \notin victim
    BY <1>3
  <2>2. \A j \in Keys : j # k /\ j \notin victim => kept[j] = entries[j]
    BY DEF TypeOK
  <2>3. QED
    BY <1>1, <2>1, <2>2 DEF Cached
<1>4. ASSUME NEW t \in Tags, Dependent(t, marks[t], kept, active), marks'[t] = marks[t]
      PROVE  Dependent(t, marks[t], entries, active)'
  BY <1>1, <1>4 DEF Dependent
<1>5. ASSUME NEW t \in Tags, t \notin gone
      PROVE  /\ marks'[t] = marks[t]
             /\ \A j \in Cached(entries) : t \in entries[j].tags =>
                   /\ entries'[j] # NoEntry /\ entries'[j].tags = entries[j].tags
                   /\ entries'[j].createdVersion = entries[j].createdVersion
  BY <1>2, <1>3, <1>5 DEF Cached
<1> HIDE DEF put, recent, victim, kept, gone
<1>6. QED
  BY <1>2, <1>4, <1>5, DependentKept

(* Every step prunes what it leaves without a dependent.                   *)
LEMMA MarksStep ==
  ASSUME TypeInv, TypeInv', FreshInv, MarksHaveDependents, [Next]_vars
  PROVE  MarksHaveDependents'
<1> USE DEF TypeInv, TypeOK
<1>1. \A r \in active : r \in Requests /\ pc[r] \in {"started", "producing", "stored"}
  BY DEF FreshInv, ActiveInv
<1>2. ASSUME UNCHANGED <<entries, marks>>,
             \A r \in active : r \in active' /\ call'[r] = call[r]
                             /\ fill'[r].createdVersion = fill[r].createdVersion
      PROVE  MarksHaveDependents'
  BY <1>2, DependentKept DEF Cached
<1>3. ASSUME NEW r \in Requests, NEW k \in Keys, NEW T \in TagSets, GetOrSet(r, k, T)
      PROVE  MarksHaveDependents'
  BY <1>1, <1>2, <1>3 DEF GetOrSet
<1>4. ASSUME NEW r \in Requests, JoinInflight(r) \/ StartFill(r) \/ SettleFill(r) \/ Return(r)
      PROVE  MarksHaveDependents'
  BY <1>1, <1>2, <1>4 DEF JoinInflight, StartFill, SettleFill, Return, cacheVars
<1>5. ASSUME NEW r \in Requests, CallProducer(r) PROVE MarksHaveDependents'
  <2>1. fill'[r].createdVersion = fill[r].createdVersion
    BY <1>5 DEF CallProducer, Fill
  <2>2. QED
    BY <1>1, <1>2, <1>5, <2>1 DEF CallProducer, cacheVars
<1>6. ASSUME NEW r \in Requests, ProducerReturns(r) PROVE MarksHaveDependents'
  <2>1. call[r].key \in Keys
    BY <1>6 DEF ProducerReturns, CallInv, Call
  <2>2. [tags |-> call[r].tags, createdVersion |-> fill[r].createdVersion,
         expired |-> FALSE, value |-> fill[r].value] \in Entry
    BY <1>6 DEF ProducerReturns, CallInv, ValueInv, Call, Fill, Entry
  <2>3. QED
    BY <1>6, <2>1, <2>2, StoreMarks DEF ProducerReturns
<1>7. ASSUME NEW r \in Requests, CloseFill(r), UNCHANGED <<entries, call>>,
             \A q \in Requests : fill'[q].createdVersion = fill[q].createdVersion
      PROVE  MarksHaveDependents'
  <2>1. \A t \in Tags : marks'[t] = IF t \in call[r].tags /\ ~Dependent(t, marks[t], entries, active \ {r})
                                    THEN 0 ELSE marks[t]
    BY <1>7 DEF CloseFill, PruneInvalidatedTagVersions
  <2>2. active' = active \ {r}
    BY <1>7 DEF CloseFill
  <2>3. ASSUME NEW t \in Tags, Dependent(t, marks[t], entries, active \ {r}), marks'[t] = marks[t]
        PROVE  Dependent(t, marks[t], entries, active)'
    BY <1>1, <1>7, <2>2, <2>3 DEF Dependent, Cached
  <2>4. QED
    BY <1>1, <1>7, <2>1, <2>2, <2>3, DependentKept DEF Cached
<1>8. ASSUME NEW r \in Requests, ProducerReturnsLate(r) \/ ProducerFails(r) \/ FinishFill(r)
      PROVE  MarksHaveDependents'
  <2>1. \A q \in Requests : fill'[q].createdVersion = fill[q].createdVersion
    BY <1>8 DEF ProducerReturnsLate, ProducerFails, FinishFill, Fill
  <2>2. QED
    BY <1>7, <1>8, <2>1 DEF ProducerReturnsLate, ProducerFails, FinishFill
<1>9. ASSUME NEW k \in Keys, NEW T \in TagSets, Set(k, T) PROVE MarksHaveDependents'
  <2>1. [tags |-> T, createdVersion |-> version + 1, expired |-> FALSE, value |-> Seen(T)] \in Entry
    BY TagSetsAssumption DEF Entry, Seen, Value
  <2>2. QED
    BY <1>9, <2>1, StoreMarks DEF Set, requestVars
<1>10. ASSUME NEW k \in Keys, Delete(k) PROVE MarksHaveDependents'
  <2> DEFINE kept == [entries EXCEPT ![k] = NoEntry]
  <2>1. entries' = kept /\ UNCHANGED <<active, call, fill>>
        /\ marks' = PruneInvalidatedTagVersions(entries[k].tags, marks, kept, active)
    BY <1>10 DEF Delete, requestVars
  <2>2. \A t \in Tags : marks'[t] = IF t \in entries[k].tags /\ ~Dependent(t, marks[t], kept, active)
                                    THEN 0 ELSE marks[t]
    BY <2>1 DEF PruneInvalidatedTagVersions
  <2>3. ASSUME NEW t \in Tags, Dependent(t, marks[t], kept, active), marks'[t] = marks[t]
        PROVE  Dependent(t, marks[t], entries, active)'
    BY <2>1, <2>3 DEF Dependent
  <2>4. \A j \in Keys : j # k => entries'[j] = entries[j]
    BY <2>1
  <2> HIDE DEF kept
  <2>5. QED
    BY <2>1, <2>2, <2>3, <2>4, DependentKept DEF Cached
<1>11. ASSUME NEW t \in Tags, InvalidateTag(t) PROVE MarksHaveDependents'
  <2> DEFINE m == [marks EXCEPT ![t] = version + 1]
  <2>1. /\ marks' = PruneInvalidatedTagVersions({t}, m, entries, active)
        /\ UNCHANGED <<entries, active, call, fill>>
    BY <1>11 DEF InvalidateTag, requestVars
  <2>2. /\ marks'[t] = IF ~Dependent(t, m[t], entries, active) THEN 0 ELSE m[t]
        /\ \A u \in Tags : u # t => marks'[u] = marks[u]
    BY <2>1 DEF PruneInvalidatedTagVersions
  <2>3. ASSUME Dependent(t, m[t], entries, active), marks'[t] = m[t]
        PROVE  Dependent(t, marks[t], entries, active)'
    BY <2>1, <2>3 DEF Dependent
  <2> HIDE DEF m
  <2>4. QED
    BY <2>1, <2>2, <2>3, DependentKept DEF Cached
<1>12. ASSUME NEW k \in Keys, Expire(k) PROVE MarksHaveDependents'
  <2>1. /\ entries[k] \in Entry /\ UNCHANGED <<marks, active, call, fill>>
        /\ entries' = [entries EXCEPT ![k].expired = TRUE]
    BY <1>12 DEF Expire, requestVars
  <2>2. \A j \in Keys : entries'[j].tags = entries[j].tags
                      /\ entries'[j].createdVersion = entries[j].createdVersion
                      /\ entries'[j].value = entries[j].value
    BY <2>1 DEF Entry
  <2>3. \A j \in Keys : entries[j] # NoEntry => entries'[j] # NoEntry
    <3>1. NoEntry.value = None /\ None \notin Value
      BY NoneAssumption DEF NoEntry, Value
    <3>2. \A j \in Keys : entries[j] # NoEntry => entries[j].value \in Value
      BY DEF Entry
    <3>3. QED
      BY <2>2, <3>1, <3>2
  <2>4. QED
    BY <2>1, <2>2, <2>3, DependentKept DEF Cached
<1>13. ASSUME ResetLocal PROVE MarksHaveDependents'
  BY <1>13 DEF ResetLocal, MarksHaveDependents
<1>14. ASSUME NEW k \in Keys, NEW allowStale \in BOOLEAN, GetEntry(k, allowStale) PROVE MarksHaveDependents'
  BY <1>2, <1>14 DEF GetEntry, requestVars
<1>15. CASE UNCHANGED vars
  BY <1>2, <1>15 DEF vars, cacheVars, requestVars
<1>16. QED
  BY <1>3, <1>4, <1>5, <1>6, <1>8, <1>9, <1>10, <1>11, <1>12, <1>13, <1>14, <1>15 DEF Next, RunFill

(* Pruning leaks no invalidation mark (pruneInvalidatedTagVersions).       *)
THEOREM MarksBounded == Spec => []MarksHaveDependents
<1>1. Init => MarksHaveDependents
  BY DEF Init, MarksHaveDependents
<1>2. TypeInv /\ TypeInv' /\ FreshInv /\ MarksHaveDependents /\ [Next]_vars => MarksHaveDependents'
  BY MarksStep
<1>3. QED
  BY <1>1, <1>2, TypeCorrect, FreshInvariant, PTL DEF Spec

-----------------------------------------------------------------------------
(* Capacity                                                                *)

(* o is the order in which the keys of S were last touched: of any of them *)
(* one comes first.                                                        *)
Recency(o, S) ==
  /\ \A j, k : <<j, k>> \in o => j \in S /\ k \in S /\ <<k, j>> \notin o
  /\ \A T \in SUBSET S : T # {} => \E k \in T : \A j \in T \ {k} : <<k, j>> \in o

CapacityInv ==
  /\ IsFiniteSet(Cached(entries)) /\ Cardinality(Cached(entries)) <= MaxEntries
  /\ Recency(older, Cached(entries))

(* A touched key moves to the end of the order, a forgotten one leaves it. *)
LEMMA TouchRecency ==
  ASSUME NEW S, NEW k, Recency(older, S)
  PROVE  Recency(Touch(k, S \cup {k}), S \cup {k})
<1> DEFINE o == Touch(k, S \cup {k})
<1>1. \A i, j : <<i, j>> \in o <=> (<<i, j>> \in older /\ i # k /\ j # k) \/ (i \in S /\ i # k /\ j = k)
  <2>1. \A i, j : <<i, j>> \in {p \in older : k \notin {p[1], p[2]}} <=> <<i, j>> \in older /\ i # k /\ j # k
    OBVIOUS
  <2>2. \A i, j : <<i, j>> \in {<<l, k>> : l \in (S \cup {k}) \ {k}} <=> i \in S /\ i # k /\ j = k
    OBVIOUS
  <2>3. QED
    BY <2>1, <2>2 DEF Touch
<1> HIDE DEF o
<1>2. ASSUME NEW T \in SUBSET (S \cup {k}), T # {}
      PROVE  \E i \in T : \A j \in T \ {i} : <<i, j>> \in o
  <2>1. CASE T \ {k} = {}
    BY <1>2, <2>1
  <2>2. CASE T \ {k} # {}
    <3>1. PICK i \in T \ {k} : \A j \in (T \ {k}) \ {i} : <<i, j>> \in older
      BY <1>2, <2>2 DEF Recency
    <3>2. \A j \in T \ {i} : <<i, j>> \in o
      BY <1>1, <1>2, <3>1
    <3>3. QED
      BY <3>1, <3>2
  <2>3. QED
    BY <2>1, <2>2
<1>3. \A i, j : <<i, j>> \in o => i \in S \cup {k} /\ j \in S \cup {k} /\ <<j, i>> \notin o
  BY <1>1 DEF Recency
<1>4. QED
  BY <1>2, <1>3 DEF Recency, o

(* What is forgotten leaves the order of the rest alone.                   *)
LEMMA ForgetRecency ==
  ASSUME NEW o, NEW S, NEW V, Recency(o, S), \A p \in o : \E i, j : p = <<i, j>>
  PROVE  Recency(Forget(o, V), S \ V)
BY DEF Recency, Forget

(* The entry that storeLocalEntry evicts is one of the map.                *)
LEMMA OldestCached ==
  ASSUME NEW o, NEW S, Recency(o, S), S # {}
  PROVE  Oldest(o, S) \in S
BY DEF Recency, Oldest

(* A store adds at most one key and, when that is one too many, evicts     *)
(* one.                                                                    *)
LEMMA StoreCapacity ==
  ASSUME TypeOK, CapacityInv, NEW k \in Keys, NEW e \in Entry, StoreLocalEntry(k, e)
  PROVE  CapacityInv'
<1> DEFINE put    == [entries EXCEPT ![k] = e]
           full   == Cached(entries) \cup {k}
           recent == Touch(k, Cached(put))
           victim == IF Cardinality(Cached(put)) > MaxEntries
                       THEN {Oldest(recent, Cached(put))} ELSE {}
           kept   == [j \in Keys |-> IF j \in victim THEN NoEntry ELSE put[j]]
<1>1. entries' = kept /\ older' = Forget(recent, victim)
  BY DEF StoreLocalEntry
<1>2. e # NoEntry
  BY NoneAssumption DEF Entry, NoEntry, Value
<1>3. Cached(put) = full
  BY <1>2 DEF Cached, TypeOK
<1>4. Cached(kept) = full \ victim
  BY <1>3 DEF Cached
<1>5. IsFiniteSet(full) /\ Cardinality(full) <= Cardinality(Cached(entries)) + 1
      /\ Cardinality(full) \in Nat /\ Cardinality(Cached(entries)) \in Nat
  <2>1. IsFiniteSet(Cached(entries))
    BY DEF CapacityInv
  <2>2. IsFiniteSet(full) /\ Cardinality(full) = IF k \in Cached(entries) THEN Cardinality(Cached(entries))
                                                ELSE Cardinality(Cached(entries)) + 1
    BY <2>1, FS_AddElement
  <2>3. Cardinality(full) \in Nat /\ Cardinality(Cached(entries)) \in Nat
    BY <2>1, <2>2, FS_CardinalityType
  <2> HIDE DEF full
  <2>4. QED
    BY <2>2, <2>3
<1>6. Recency(recent, full)
  BY <1>3, TouchRecency DEF CapacityInv
<1>7. \A p \in recent : \E i, j : p = <<i, j>>
  BY DEF Touch, TypeOK
<1> HIDE DEF full, recent, put
<1>8. Recency(Forget(recent, victim), full \ victim)
  BY <1>6, <1>7, ForgetRecency
<1>9. IsFiniteSet(full \ victim) /\ Cardinality(full \ victim) <= MaxEntries
  <2>0. MaxEntries \in Nat /\ MaxEntries > 0 /\ Cardinality(Cached(entries)) <= MaxEntries
    BY MaxEntriesAssumption DEF CapacityInv
  <2>1. CASE Cardinality(full) > MaxEntries
    <3>1. full # {}
      BY <2>1, FS_EmptySet, MaxEntriesAssumption
    <3>2. PICK v \in full : victim = {v}
      BY <1>3, <1>6, <2>1, <3>1, OldestCached
    <3>3. IsFiniteSet(full \ {v}) /\ Cardinality(full \ {v}) = Cardinality(full) - 1
      BY <1>5, <3>2, FS_RemoveElement
    <3>4. QED
      BY <1>5, <2>0, <3>2, <3>3
  <2>2. CASE ~(Cardinality(full) > MaxEntries)
    <3>1. victim = {} /\ full \ victim = full
      BY <1>3, <2>2
    <3>2. Cardinality(full) <= MaxEntries
      BY <1>5, <2>0, <2>2
    <3>3. QED
      BY <1>5, <3>1, <3>2
  <2>3. QED
    BY <2>1, <2>2
<1>10. QED
  BY <1>1, <1>4, <1>8, <1>9 DEF CapacityInv

(* Every step keeps the order and the bound: the invariant needs more      *)
(* than the property says, namely that the order has a first key for       *)
(* every set of keys, which is why an eviction always finds its victim.    *)
LEMMA CapacityStep ==
  ASSUME TypeInv, CapacityInv, [Next]_vars
  PROVE  CapacityInv'
<1> USE DEF TypeInv, TypeOK
<1>1. CASE UNCHANGED <<entries, older>>
  BY <1>1 DEF CapacityInv, Cached
<1>2. ASSUME NEW k \in Keys, entries[k] # NoEntry, older' = Touch(k, Cached(entries)), entries' = entries
      PROVE  CapacityInv'
  <2>1. Cached(entries) \cup {k} = Cached(entries)
    BY <1>2 DEF Cached
  <2>2. Recency(Touch(k, Cached(entries)), Cached(entries))
    BY <2>1, TouchRecency DEF CapacityInv
  <2>3. QED
    BY <1>2, <2>2 DEF CapacityInv, Cached
<1>3. ASSUME NEW r \in Requests, NEW k \in Keys, NEW T \in TagSets, GetOrSet(r, k, T) PROVE CapacityInv'
  BY <1>1, <1>2, <1>3 DEF GetOrSet
<1>4. ASSUME NEW k \in Keys, NEW allowStale \in BOOLEAN, GetEntry(k, allowStale) PROVE CapacityInv'
  BY <1>2, <1>4 DEF GetEntry
<1>5. ASSUME NEW r \in Requests, ProducerReturns(r) PROVE CapacityInv'
  <2>1. call[r].key \in Keys
    BY <1>5 DEF ProducerReturns, CallInv, Call
  <2>2. [tags |-> call[r].tags, createdVersion |-> fill[r].createdVersion,
         expired |-> FALSE, value |-> fill[r].value] \in Entry
    BY <1>5 DEF ProducerReturns, CallInv, ValueInv, Call, Fill, Entry
  <2>3. QED
    BY <1>5, <2>1, <2>2, StoreCapacity DEF ProducerReturns
<1>6. ASSUME NEW k \in Keys, NEW T \in TagSets, Set(k, T) PROVE CapacityInv'
  <2>1. [tags |-> T, createdVersion |-> version + 1, expired |-> FALSE, value |-> Seen(T)] \in Entry
    BY TagSetsAssumption DEF Entry, Seen, Value
  <2>2. QED
    BY <1>6, <2>1, StoreCapacity DEF Set
<1>7. ASSUME NEW k \in Keys, Delete(k) PROVE CapacityInv'
  <2>1. entries' = [entries EXCEPT ![k] = NoEntry] /\ older' = Forget(older, {k})
    BY <1>7 DEF Delete
  <2>2. Cached(entries)' = Cached(entries) \ {k}
    BY <2>1 DEF Cached
  <2>3. Recency(Forget(older, {k}), Cached(entries) \ {k})
    <3>1. \A p \in older : \E i, j : p = <<i, j>>
      OBVIOUS
    <3>2. QED
      BY <3>1, ForgetRecency DEF CapacityInv
  <2>4. /\ IsFiniteSet(Cached(entries) \ {k})
        /\ Cardinality(Cached(entries) \ {k}) <= Cardinality(Cached(entries))
        /\ Cardinality(Cached(entries) \ {k}) \in Nat /\ Cardinality(Cached(entries)) \in Nat
    BY FS_Subset, FS_CardinalityType DEF CapacityInv
  <2>5. Cardinality(Cached(entries) \ {k}) <= MaxEntries
    <3>1. MaxEntries \in Nat /\ Cardinality(Cached(entries)) <= MaxEntries
      BY MaxEntriesAssumption DEF CapacityInv
    <3>2. QED
      BY <2>4, <3>1
  <2>6. QED
    BY <2>1, <2>2, <2>3, <2>4, <2>5 DEF CapacityInv
<1>8. ASSUME NEW k \in Keys, Expire(k) PROVE CapacityInv'
  <2>1. entries[k] \in Entry /\ older' = older /\ entries' = [entries EXCEPT ![k].expired = TRUE]
    BY <1>8 DEF Expire
  <2>2. entries'[k] # NoEntry
    <3>1. NoEntry.value = None /\ None \notin Value
      BY NoneAssumption DEF NoEntry, Value
    <3>2. entries'[k].value \in Value
      BY <2>1 DEF Entry
    <3>3. QED
      BY <3>1, <3>2
  <2>3. Cached(entries)' = Cached(entries)
    BY <1>8, <2>1, <2>2 DEF Cached, Expire
  <2>4. QED
    BY <2>1, <2>3 DEF CapacityInv
<1>9. CASE ResetLocal
  <2>1. Cached(entries)' = {} /\ older' = {}
    BY <1>9 DEF ResetLocal, Cached
  <2>2. QED
    BY <2>1, FS_EmptySet, MaxEntriesAssumption DEF CapacityInv, Recency
<1>10. ASSUME NEW r \in Requests, JoinInflight(r) \/ Return(r) \/ StartFill(r) \/ CallProducer(r)
                \/ ProducerReturnsLate(r) \/ ProducerFails(r) \/ FinishFill(r) \/ SettleFill(r)
       PROVE CapacityInv'
  BY <1>1, <1>10 DEF JoinInflight, Return, StartFill, CallProducer, ProducerReturnsLate,
                     ProducerFails, FinishFill, SettleFill, cacheVars
<1>11. CASE (\E t \in Tags : InvalidateTag(t)) \/ UNCHANGED vars
  BY <1>1, <1>11 DEF InvalidateTag, vars, cacheVars
<1>12. QED
  BY <1>3, <1>4, <1>5, <1>6, <1>7, <1>8, <1>9, <1>10, <1>11 DEF Next, RunFill

(* The map holds at most maxEntries entries, in the order in which they    *)
(* were last touched (storeLocalEntry, touchEntry).                        *)
THEOREM CapacityBounded == Spec => []CapacityRespected
<1>1. Init => CapacityInv
  <2>1. Init => Cached(entries) = {} /\ older = {}
    BY DEF Init, Cached
  <2>2. QED
    BY <2>1, FS_EmptySet, MaxEntriesAssumption DEF CapacityInv, Recency
<1>2. TypeInv /\ CapacityInv /\ [Next]_vars => CapacityInv'
  BY CapacityStep
<1>3. CapacityInv => CapacityRespected
  <2> SUFFICES ASSUME CapacityInv, NEW j \in Keys, NEW k \in Keys
               PROVE  /\ <<j, k>> \in older => {j, k} \subseteq Cached(entries)
                      /\ {j, k} \subseteq Cached(entries) /\ j # k
                           => ((<<j, k>> \in older) # (<<k, j>> \in older))
    BY DEF CapacityInv, CapacityRespected
  <2>1. <<j, k>> \in older => {j, k} \subseteq Cached(entries) /\ <<k, j>> \notin older
    BY DEF CapacityInv, Recency
  <2>2. ASSUME {j, k} \subseteq Cached(entries), j # k PROVE <<j, k>> \in older \/ <<k, j>> \in older
    <3>1. {j, k} \in SUBSET Cached(entries) /\ {j, k} # {}
      BY <2>2
    <3>2. PICK i \in {j, k} : \A l \in {j, k} \ {i} : <<i, l>> \in older
      BY <3>1 DEF CapacityInv, Recency
    <3>3. QED
      BY <2>2, <3>2
  <2>3. <<k, j>> \in older => <<j, k>> \notin older
    BY DEF CapacityInv, Recency
  <2>4. QED
    BY <2>1, <2>2, <2>3
<1>4. QED
  BY <1>1, <1>2, <1>3, TypeCorrect, PTL DEF Spec

-----------------------------------------------------------------------------
(* Recency                                                                 *)

(* One step of EvictsLeastRecent.                                          *)
UseOrder ==
  \A k \in Keys : Written(k) \/ Hit(k)
    => \A j \in Cached(entries') \ {k} : <<j, k>> \in older'

RecencyStep == (Cached(entries') \subseteq Cached(entries) \/ MakesRoom) /\ UseOrder

(* A store puts its key last and, when the key is new and the map is full, *)
(* evicts the first of the others.                                         *)
LEMMA StoreRecency ==
  ASSUME TypeOK, CapacityInv, NEW k \in Keys, NEW e \in Entry, StoreLocalEntry(k, e),
         \A r \in Requests : ~(pc[r] = "idle" /\ pc'[r] = "done")
  PROVE  RecencyStep
<1> DEFINE put    == [entries EXCEPT ![k] = e]
           before == Cached(entries)
           full   == before \cup {k}
           recent == Touch(k, Cached(put))
           victim == IF Cardinality(Cached(put)) > MaxEntries
                       THEN {Oldest(recent, Cached(put))} ELSE {}
           kept   == [j \in Keys |-> IF j \in victim THEN NoEntry ELSE put[j]]
<1>1. entries' = kept /\ older' = Forget(recent, victim)
  BY DEF StoreLocalEntry
<1>2. e # NoEntry
  BY NoneAssumption DEF Entry, NoEntry, Value
<1>3. Cached(put) = full
  BY <1>2 DEF Cached, TypeOK
<1>4. Cached(kept) = full \ victim
  BY <1>3 DEF Cached
<1>5. \A i, j : <<i, j>> \in recent <=> (<<i, j>> \in older /\ i # k /\ j # k) \/ (i \in before /\ i # k /\ j = k)
  <2>1. \A i, j : <<i, j>> \in {p \in older : k \notin {p[1], p[2]}} <=> <<i, j>> \in older /\ i # k /\ j # k
    OBVIOUS
  <2>2. \A i, j : <<i, j>> \in {<<l, k>> : l \in full \ {k}} <=> i \in before /\ i # k /\ j = k
    OBVIOUS
  <2>3. QED
    BY <1>3, <2>1, <2>2 DEF Touch
<1>6. /\ IsFiniteSet(before) /\ Cardinality(before) <= MaxEntries
      /\ Cardinality(full) = IF k \in before THEN Cardinality(before) ELSE Cardinality(before) + 1
      /\ Cardinality(before) \in Nat /\ MaxEntries \in Nat /\ MaxEntries > 0
  BY FS_AddElement, FS_CardinalityType, MaxEntriesAssumption DEF CapacityInv
<1>7. Recency(older, before)
  BY DEF CapacityInv
<1>8. \A j \in Keys \ {k} : entries'[j] = entries[j] \/ entries'[j] = NoEntry
  BY <1>1 DEF TypeOK
<1>9. UseOrder
  <2> SUFFICES ASSUME NEW l \in Keys, Written(l), NEW j \in Cached(entries') \ {l}
               PROVE  <<j, l>> \in older'
    BY DEF UseOrder, Hit
  <2>1. l = k
    BY <1>8 DEF Written
  <2>2. l \notin victim /\ j \notin victim /\ j \in before
    <3>1. l \in Cached(kept) /\ j \in Cached(kept)
      BY <1>1 DEF Written, Cached
    <3> HIDE DEF kept, victim, full
    <3>2. l \notin victim /\ j \notin victim /\ j \in full
      BY <1>4, <3>1
    <3>3. QED
      BY <2>1, <3>2 DEF full
  <2> HIDE DEF recent, victim, before
  <2>3. <<j, l>> \in recent
    BY <1>5, <2>1, <2>2
  <2>4. QED
    BY <1>1, <2>2, <2>3 DEF Forget
<1>10. Cached(entries') \subseteq Cached(entries) \/ MakesRoom
  <2>1. CASE k \in before
    BY <1>1, <1>4, <2>1
  <2>2. CASE k \notin before /\ Cardinality(before) < MaxEntries
    <3>1. Cardinality(full) <= MaxEntries
      <4> HIDE DEF full, before
      <4>1. QED
        BY <1>6, <2>2
    <3>2. victim = {}
      <4>1. ~(Cardinality(full) > MaxEntries)
        <5> HIDE DEF full, before
        <5>1. QED
          BY <1>6, <2>2, <3>1
      <4>2. QED
        BY <1>3, <4>1
    <3>3. before \ Cached(entries') = {}
      BY <1>1, <1>4, <3>2
    <3>4. QED
      BY <2>2, <3>3 DEF MakesRoom
  <2>3. CASE k \notin before /\ ~(Cardinality(before) < MaxEntries)
    <3>1. Cardinality(full) > MaxEntries /\ Cardinality(before) > 0
      <4> HIDE DEF full, before
      <4>1. QED
        BY <1>6, <2>3
    <3>2. before # {}
      BY <3>1, FS_EmptySet
    <3> DEFINE v == Oldest(recent, full)
    <3>3. victim = {v}
      BY <1>3, <3>1
    <3>4. Recency(recent, full)
      BY <1>3, <1>7, TouchRecency
    <3>5. v \in full /\ \A j \in full \ {v} : <<v, j>> \in recent
      <4> HIDE DEF recent, full
      <4>1. full # {}
        BY <3>2 DEF full
      <4>2. \E i \in full : \A j \in full \ {i} : <<i, j>> \in recent
        BY <3>4, <4>1 DEF Recency
      <4>3. QED
        BY <4>2 DEF Oldest
    <3> HIDE DEF v, recent, victim, kept, put
    <3>6. v # k
      <4>1. PICK j \in before : TRUE
        BY <3>2
      <4>2. j # k
        BY <2>3
      <4>3. <<j, k>> \in recent /\ <<k, j>> \notin recent
        BY <1>5, <4>2
      <4>4. QED
        BY <3>5, <4>2, <4>3
    <3>7. v \in before /\ \A j \in before \ {v} : <<v, j>> \in older
      <4>1. v \in before
        BY <3>5, <3>6
      <4>2. \A j \in before \ {v} : j # k /\ <<v, j>> \in recent
        BY <2>3, <3>5
      <4>3. QED
        BY <1>5, <4>1, <4>2
    <3>8. before \ Cached(entries') = {v}
      BY <1>1, <1>4, <3>3, <3>7
    <3>9. QED
      BY <2>3, <3>7, <3>8 DEF MakesRoom
  <2>4. QED
    BY <2>1, <2>2, <2>3
<1>11. QED
  BY <1>9, <1>10 DEF RecencyStep

(* A step that writes no entry and hits none, or hits one and touches it.  *)
LEMMA RecencyKept ==
  ASSUME TypeOK,
         \A k \in Keys : entries'[k] \in {entries[k], NoEntry} \/ entries'[k].expired,
         Cached(entries') \subseteq Cached(entries),
         \A k \in Keys : Hit(k) => entries' = entries /\ older' = Touch(k, Cached(entries))
  PROVE  RecencyStep
<1>1. \A k \in Keys : ~Written(k)
  BY DEF Written
<1>2. ASSUME NEW k \in Keys, Hit(k), NEW j \in Cached(entries') \ {k} PROVE <<j, k>> \in older'
  BY <1>2 DEF Touch
<1>3. QED
  BY <1>1, <1>2 DEF RecencyStep, UseOrder

(* Every step of the cache is one of those two kinds.                      *)
LEMMA EveryRecencyStep ==
  ASSUME TypeInv, CapacityInv, [Next]_vars, vars' # vars
  PROVE  RecencyStep
<1> USE DEF TypeInv, TypeOK
<1>1. ASSUME UNCHANGED entries, \A r \in Requests : ~(pc[r] = "idle" /\ pc'[r] = "done")
      PROVE  RecencyStep
  BY <1>1, RecencyKept DEF Hit
<1>2. ASSUME NEW r \in Requests, NEW k \in Keys, NEW T \in TagSets, GetOrSet(r, k, T) PROVE RecencyStep
  <2>1. /\ UNCHANGED entries
        /\ \A q \in Requests : pc[q] = "idle" /\ pc'[q] = "done"
             => q = r /\ call'[r].key = k /\ older' = Touch(k, Cached(entries))
    BY <1>2 DEF GetOrSet
  <2>2. \A l \in Keys : Hit(l) => l = k /\ older' = Touch(k, Cached(entries))
    BY <2>1 DEF Hit
  <2>3. QED
    BY <2>1, <2>2, RecencyKept
<1>3. ASSUME NEW r \in Requests, ProducerReturns(r) PROVE RecencyStep
  <2>1. call[r].key \in Keys
    BY <1>3 DEF ProducerReturns, CallInv, Call
  <2>2. [tags |-> call[r].tags, createdVersion |-> fill[r].createdVersion,
         expired |-> FALSE, value |-> fill[r].value] \in Entry
    BY <1>3 DEF ProducerReturns, CallInv, ValueInv, Call, Fill, Entry
  <2>3. \A q \in Requests : ~(pc[q] = "idle" /\ pc'[q] = "done")
    BY <1>3 DEF ProducerReturns
  <2>4. QED
    BY <1>3, <2>1, <2>2, <2>3, StoreRecency DEF ProducerReturns
<1>4. ASSUME NEW k \in Keys, NEW T \in TagSets, Set(k, T) PROVE RecencyStep
  <2>1. [tags |-> T, createdVersion |-> version + 1, expired |-> FALSE, value |-> Seen(T)] \in Entry
    BY TagSetsAssumption DEF Entry, Seen, Value
  <2>2. \A q \in Requests : ~(pc[q] = "idle" /\ pc'[q] = "done")
    BY <1>4 DEF Set, requestVars
  <2>3. QED
    BY <1>4, <2>1, <2>2, StoreRecency DEF Set
<1>5. ASSUME NEW k \in Keys, Delete(k) PROVE RecencyStep
  <2>1. entries' = [entries EXCEPT ![k] = NoEntry] /\ pc' = pc
    BY <1>5 DEF Delete, requestVars
  <2>2. \A l \in Keys : ~Hit(l)
    BY <2>1 DEF Hit
  <2>3. QED
    BY <2>1, <2>2, RecencyKept DEF Cached
<1>6. ASSUME NEW k \in Keys, Expire(k) PROVE RecencyStep
  <2>1. /\ entries[k] \in Entry /\ entries[k] # NoEntry /\ pc' = pc
        /\ entries' = [entries EXCEPT ![k].expired = TRUE]
    BY <1>6 DEF Expire, requestVars
  <2>2. \A l \in Keys : ~Hit(l)
    BY <2>1 DEF Hit
  <2>3. entries'[k].expired /\ \A l \in Keys \ {k} : entries'[l] = entries[l]
    BY <2>1 DEF Entry
  <2>4. QED
    BY <2>1, <2>2, <2>3, RecencyKept DEF Cached
<1>7. CASE ResetLocal
  <2>1. entries' = [k \in Keys |-> NoEntry] /\ pc' = pc
    BY <1>7 DEF ResetLocal, requestVars
  <2>2. \A l \in Keys : ~Hit(l)
    BY <2>1 DEF Hit
  <2>3. QED
    BY <2>1, <2>2, RecencyKept DEF Cached
<1>8. ASSUME NEW r \in Requests, JoinInflight(r) \/ Return(r) \/ StartFill(r) \/ CallProducer(r)
               \/ ProducerReturnsLate(r) \/ ProducerFails(r) \/ FinishFill(r) \/ SettleFill(r)
      PROVE RecencyStep
  <2>1. UNCHANGED entries
    BY <1>8 DEF JoinInflight, Return, StartFill, CallProducer, ProducerReturnsLate,
                ProducerFails, FinishFill, SettleFill, cacheVars
  <2>2. \A q \in Requests : ~(pc[q] = "idle" /\ pc'[q] = "done")
    BY <1>8 DEF JoinInflight, Return, StartFill, CallProducer, ProducerReturnsLate,
                ProducerFails, FinishFill, SettleFill, CloseFill
  <2>3. QED
    BY <1>1, <2>1, <2>2
<1>9. CASE (\E t \in Tags : InvalidateTag(t)) \/ (\E k \in Keys, allowStale \in BOOLEAN : GetEntry(k, allowStale))
  BY <1>1, <1>9 DEF InvalidateTag, GetEntry, requestVars
<1>10. QED
  BY <1>2, <1>3, <1>4, <1>5, <1>6, <1>7, <1>8, <1>9 DEF Next, RunFill

(* The entry that leaves when a key enters a full map is the one least     *)
(* recently written or hit (storeLocalEntry, touchEntry).                  *)
THEOREM RecencyRespected == Spec => EvictsLeastRecent
<1>1. Init => CapacityInv
  <2>1. Init => Cached(entries) = {} /\ older = {}
    BY DEF Init, Cached
  <2>2. QED
    BY <2>1, FS_EmptySet, MaxEntriesAssumption DEF CapacityInv, Recency
<1>2. TypeInv /\ CapacityInv /\ [Next]_vars => CapacityInv'
  BY CapacityStep
<1>3. TypeInv /\ CapacityInv /\ [Next]_vars => [RecencyStep]_vars
  BY EveryRecencyStep
<1>4. QED
  BY <1>1, <1>2, <1>3, TypeCorrect, PTL DEF Spec, EvictsLeastRecent, RecencyStep, UseOrder

=============================================================================
