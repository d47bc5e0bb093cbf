------------------------- MODULE LocalCacheRefinement -------------------------
(***************************************************************************)
(* LocalCache implements TagCache, and shares fills: proofs on top of the  *)
(* invariant of LocalCacheProofs.                                          *)
(***************************************************************************)
EXTENDS LocalCacheProofs

(* Dropping marks that nothing tagged T of version v depends on does not   *)
(* change whether it is invalidated.                                       *)
LEMMA SameStaleness ==
  ASSUME TypeOK, NEW T \in SUBSET Tags, NEW v \in Nat,
         \A t \in T : marks'[t] \in {0, marks[t]},
         \A t \in T : v < marks[t] => marks'[t] = marks[t]
  PROVE  WasInvalidatedSince(T, v)' <=> WasInvalidatedSince(T, v)
BY DEF WasInvalidatedSince, TypeOK

(* The items of a cache whose marks lost nothing anything depends on.      *)
LEMMA SameFillings ==
  ASSUME TypeInv, FreshInv, UNCHANGED <<call, fill>>, active' \subseteq active,
         \A t \in Tags : marks'[t] \in {0, marks[t]},
         \A r \in active', t \in Tags :
           t \in call[r].tags /\ fill[r].createdVersion < marks[t] => marks'[t] = marks[t]
  PROVE  \A r \in Requests :
           FillingItems'[r] = IF r \in active' THEN FillingItems[r] ELSE Nothing
<1> SUFFICES ASSUME NEW r \in active'
             PROVE  FillingItems'[r] = FillingItems[r]
  BY DEF FillingItems, TypeInv, TypeOK
<1>1. r \in active /\ call[r].tags \in SUBSET Tags /\ fill[r].createdVersion \in Nat
  BY DEF TypeInv, TypeOK, CallInv, FreshInv, ActiveInv, Call, Fill
<1>2. WasInvalidatedSince(call[r].tags, fill[r].createdVersion)'
        <=> WasInvalidatedSince(call[r].tags, fill[r].createdVersion)
  BY <1>1, SameStaleness DEF TypeInv, WasInvalidatedSince
<1>3. WasInvalidatedSince(call[r].tags, fill[r].createdVersion) \in BOOLEAN
      /\ WasInvalidatedSince(call[r].tags, fill[r].createdVersion)' \in BOOLEAN
  BY DEF WasInvalidatedSince
<1> QED
  BY <1>1, <1>2, <1>3 DEF FillingItems, TypeInv, TypeOK

LEMMA SameItem ==
  ASSUME TypeInv, NEW j \in Keys, entries'[j] = entries[j],
         \A t \in Tags :
           /\ marks'[t] \in {0, marks[t]}
           /\ entries[j] # NoEntry /\ t \in entries[j].tags
                /\ entries[j].createdVersion < marks[t] => marks'[t] = marks[t]
  PROVE  CachedItems'[j] = CachedItems[j]
<1>1. CASE entries[j] = NoEntry
  BY <1>1 DEF CachedItems
<1>2. CASE entries[j] # NoEntry
  <2>1. entries[j].tags \in SUBSET Tags /\ entries[j].createdVersion \in Nat
    BY <1>2 DEF TypeInv, TypeOK, Entry
  <2>2. (\E t \in entries[j].tags : marks'[t] > entries[j].createdVersion)
          <=> (\E t \in entries[j].tags : marks[t] > entries[j].createdVersion)
    BY <1>2, <2>1 DEF TypeInv, TypeOK
  <2> QED
    BY <1>2, <2>2 DEF CachedItems, IsStale
<1> QED
  BY <1>1, <1>2

(* An item is not the absent item.                                         *)
LEMMA NoneIsNoItem ==
  ASSUME NEW T \in SUBSET Tags, NEW b \in BOOLEAN
  PROVE  [tags |-> T, stale |-> b] # None
BY NoneAssumption

-----------------------------------------------------------------------------
(* What each kind of step is in TagCache.                                  *)

(* No entry, mark or registration changes: nothing happens in TagCache.    *)
LEMMA QuietStep ==
  ASSUME UNCHANGED <<entries, marks, active>>,
         \A r \in active : /\ call'[r] = call[r]
                           /\ fill'[r].createdVersion = fill[r].createdVersion
  PROVE  UNCHANGED <<CachedItems, FillingItems>>
<1>1. CachedItems' = CachedItems
  BY DEF CachedItems, IsStale
<1>2. \A r \in active : WasInvalidatedSince(call[r].tags, fill[r].createdVersion)'
                       = WasInvalidatedSince(call[r].tags, fill[r].createdVersion)
  BY DEF WasInvalidatedSince
<1>3. FillingItems' = FillingItems
  BY <1>2 DEF FillingItems
<1> QED
  BY <1>1, <1>3

LEMMA BeginStep ==
  ASSUME TypeInv, FreshInv, NEW r \in Requests, StartFill(r)
  PROVE  \E T \in SUBSET Tags : Promise!Begin(r, T)
<1> USE DEF TypeInv, TypeOK
<1>1. /\ pc[r] = "looked" /\ active' = active \cup {r} /\ r \in active'
      /\ fill'[r].createdVersion = version
      /\ \A q \in Requests : q # r => fill'[q] = fill[q]
      /\ UNCHANGED <<entries, marks, version, call>>
  BY DEF StartFill
<1>2. call[r].tags \in SUBSET Tags
  BY <1>1 DEF CallInv, Call
<1>3. r \notin active
  BY <1>1 DEF FreshInv, ActiveInv
<1>4. CachedItems' = CachedItems
  BY <1>1 DEF CachedItems, IsStale
<1>5. WasInvalidatedSince(call[r].tags, fill[r].createdVersion)' = FALSE
  BY <1>1, <1>2 DEF WasInvalidatedSince, FreshInv, VersionInv
<1>6. FillingItems'[r] = [tags |-> call[r].tags, stale |-> FALSE]
  BY <1>1, <1>5 DEF FillingItems
<1>7. ASSUME NEW q \in Requests, q # r
      PROVE  FillingItems'[q] = FillingItems[q]
  <2>1. WasInvalidatedSince(call[q].tags, fill[q].createdVersion)'
          = WasInvalidatedSince(call[q].tags, fill[q].createdVersion)
    BY <1>1, <1>7 DEF WasInvalidatedSince
  <2> QED
    BY <1>1, <1>7, <2>1 DEF FillingItems
<1>8. FillingItems' = [FillingItems EXCEPT ![r] = [tags |-> call[r].tags, stale |-> FALSE]]
  BY <1>6, <1>7 DEF FillingItems
<1>9. FillingItems[r] = Nothing
  BY <1>3 DEF FillingItems
<1> QED
  BY <1>1, <1>2, <1>4, <1>8, <1>9 DEF Promise!Begin, Promise!Clean

(* Storing an entry whose version no remaining mark misjudges.             *)
LEMMA PutStep ==
  ASSUME TypeInv, FreshInv, NEW k \in Keys, NEW e \in Entry, StoreLocalEntry(k, e),
         UNCHANGED <<active, call, fill>>, e.expired = FALSE,
         NEW stale \in BOOLEAN,
         stale <=> \E t \in e.tags : marks[t] > e.createdVersion
  PROVE  Promise!PutItem(k, [tags |-> e.tags, stale |-> stale]) /\ UNCHANGED FillingItems
<1> USE DEF TypeInv, TypeOK
<1>1. /\ \A j \in Keys : entries'[j] = NoEntry \/ entries'[j] = entries[j]
                          \/ (j = k /\ entries'[j] = e)
      /\ \A t \in Tags :
           /\ marks'[t] \in {0, marks[t]}
           /\ \A j \in Keys :
                entries'[j] # NoEntry /\ t \in entries'[j].tags
                  /\ entries'[j].createdVersion < marks[t] => marks'[t] = marks[t]
           /\ \A r \in active :
                t \in call[r].tags /\ fill[r].createdVersion < marks[t]
                  => marks'[t] = marks[t]
  BY StoreKeeps
<1>2. UNCHANGED FillingItems
  <2>1. \A r \in Requests : FillingItems'[r] = FillingItems[r]
    BY <1>1, SameFillings DEF FillingItems
  <2> QED
    BY <2>1 DEF FillingItems
<1> DEFINE item == [tags |-> e.tags, stale |-> stale]
           evicted == {j \in Keys : CachedItems'[j] = Nothing}
<1>3. entries'[k] = e \/ entries'[k] = NoEntry
  BY DEF StoreLocalEntry
<1>4. e # NoEntry /\ e.tags \subseteq Tags /\ e.createdVersion \in Nat
  BY DEF Entry, NoEntry
<1>5. ASSUME entries'[k] = e
      PROVE  CachedItems'[k] = item
  <2>1. (\E t \in e.tags : marks'[t] > e.createdVersion)
          <=> (\E t \in e.tags : marks[t] > e.createdVersion)
    BY <1>1, <1>4, <1>5
  <2>2. IsStale(e)' = stale
    BY <2>1 DEF IsStale
  <2>3. CachedItems'[k] = [tags |-> e.tags, stale |-> IsStale(e)']
    BY <1>4, <1>5 DEF CachedItems, IsStale
  <2> QED
    BY <2>2, <2>3
<1>6. ASSUME NEW j \in Keys, j # k, entries'[j] # NoEntry
      PROVE  CachedItems'[j] = CachedItems[j]
  <2>1. entries'[j] = entries[j]
    BY <1>1, <1>6
  <2> QED
    BY <1>1, <2>1, <1>6, SameItem
<1>7. \A j \in Keys : entries'[j] = NoEntry => j \in evicted
  BY DEF CachedItems
<1>8. CachedItems' = [j \in Keys |-> IF j \in evicted THEN Nothing
                                     ELSE IF j = k THEN item ELSE CachedItems[j]]
  <2>1. CachedItems' = [j \in Keys |-> CachedItems'[j]]
    BY DEF CachedItems
  <2>2. ASSUME NEW j \in Keys
        PROVE  CachedItems'[j] = IF j \in evicted THEN Nothing
                                 ELSE IF j = k THEN item ELSE CachedItems[j]
    <3> HIDE DEF item
    <3> QED
      BY <1>3, <1>5, <1>6, <1>7
  <2> HIDE DEF item, evicted
  <2> QED
    BY <2>1, <2>2
<1> QED
  BY <1>2, <1>8 DEF Promise!PutItem

LEMMA CommitStep ==
  ASSUME TypeInv, FreshInv, NEW r \in Requests, ProducerReturns(r)
  PROVE  \E k \in Keys : Promise!Commit(r, k)
<1> USE DEF TypeInv, TypeOK
<1> DEFINE e == [tags |-> call[r].tags, createdVersion |-> fill[r].createdVersion,
                 expired |-> FALSE, value |-> fill[r].value]
           stale == WasInvalidatedSince(call[r].tags, fill[r].createdVersion)
<1>1. /\ pc[r] = "producing" /\ fill[r].generation = generation
      /\ StoreLocalEntry(call[r].key, e)
      /\ UNCHANGED <<active, call, fill, version>>
  BY DEF ProducerReturns
<1>2. call[r] \in Call /\ fill[r] \in Fill /\ fill[r].value \in Value
  BY <1>1 DEF CallInv, ValueInv
<1>3. e \in Entry /\ call[r].key \in Keys
  BY <1>2 DEF Entry, Call, Fill
<1>4. r \in active
  BY <1>1 DEF FreshInv, ActiveInv
<1>5. FillingItems[r] = [tags |-> call[r].tags, stale |-> stale]
  BY <1>4 DEF FillingItems
<1>6. /\ stale \in BOOLEAN /\ e.expired = FALSE /\ e.tags = call[r].tags
      /\ stale <=> \E t \in e.tags : marks[t] > e.createdVersion
  BY DEF WasInvalidatedSince
<1> HIDE DEF e, stale
<1>7. Promise!PutItem(call[r].key, [tags |-> e.tags, stale |-> stale]) /\ UNCHANGED FillingItems
  BY <1>1, <1>3, <1>6, PutStep
<1>8. FillingItems[r] # Nothing
  BY <1>3, <1>4, <1>5, <1>6, NoneIsNoItem DEF Entry, Nothing
<1> QED
  BY <1>1, <1>3, <1>5, <1>6, <1>7, <1>8 DEF Promise!Commit

LEMMA SetStep ==
  ASSUME TypeInv, FreshInv, NEW k \in Keys, NEW T \in TagSets, Set(k, T)
  PROVE  Promise!Put(k, T)
<1> USE DEF TypeInv, TypeOK
<1> DEFINE e == [tags |-> T, createdVersion |-> version + 1,
                 expired |-> FALSE, value |-> Seen(T)]
<1>1. StoreLocalEntry(k, e) /\ version' = version + 1 /\ UNCHANGED <<active, call, fill>>
  BY DEF Set, requestVars
<1>2. e \in Entry /\ e.tags = T /\ e.expired = FALSE /\ e.createdVersion = version + 1
  BY TagSetsAssumption DEF Entry, Seen, Value
<1> HIDE DEF e
<1>3. FALSE <=> \E t \in e.tags : marks[t] > e.createdVersion
  BY <1>2 DEF FreshInv, VersionInv, Entry
<1>4. Promise!PutItem(k, [tags |-> e.tags, stale |-> FALSE]) /\ UNCHANGED FillingItems
  BY <1>1, <1>2, <1>3, PutStep
<1> QED
  BY <1>1, <1>2, <1>4 DEF Promise!Put, Promise!Clean

LEMMA DropStep ==
  ASSUME TypeInv, FreshInv, NEW k \in Keys, Delete(k)
  PROVE  Promise!Drop(k)
<1> USE DEF TypeInv, TypeOK
<1> DEFINE kept == [entries EXCEPT ![k] = NoEntry]
<1>1. /\ entries' = kept
      /\ marks' = PruneInvalidatedTagVersions(entries[k].tags, marks, kept, active)
      /\ UNCHANGED <<active, call, fill, version>>
  BY DEF Delete, requestVars
<1>2. kept[k] = NoEntry /\ \A j \in Keys \ {k} : kept[j] = entries[j]
  OBVIOUS
<1> HIDE DEF kept
<1>3. \A t \in Tags :
        /\ marks'[t] \in {0, marks[t]}
        /\ \A j \in Keys : kept[j] # NoEntry /\ t \in kept[j].tags
             /\ kept[j].createdVersion < marks[t] => marks'[t] = marks[t]
        /\ \A r \in active : t \in call[r].tags
             /\ fill[r].createdVersion < marks[t] => marks'[t] = marks[t]
  BY <1>1, PruneKeeps
<1>4. UNCHANGED FillingItems
  <2>1. \A r \in Requests : FillingItems'[r] = FillingItems[r]
    BY <1>1, <1>3, SameFillings DEF FillingItems
  <2> QED
    BY <2>1 DEF FillingItems
<1>5. CachedItems'[k] = Nothing
  BY <1>1, <1>2 DEF CachedItems
<1>6. ASSUME NEW j \in Keys, j # k
      PROVE  CachedItems'[j] = CachedItems[j]
  <2>1. entries'[j] = entries[j]
    BY <1>1, <1>2, <1>6
  <2> QED
    BY <1>1, <1>2, <1>3, <2>1, <1>6, SameItem
<1>7. CachedItems' = [CachedItems EXCEPT ![k] = Nothing]
  BY <1>5, <1>6 DEF CachedItems
<1> QED
  BY <1>1, <1>4, <1>7 DEF Promise!Drop

LEMMA EndStep ==
  ASSUME TypeInv, FreshInv, NEW r \in Requests, CloseFill(r),
         UNCHANGED <<entries, call, version>>,
         fill' \in [Requests -> Fill],
         \A q \in Requests : q # r => fill'[q] = fill[q]
  PROVE  Promise!End(r)
<1> USE DEF TypeInv, TypeOK
<1>1. /\ active' = active \ {r}
      /\ marks' = PruneInvalidatedTagVersions(call[r].tags, marks, entries, active \ {r})
  BY DEF CloseFill
<1>2. \A t \in Tags :
        /\ marks'[t] \in {0, marks[t]}
        /\ \A j \in Keys : entries[j] # NoEntry /\ t \in entries[j].tags
             /\ entries[j].createdVersion < marks[t] => marks'[t] = marks[t]
        /\ \A q \in active \ {r} : t \in call[q].tags
             /\ fill[q].createdVersion < marks[t] => marks'[t] = marks[t]
  BY <1>1, PruneKeeps
<1>3. ASSUME NEW j \in Keys
      PROVE  CachedItems'[j] = CachedItems[j]
  BY <1>2, SameItem
<1>4. CachedItems' = CachedItems
  BY <1>3 DEF CachedItems
<1>5. FillingItems'[r] = Nothing
  BY <1>1 DEF FillingItems
<1>6. ASSUME NEW q \in Requests, q # r
      PROVE  FillingItems'[q] = FillingItems[q]
  <2>1. CASE q \notin active
    BY <1>1, <2>1 DEF FillingItems
  <2>2. CASE q \in active
    <3>1. call[q].tags \in SUBSET Tags /\ fill[q].createdVersion \in Nat
      BY DEF Call, NoCall, Fill
    <3>2. (\E t \in call[q].tags : marks'[t] > fill[q].createdVersion)
            <=> (\E t \in call[q].tags : marks[t] > fill[q].createdVersion)
      BY <1>2, <1>6, <2>2, <3>1
    <3>3. WasInvalidatedSince(call[q].tags, fill[q].createdVersion)'
            = WasInvalidatedSince(call[q].tags, fill[q].createdVersion)
      BY <3>2, <1>6 DEF WasInvalidatedSince
    <3> QED
      BY <1>1, <1>6, <2>2, <3>3 DEF FillingItems
  <2> QED
    BY <2>1, <2>2
<1>7. FillingItems' = [FillingItems EXCEPT ![r] = Nothing]
  BY <1>5, <1>6 DEF FillingItems
<1> QED
  BY <1>4, <1>7 DEF Promise!End

LEMMA InvalidateStep ==
  ASSUME TypeInv, FreshInv, NEW t \in Tags, InvalidateTag(t)
  PROVE  Promise!Invalidate(t)
<1> USE DEF TypeInv, TypeOK
<1> DEFINE m == [marks EXCEPT ![t] = version + 1]
<1>1. /\ marks' = PruneInvalidatedTagVersions({t}, m, entries, active)
      /\ UNCHANGED <<entries, active, call, fill>>
      /\ version' = version + 1
  BY DEF InvalidateTag, requestVars
<1>2. m \in [Tags -> Nat] /\ m[t] = version + 1 /\ \A u \in Tags \ {t} : m[u] = marks[u]
  OBVIOUS
<1> HIDE DEF m
<1>3. \A u \in Tags :
        /\ marks'[u] \in {0, m[u]}
        /\ \A j \in Keys : entries[j] # NoEntry /\ u \in entries[j].tags
             /\ entries[j].createdVersion < m[u] => marks'[u] = m[u]
        /\ \A r \in active : u \in call[r].tags
             /\ fill[r].createdVersion < m[u] => marks'[u] = m[u]
  <2>1. /\ m \in [Tags -> Nat]
        /\ marks' = PruneInvalidatedTagVersions({t}, m, entries, active)
    BY <1>1, <1>2
  <2> QED
    BY ONLY <2>1, PruneKeeps
<1>4. ASSUME NEW j \in Keys
      PROVE  CachedItems'[j] = Promise!Hit(CachedItems[j], t)
  <2>1. CASE entries[j] = NoEntry
    BY <1>1, <2>1 DEF CachedItems, Promise!Hit
  <2>2. CASE entries[j] # NoEntry
    <3> DEFINE e == entries[j]
    <3>1. e.tags \in SUBSET Tags /\ e.createdVersion \in Nat /\ e.createdVersion <= version
          /\ e.expired \in BOOLEAN
      BY <2>2 DEF Entry, FreshInv, VersionInv
    <3>2. /\ CachedItems[j] = [tags |-> e.tags, stale |-> IsStale(e)]
          /\ CachedItems'[j] = [tags |-> e.tags, stale |->
                e.expired \/ \E u \in e.tags : marks'[u] > e.createdVersion]
          /\ IsStale(e) = (e.expired \/ \E u \in e.tags : marks[u] > e.createdVersion)
          /\ IsStale(e) \in BOOLEAN
      BY <1>1, <2>2, <3>1 DEF CachedItems, IsStale
    <3>3. CachedItems[j] # None
      BY <3>1, <3>2, NoneIsNoItem
    <3>4. t \in e.tags => \E u \in e.tags : marks'[u] > e.createdVersion
      BY <1>2, <1>3, <2>2, <3>1
    <3>5. t \notin e.tags => ((\E u \in e.tags : marks'[u] > e.createdVersion)
                               <=> \E u \in e.tags : marks[u] > e.createdVersion)
      BY <1>2, <1>3, <2>2, <3>1
    <3> HIDE DEF e
    <3>6. CASE t \in e.tags
      <4>1. CachedItems'[j] = [tags |-> e.tags, stale |-> TRUE]
        BY <3>2, <3>4, <3>6
      <4> QED
        BY <3>2, <3>3, <3>6, <4>1 DEF Promise!Hit, Promise!Stale, Nothing
    <3>7. CASE t \notin e.tags
      <4>1. CachedItems'[j] = CachedItems[j]
        BY <3>2, <3>5, <3>7
      <4> QED
        BY <3>2, <3>7, <4>1 DEF Promise!Hit
    <3> QED
      BY <3>6, <3>7
  <2> QED
    BY <2>1, <2>2
<1>5. ASSUME NEW r \in Requests
      PROVE  FillingItems'[r] = Promise!Hit(FillingItems[r], t)
  <2>1. CASE r \notin active
    BY <1>1, <2>1 DEF FillingItems, Promise!Hit
  <2>2. CASE r \in active
    <3> DEFINE T == call[r].tags
               v == fill[r].createdVersion
    <3>1. T \in SUBSET Tags /\ v \in Nat /\ v <= version
      BY <2>2 DEF FreshInv, ActiveInv, Call, NoCall, Fill
    <3>2. /\ FillingItems[r] = [tags |-> T, stale |-> WasInvalidatedSince(T, v)]
          /\ FillingItems'[r] = [tags |-> T, stale |-> \E u \in T : marks'[u] > v]
          /\ WasInvalidatedSince(T, v) \in BOOLEAN
      BY <1>1, <2>2 DEF FillingItems, WasInvalidatedSince
    <3>3. FillingItems[r] # None
      BY <3>1, <3>2, NoneIsNoItem
    <3>4. t \in T => \E u \in T : marks'[u] > v
      BY <1>2, <1>3, <2>2, <3>1
    <3>5. t \notin T => ((\E u \in T : marks'[u] > v) <=> WasInvalidatedSince(T, v))
      BY <1>2, <1>3, <2>2, <3>1 DEF WasInvalidatedSince
    <3> HIDE DEF T, v
    <3>6. CASE t \in T
      <4>1. FillingItems'[r] = [tags |-> T, stale |-> TRUE]
        BY <3>2, <3>4, <3>6
      <4> QED
        BY <3>2, <3>3, <3>6, <4>1 DEF Promise!Hit, Promise!Stale, Nothing
    <3>7. CASE t \notin T
      <4>1. FillingItems'[r] = FillingItems[r]
        BY <3>2, <3>5, <3>7
      <4> QED
        BY <3>2, <3>7, <4>1 DEF Promise!Hit
    <3> QED
      BY <3>6, <3>7
  <2> QED
    BY <2>1, <2>2
<1>6. CachedItems' = [j \in Keys |-> Promise!Hit(CachedItems[j], t)]
  BY <1>4 DEF CachedItems
<1>7. FillingItems' = [r \in Requests |-> Promise!Hit(FillingItems[r], t)]
  BY <1>5 DEF FillingItems
<1> QED
  BY <1>1, <1>6, <1>7 DEF Promise!Invalidate

LEMMA AgeStep ==
  ASSUME TypeInv, FreshInv, NEW k \in Keys, Expire(k)
  PROVE  Promise!Age(k)
<1> USE DEF TypeInv, TypeOK
<1>1. /\ entries[k] \in Entry /\ entries[k] # NoEntry
      /\ entries' = [entries EXCEPT ![k].expired = TRUE]
      /\ UNCHANGED <<marks, active, call, fill, version>>
  BY DEF Expire, requestVars
<1>2. /\ \A j \in Keys \ {k} : entries'[j] = entries[j]
      /\ entries'[k].tags = entries[k].tags /\ entries'[k].expired = TRUE
      /\ entries'[k].value = entries[k].value
  BY <1>1 DEF Entry
<1>3. entries'[k] # NoEntry
  <2>1. entries[k].value # None
    BY <1>1, NoneAssumption DEF Entry, Value
  <2> QED
    BY <1>2, <2>1 DEF NoEntry
<1>4. entries[k].tags \in SUBSET Tags /\ IsStale(entries[k]) \in BOOLEAN
  BY <1>1 DEF Entry, IsStale
<1>5. CachedItems[k] = [tags |-> entries[k].tags, stale |-> IsStale(entries[k])]
  BY <1>1 DEF CachedItems
<1>6. CachedItems'[k] = [tags |-> entries[k].tags, stale |-> TRUE]
  BY <1>2, <1>3 DEF CachedItems, IsStale
<1>7. \A j \in Keys \ {k} : CachedItems'[j] = CachedItems[j]
  BY <1>1, <1>2 DEF CachedItems, IsStale
<1>8. Promise!Stale(CachedItems[k]) = [tags |-> entries[k].tags, stale |-> TRUE]
  BY <1>5 DEF Promise!Stale
<1>9. CachedItems' = [CachedItems EXCEPT ![k] = Promise!Stale(CachedItems[k])]
  BY <1>6, <1>7, <1>8 DEF CachedItems
<1>10. CachedItems[k] # Nothing
  BY <1>4, <1>5, NoneIsNoItem DEF Nothing
<1>11. UNCHANGED FillingItems
  BY <1>1 DEF FillingItems, WasInvalidatedSince
<1> QED
  BY <1>1, <1>9, <1>10, <1>11 DEF Promise!Age

LEMMA ResetStep ==
  ASSUME ResetLocal
  PROVE  Promise!Reset
<1>1. CachedItems' = [k \in Keys |-> Nothing]
  BY DEF ResetLocal, CachedItems
<1>2. FillingItems' = [r \in Requests |-> Nothing]
  BY DEF ResetLocal, FillingItems
<1>3. version' = 0
  BY DEF ResetLocal
<1> QED
  BY <1>1, <1>2, <1>3 DEF Promise!Reset

-----------------------------------------------------------------------------
(* The versions and pruned marks of the code implement the staleness bits  *)
(* of TagCache.                                                            *)
THEOREM Implements == Spec => ImplementsTagCache
<1>1. Init => Promise!TagInit
  BY DEF Init, Promise!TagInit, CachedItems, FillingItems
<1>2. TypeInv /\ TypeInv' /\ FreshInv /\ [Next]_vars
        => [Promise!TagNext]_(Promise!tagVars)
  <2> SUFFICES ASSUME TypeInv, TypeInv', FreshInv, [Next]_vars
               PROVE  [Promise!TagNext]_(Promise!tagVars)
    OBVIOUS
  <2>1. ASSUME NEW r \in Requests, \/ ProducerReturnsLate(r)
                                   \/ ProducerFails(r)
                                   \/ FinishFill(r)
        PROVE  Promise!End(r)
    <3>1. CloseFill(r) /\ UNCHANGED <<entries, call, version>>
      BY <2>1 DEF ProducerReturnsLate, ProducerFails, FinishFill
    <3>2. fill' \in [Requests -> Fill] /\ \A q \in Requests : q # r => fill'[q] = fill[q]
      BY <2>1 DEF ProducerReturnsLate, ProducerFails, FinishFill, TypeInv, TypeOK
    <3> QED
      BY <3>1, <3>2, EndStep
  <2>2. ASSUME \/ \E r \in Requests, k \in Keys, T \in TagSets : GetOrSet(r, k, T)
               \/ \E r \in Requests : \/ JoinInflight(r) \/ CallProducer(r)
                                       \/ SettleFill(r) \/ Return(r)
               \/ \E k \in Keys, b \in BOOLEAN : GetEntry(k, b)
               \/ UNCHANGED vars
        PROVE  UNCHANGED Promise!tagVars
    <3>1. UNCHANGED <<entries, marks, active, version>>
      BY <2>2 DEF GetOrSet, JoinInflight, CallProducer, SettleFill, Return, GetEntry,
                  vars, cacheVars
    <3>2. ASSUME NEW r \in active
          PROVE  /\ call'[r] = call[r]
                 /\ fill'[r].createdVersion = fill[r].createdVersion
      <4>1. r \in Requests /\ pc[r] \in {"started", "producing", "stored"}
        BY DEF TypeInv, TypeOK, FreshInv, ActiveInv
      <4>2. CASE \E q \in Requests, k \in Keys, T \in TagSets : GetOrSet(q, k, T)
        BY <4>1, <4>2 DEF GetOrSet, TypeInv, TypeOK
      <4>3. CASE \E q \in Requests : CallProducer(q)
        BY <4>1, <4>3 DEF CallProducer, TypeInv, TypeOK, Fill
      <4>4. CASE \E q \in Requests : Return(q)
        BY <4>1, <4>4 DEF Return, TypeInv, TypeOK
      <4>5. CASE \/ \E q \in Requests : JoinInflight(q) \/ SettleFill(q)
                 \/ \E k \in Keys, b \in BOOLEAN : GetEntry(k, b)
                 \/ UNCHANGED vars
        BY <4>5 DEF JoinInflight, SettleFill, GetEntry, vars, requestVars
      <4> QED
        BY <2>2, <4>2, <4>3, <4>4, <4>5
    <3> QED
      BY <3>1, <3>2, QuietStep DEF Promise!tagVars
  <2>3. ASSUME NEW r \in Requests, StartFill(r)
        PROVE  \E T \in SUBSET Tags : Promise!Begin(r, T)
    BY <2>3, BeginStep
  <2>4. ASSUME NEW k \in Keys, NEW T \in TagSets, Set(k, T)
        PROVE  T \in SUBSET Tags /\ Promise!Put(k, T)
    BY <2>4, SetStep, TagSetsAssumption
  <2> QED
    BY <2>1, <2>2, <2>3, <2>4, CommitStep, DropStep, InvalidateStep, AgeStep, ResetStep
    DEF Next, RunFill, Promise!TagNext
<1> QED
  BY <1>1, <1>2, TypeCorrect, FreshInvariant, PTL DEF Spec, ImplementsTagCache, Promise!TagSpec

-----------------------------------------------------------------------------
(* A registered fill that no invalidation overtook is the one in flight.   *)
FlightInv ==
  \A r \in active :
    ~WasInvalidatedSince(call[r].tags, fill[r].startVersion)
      => inflight[call[r].key] = r

(* Once overtaken, a registered fill stays overtaken while it is registered.*)
LEMMA OvertakenForGood ==
  ASSUME TypeInv, TypeInv', FreshInv, NEW r \in active, r \in active',
         call'[r] = call[r], fill'[r].startVersion = fill[r].startVersion,
         \A t \in call[r].tags :
           \/ /\ marks'[t] \in {0, marks[t]}
              /\ fill[r].createdVersion < marks[t] => marks'[t] = marks[t]
           \/ marks'[t] > version,
         WasInvalidatedSince(call[r].tags, fill[r].startVersion)
  PROVE  WasInvalidatedSince(call[r].tags, fill[r].startVersion)'
<1>1. fill[r].startVersion = fill[r].createdVersion /\ fill[r].createdVersion <= version
  BY DEF FreshInv, ActiveInv
<1>0. r \in Requests /\ call[r] \in Call \cup {NoCall} /\ fill[r] \in Fill
  BY DEF TypeInv, TypeOK
<1>2. call[r].tags \in SUBSET Tags /\ fill[r].createdVersion \in Nat
  BY <1>0 DEF Call, NoCall, Fill
<1>3. PICK t \in call[r].tags : marks[t] > fill[r].createdVersion
  BY <1>1 DEF WasInvalidatedSince
<1>4. marks'[t] > fill[r].createdVersion
  <2>1. t \in Tags /\ marks[t] \in Nat /\ version \in Nat
    BY <1>2 DEF TypeInv, TypeOK
  <2>2. marks'[t] = marks[t] \/ marks'[t] > version
    BY <1>3
  <2>3. CASE marks'[t] = marks[t]
    BY <1>3, <2>3
  <2>4. CASE marks'[t] > version
    BY <1>1, <1>2, <2>1, <2>4, TypeInv' DEF TypeInv, TypeOK
  <2> QED
    BY <2>2, <2>3, <2>4
<1> QED
  BY <1>1, <1>3, <1>4 DEF WasInvalidatedSince

(* What any step leaves of the mark of a tag of a registered fill.         *)
LEMMA MarksOfFills ==
  ASSUME TypeInv, TypeInv', FreshInv, [Next]_vars,
         NEW r \in active, r \in active', NEW t \in call[r].tags
  PROVE  \/ marks'[t] \in {0, marks[t]}
             /\ (fill[r].createdVersion < marks[t] => marks'[t] = marks[t])
         \/ marks'[t] > version
<1> USE DEF TypeInv, TypeOK
<1>1. t \in Tags
  BY DEF Call, NoCall
<1>2. ASSUME NEW q \in Requests, ProducerReturns(q)
      PROVE  marks'[t] \in {0, marks[t]}
             /\ (fill[r].createdVersion < marks[t] => marks'[t] = marks[t])
  <2> DEFINE e == [tags |-> call[q].tags, createdVersion |-> fill[q].createdVersion,
                   expired |-> FALSE, value |-> fill[q].value]
  <2>1. StoreLocalEntry(call[q].key, e) /\ pc[q] = "producing"
    BY <1>2 DEF ProducerReturns
  <2>2. call[q] \in Call /\ fill[q] \in Fill /\ fill[q].value \in Value
    BY <2>1 DEF CallInv, ValueInv
  <2>3. e \in Entry /\ call[q].key \in Keys
    BY <2>2 DEF Entry, Call, Fill
  <2> HIDE DEF e
  <2> QED
    BY <1>1, <2>1, <2>3, StoreKeeps
<1>3. ASSUME NEW k \in Keys, NEW T \in TagSets, Set(k, T)
      PROVE  marks'[t] \in {0, marks[t]}
             /\ (fill[r].createdVersion < marks[t] => marks'[t] = marks[t])
  <2> DEFINE e == [tags |-> T, createdVersion |-> version + 1,
                   expired |-> FALSE, value |-> Seen(T)]
  <2>1. StoreLocalEntry(k, e) /\ e \in Entry
    BY <1>3, TagSetsAssumption DEF Set, Entry, Seen, Value
  <2> HIDE DEF e
  <2> QED
    BY <1>1, <2>1, StoreKeeps
<1>4. ASSUME NEW q \in Requests, CloseFill(q)
      PROVE  marks'[t] \in {0, marks[t]}
             /\ (fill[r].createdVersion < marks[t] => marks'[t] = marks[t])
  <2>1. r \in active \ {q}
        /\ marks' = PruneInvalidatedTagVersions(call[q].tags, marks, entries, active \ {q})
    BY <1>4 DEF CloseFill
  <2>2. marks \in [Tags -> Nat]
    OBVIOUS
  <2> QED
    BY ONLY <1>1, <2>1, <2>2, PruneKeeps, t \in call[r].tags
<1>5. ASSUME NEW k \in Keys, Delete(k)
      PROVE  marks'[t] \in {0, marks[t]}
             /\ (fill[r].createdVersion < marks[t] => marks'[t] = marks[t])
  <2> DEFINE kept == [entries EXCEPT ![k] = NoEntry]
  <2>1. marks' = PruneInvalidatedTagVersions(entries[k].tags, marks, kept, active)
    BY <1>5 DEF Delete
  <2>2. marks \in [Tags -> Nat]
    OBVIOUS
  <2> HIDE DEF kept
  <2> QED
    BY ONLY <1>1, <2>1, <2>2, PruneKeeps, r \in active, t \in call[r].tags
<1>6. ASSUME NEW u \in Tags, InvalidateTag(u)
      PROVE  \/ marks'[t] \in {0, marks[t]}
                 /\ (fill[r].createdVersion < marks[t] => marks'[t] = marks[t])
             \/ marks'[t] > version
  <2> DEFINE m == [marks EXCEPT ![u] = version + 1]
  <2>1. marks' = PruneInvalidatedTagVersions({u}, m, entries, active)
    BY <1>6 DEF InvalidateTag
  <2>2. m \in [Tags -> Nat] /\ m[u] = version + 1 /\ \A v \in Tags \ {u} : m[v] = marks[v]
    OBVIOUS
  <2> HIDE DEF m
  <2>3. /\ marks'[t] \in {0, m[t]}
        /\ fill[r].createdVersion < m[t] => marks'[t] = m[t]
    BY ONLY <1>1, <2>1, <2>2, PruneKeeps, r \in active, t \in call[r].tags
  <2>4. fill[r].createdVersion <= version /\ fill[r].createdVersion \in Nat
    BY DEF FreshInv, ActiveInv, Fill
  <2> QED
    BY <1>1, <2>2, <2>3, <2>4
<1>7. ASSUME UNCHANGED marks
      PROVE  marks'[t] \in {0, marks[t]}
             /\ (fill[r].createdVersion < marks[t] => marks'[t] = marks[t])
  BY <1>7
<1>8. ~ResetLocal
  BY DEF ResetLocal
<1> QED
  BY <1>2, <1>3, <1>4, <1>5, <1>6, <1>7, <1>8
  DEF Next, RunFill, GetOrSet, JoinInflight, StartFill, CallProducer, ProducerReturnsLate,
      ProducerFails, FinishFill, SettleFill, Return, GetEntry, Expire, cacheVars, vars

LEMMA FlightStep ==
  ASSUME TypeInv, TypeInv', FreshInv, FlightInv, [Next]_vars
  PROVE  FlightInv'
<1> USE DEF TypeInv, TypeOK
<1> SUFFICES ASSUME NEW r \in active',
                    ~WasInvalidatedSince(call[r].tags, fill[r].startVersion)'
             PROVE  inflight'[call'[r].key] = r
  BY DEF FlightInv
<1>1. CASE r \notin active
  <2>1. StartFill(r)
    <3>1. CASE \E q \in Requests : StartFill(q)
      <4>1. PICK q \in Requests : StartFill(q)
        BY <3>1
      <4>2. q = r
        BY <1>1, <4>1 DEF StartFill
      <4> QED
        BY <4>1, <4>2
    <3>2. CASE active' \subseteq active
      BY <1>1, <3>2
    <3> QED
      BY <3>1, <3>2 DEF Next, RunFill, GetOrSet, JoinInflight, CallProducer,
         ProducerReturns, ProducerReturnsLate, ProducerFails, FinishFill, SettleFill, Return,
         GetEntry, Set, Delete, Expire, InvalidateTag, ResetLocal, CloseFill, cacheVars, vars
  <2>2. call[r] \in Call /\ call[r].key \in Keys
    BY <2>1 DEF StartFill, CallInv, Call
  <2> QED
    BY <2>1, <2>2 DEF StartFill
<1>2. CASE r \in active
  <2>1. pc[r] \in {"started", "producing", "stored"} /\ r \in Requests
    BY <1>2 DEF FreshInv, ActiveInv
  <2>2. call'[r] = call[r] /\ fill'[r].startVersion = fill[r].startVersion
    <3>1. CASE \E q \in Requests, k \in Keys, T \in TagSets : GetOrSet(q, k, T)
      BY <2>1, <3>1 DEF GetOrSet
    <3>2. CASE \E q \in Requests : StartFill(q)
      BY <2>1, <3>2 DEF StartFill
    <3>3. CASE \E q \in Requests : CallProducer(q) \/ ProducerFails(q)
      BY <2>1, <3>3 DEF CallProducer, ProducerFails, Fill
    <3>4. CASE \E q \in Requests : Return(q)
      BY <2>1, <3>4 DEF Return
    <3>5. CASE UNCHANGED <<call, fill>>
      BY <3>5
    <3> QED
      BY <3>1, <3>2, <3>3, <3>4, <3>5 DEF Next, RunFill, JoinInflight, ProducerReturns,
         ProducerReturnsLate, FinishFill, SettleFill, GetEntry, Set, Delete, Expire,
         InvalidateTag, ResetLocal, requestVars, vars
  <2>3. ~WasInvalidatedSince(call[r].tags, fill[r].startVersion)
    BY <1>2, <2>2, MarksOfFills, OvertakenForGood
  <2>4. inflight[call[r].key] = r
    BY <1>2, <2>3 DEF FlightInv
  <2>5. call[r].key \in Keys
    BY <2>1 DEF CallInv, Call
  <2>6. CASE \E q \in Requests : StartFill(q)
    <3>1. PICK q \in Requests : StartFill(q)
      BY <2>6
    <3>2. call[q].key # call[r].key
      BY <2>1, <2>3, <2>4, <3>1, NoneAssumption DEF StartFill, Joinable
    <3> QED
      BY <2>2, <2>4, <3>1, <3>2 DEF StartFill
  <2>7. CASE \E q \in Requests : SettleFill(q)
    <3>1. PICK q \in Requests : SettleFill(q)
      BY <2>7
    <3>2. q # r
      BY <2>1, <3>1 DEF SettleFill
    <3> QED
      BY <2>2, <2>4, <2>5, <3>1, <3>2 DEF SettleFill
  <2>8. ~ResetLocal
    BY DEF ResetLocal
  <2>9. CASE UNCHANGED inflight
    BY <2>2, <2>4, <2>9
  <2> QED
    BY <2>6, <2>7, <2>8, <2>9 DEF Next, RunFill, GetOrSet, JoinInflight, CallProducer,
       ProducerReturns, ProducerReturnsLate, ProducerFails, FinishFill, Return, GetEntry,
       Set, Delete, Expire, InvalidateTag, cacheVars, vars
<1> QED
  BY <1>1, <1>2

(* However many requests miss a key at once, two fills of it run together  *)
(* only when one of them was overtaken by an invalidation or a clear.      *)
THEOREM OneFillPerKey == Spec => []SingleFlight
<1>1. Init => FlightInv
  BY DEF Init, FlightInv
<1>2. TypeInv /\ TypeInv' /\ FreshInv /\ FlightInv /\ [Next]_vars => FlightInv'
  BY FlightStep
<1>3. FreshInv /\ FlightInv => SingleFlight
  BY DEF FreshInv, ActiveInv, FlightInv, SingleFlight, Overtaken
<1> QED
  BY <1>1, <1>2, <1>3, TypeCorrect, FreshInvariant, PTL DEF Spec
=============================================================================
