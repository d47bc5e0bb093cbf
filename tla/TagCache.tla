------------------------------- MODULE TagCache -------------------------------
(***************************************************************************)
(* What a tagged cache promises, without versions, marks or pruning: every *)
(* entry and every running fill carries a single bit that says whether it  *)
(* has been invalidated since its data may have been read.  An             *)
(* invalidation sets the bit of everything that has the tag; storing a     *)
(* fill hands its bit to the entry; the bit is never reset.                *)
(*                                                                         *)
(* LocalCache implements it with one counter and one pruned mark per tag.  *)
(***************************************************************************)
EXTENDS Naturals

CONSTANTS Keys, Tags, Requests, Nothing

VARIABLES
  cached,   \* key -> the entry's tags and its bit, or Nothing
  filling,  \* request -> the tags and bit of its running fill, or Nothing
  changes   \* number of values set and tags invalidated since the last reset

tagVars == <<cached, filling, changes>>

Clean(T) == [tags |-> T, stale |-> FALSE]

Stale(item) == [tags |-> item.tags, stale |-> TRUE]

Hit(item, t) == IF item # Nothing /\ t \in item.tags THEN Stale(item) ELSE item

TagInit ==
  /\ cached = [k \in Keys |-> Nothing]
  /\ filling = [r \in Requests |-> Nothing]
  /\ changes = 0

Begin(r, T) ==
  /\ filling[r] = Nothing
  /\ filling' = [filling EXCEPT ![r] = Clean(T)]
  /\ UNCHANGED <<cached, changes>>

(* Storing under k may evict anything.                                     *)
PutItem(k, item) ==
  \E evicted \in SUBSET Keys :
    cached' = [j \in Keys |-> IF j \in evicted THEN Nothing
                              ELSE IF j = k THEN item
                              ELSE cached[j]]

Commit(r, k) ==
  /\ filling[r] # Nothing
  /\ PutItem(k, filling[r])
  /\ UNCHANGED <<filling, changes>>

End(r) ==
  /\ filling' = [filling EXCEPT ![r] = Nothing]
  /\ UNCHANGED <<cached, changes>>

Put(k, T) ==
  /\ PutItem(k, Clean(T))
  /\ changes' = changes + 1
  /\ UNCHANGED filling

Drop(k) ==
  /\ cached' = [cached EXCEPT ![k] = Nothing]
  /\ UNCHANGED <<filling, changes>>

Invalidate(t) ==
  /\ cached' = [k \in Keys |-> Hit(cached[k], t)]
  /\ filling' = [r \in Requests |-> Hit(filling[r], t)]
  /\ changes' = changes + 1

Age(k) ==
  /\ cached[k] # Nothing
  /\ cached' = [cached EXCEPT ![k] = Stale(cached[k])]
  /\ UNCHANGED <<filling, changes>>

Reset ==
  /\ cached' = [k \in Keys |-> Nothing]
  /\ filling' = [r \in Requests |-> Nothing]
  /\ changes' = 0

TagNext ==
  \/ \E r \in Requests, T \in SUBSET Tags : Begin(r, T)
  \/ \E r \in Requests, k \in Keys : Commit(r, k)
  \/ \E r \in Requests : End(r)
  \/ \E k \in Keys, T \in SUBSET Tags : Put(k, T)
  \/ \E k \in Keys : Drop(k) \/ Age(k)
  \/ \E t \in Tags : Invalidate(t)
  \/ Reset

TagSpec == TagInit /\ [][TagNext]_tagVars
=============================================================================
