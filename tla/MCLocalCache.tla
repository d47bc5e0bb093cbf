----------------------------- MODULE MCLocalCache -----------------------------
(* Instances of LocalCache for TLC.                                        *)
EXTENDS LocalCache, TLC

CONSTANTS t1, t2

(* One entry with one tag, one with two: marks of two tags interact.       *)
MixedTagSets == {{t1}, {t1, t2}}
OneTagSet == {{t1}}

Called == {r \in Requests : pc[r] # "idle"}
InPlay == Cached(entries) \cup {call[r].key : r \in Called}
TagsInPlay ==
  UNION {entries[k].tags : k \in Cached(entries)} \cup UNION {call[r].tags : r \in Called}

(* Two calls at once, of two keys with mixed tags and one of them cached;  *)
(* or of any keys with the first tag only, which evict each other while no *)
(* period ends; or one call at a time, whatever the keys and the tags.     *)
TwoKeys == Cardinality(InPlay) <= 2 /\ Cardinality(Cached(entries)) <= 1
OneTag  ==
  /\ t2 \notin TagsInPlay /\ epoch[t2] = 0
  /\ \A k \in Cached(entries) : ~entries[k].expired
OneCall == Cardinality(Called) <= 1

OneFocus == TwoKeys \/ OneTag \/ OneCall

Symmetry == Permutations(Keys) \cup Permutations(Requests)
=============================================================================
