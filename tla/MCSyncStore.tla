----------------------------- MODULE MCSyncStore -----------------------------
(* Instances of SyncStore for TLC.                                         *)
EXTENDS SyncStore, TLC

Symmetry ==
  {k @@ l @@ w @@ a : k \in Permutations(Keys), l \in Permutations(Loads),
                      w \in Permutations(Writes), a \in Permutations(Accounts)}

RunningWrites == {w \in Writes : Running(w)}
RunningLoads  == {l \in Loads : load[l].phase # "idle"}

UsedKeys ==
  Held(table) \cup Held(confirmed) \cup mine \cup {write[w].key : w \in RunningWrites}
    \cup (IF saved = None THEN {} ELSE Held(saved.rows))
    \cup UNION {Held(load[l].rows) : l \in RunningLoads}

(* One account, whose lists, deltas, reloads and devices race with a write. *)
OneAccount ==
  /\ \A k \in Held(table) : table[k].owner = session
  /\ IF saved = None THEN generation = 0 ELSE saved.scope = session
  /\ \A l \in RunningLoads : load[l].session = session
  /\ \A w \in RunningWrites : write[w].session = session /\ write[w].retries = 0
  /\ Cardinality(RunningWrites) <= 1
  /\ sent <= 3 - generation /\ written <= 3 - generation

(* One row, whose writes, one of them retried, race with a change of the   *)
(* session.                                                                *)
OneRow ==
  /\ Cardinality(UsedKeys) <= 1
  /\ Cardinality(RunningLoads) <= 1
  /\ Cardinality({w \in Writes : write[w].retries # 0}) <= 1
  /\ clock = 1 /\ written <= 2 /\ sent <= 2

OneFocus == OneAccount \/ OneRow
=============================================================================
