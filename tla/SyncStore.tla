------------------------------- MODULE SyncStore -------------------------------
(***************************************************************************)
(* Local-first sync of one model: SyncModelStore, loadModel, runMutation   *)
(* and clearSyncedRows of packages/farm-sync/src/client.ts and store.ts in *)
(* one browser, against the list and write operations of                   *)
(* packages/farm-sync/src/server.ts.                                       *)
(*                                                                         *)
(* The model has an updatedAt cursor and a row filter; the filter gives    *)
(* every account its own rows, and its fingerprint is the account itself.  *)
(* A row's content is the number of the write that produced it.  Requests  *)
(* carry the session of the moment they are sent, are executed in any      *)
(* order, answered in any order, or fail before or after execution.        *)
(***************************************************************************)
EXTENDS Integers, FiniteSets

CONSTANTS
  Keys,           \* row keys
  Accounts,       \* accounts, and the fingerprints of their row filters
  Loads,          \* concurrent list requests
  Writes,         \* concurrent mutations
  MaxWrites,      \* bound of the model: writes the server executes
  MaxClock,       \* bound of the model: the server's clock
  MaxRetries,     \* options.retry.count
  MaxGeneration,  \* bound of the model: session changes
  MaxSent,        \* bound of the model: requests between two session changes
  None            \* absent row, cursor or saved state

ASSUME WritesAssumption == IsFiniteSet(Writes)
ASSUME NoneAssumption   == None \notin Accounts

VARIABLES
  table,       \* server: the rows
  clock,       \* server: milliseconds; a write stamps its row with it
  written,     \* server: number of writes executed so far
  session,     \* the account signed in
  confirmed,   \* store.confirmed
  committedAt, \* store.committedAt; 0 is absent
  layers,      \* store.layers: the mutations whose layer is on the stack
  cursor,      \* store.cursor
  scope,       \* store.scope
  revision,    \* store.revision
  generation,  \* store.generation
  pending,     \* store.pending
  saved,       \* what is persisted
  load,        \* list requests
  write,       \* mutations
  sent,        \* history: requests sent since the store was last emptied
  newest,      \* history: writes executed before the latest read that was applied
  mine,        \* history: keys this client wrote that no full list has replaced
  overtaken,   \* history: an answer was applied after a list that knew better
  settled      \* history: nothing happened since a list was sent in silence

serverVars == <<table, clock, written>>
storeVars  == <<confirmed, committedAt, layers, cursor, scope, revision, generation>>
ghosts     == <<newest, mine, overtaken, settled>>
vars       == <<serverVars, session, storeVars, pending, saved, load, write, sent, ghosts>>

-----------------------------------------------------------------------------
Row    == [owner : Accounts, author : Accounts, stamp : Nat, version : Nat]

ASSUME RowAssumption == None \notin Row

Cursor == Nat \cup {None}
Rows   == [Keys -> Row \cup {None}]
Saved  == [rows : Rows, cursor : Cursor, scope : Accounts]

NoRows  == [k \in Keys |-> None]
NoLoad  == [phase |-> "idle", session |-> None, generation |-> 0, revision |-> 0,
            readAt |-> 0, since |-> None, scope |-> None, saved |-> None, rows |-> NoRows,
            keys |-> {}, full |-> FALSE, cursor |-> None, quiet |-> FALSE]
NoWrite == [phase |-> "idle", op |-> "insert", key |-> None, author |-> None,
            session |-> None, generation |-> 0, retries |-> 0,
            answer |-> "none", row |-> None, at |-> 0]

OwnedBy(a) == {k \in Keys : table[k] # None /\ table[k].owner = a}
VisibleTo(a) == [k \in Keys |-> IF k \in OwnedBy(a) THEN table[k] ELSE None]

Held(rows) == {k \in Keys : rows[k] # None}

Running(w) == write[w].phase # "idle"
Busy == \/ \E w \in Writes : Running(w)
        \/ \E l \in Loads : load[l].phase # "idle"

Init ==
  /\ table = NoRows
  /\ clock = 1
  /\ written = 0
  /\ session \in Accounts
  /\ confirmed = NoRows
  /\ committedAt = [k \in Keys |-> 0]
  /\ layers = {}
  /\ cursor = None
  /\ scope = None
  /\ revision = 0
  /\ generation = 0
  /\ pending = 0
  /\ saved = None
  /\ load = [l \in Loads |-> NoLoad]
  /\ write = [w \in Writes |-> NoWrite]
  /\ sent = 0
  /\ newest = 0
  /\ mine = {}
  /\ overtaken = FALSE
  /\ settled = FALSE

-----------------------------------------------------------------------------
(* The server                                                              *)

Tick ==
  /\ clock < MaxClock
  /\ clock' = clock + 1
  /\ UNCHANGED <<table, written, session, storeVars, pending, saved, load, write, sent, ghosts>>

(* A row of account a written by account b now.                            *)
Stamped(a, b) == [owner |-> a, author |-> b, stamp |-> clock, version |-> written + 1]

(* The table changes: what was loaded before need not be what it holds.    *)
Execute(k, row) ==
  /\ written < MaxWrites
  /\ written' = written + 1
  /\ table' = [table EXCEPT ![k] = row]
  /\ mine' = IF row = None THEN mine \ {k} ELSE mine
  /\ settled' = FALSE
  /\ load' = [l \in Loads |-> [load[l] EXCEPT !.quiet = FALSE]]

Free(k) == table[k] = None

(* Another device of account a writes or deletes a row; so may a write     *)
(* this page sent before it was reloaded.                                  *)
OtherWrites(a, k, row) ==
  /\ k \in OwnedBy(a) \cup {j \in Keys : Free(j)}
  /\ row \in {None, Stamped(a, a)}
  /\ row # table[k]
  /\ Execute(k, row)
  /\ UNCHANGED <<clock, session, storeVars, pending, saved, write, sent, newest, overtaken>>

MaxStamp(rows, floor) ==
  LET stamps == {rows[k].stamp : k \in Held(rows)} \cup (IF floor = None THEN {} ELSE {floor})
  IN IF stamps = {} THEN None ELSE CHOOSE m \in stamps : \A n \in stamps : n <= m

(* Mutant: only changes strictly after the cursor.                         *)
ChangedAfter(k, since) == table[k].stamp > since

(* The cursor row, and rows of its millisecond, are sent again.            *)
ChangedSince(k, since) == table[k].stamp >= since

(* listRows: the rows of the caller, since its cursor when the cursor was  *)
(* kept under the caller's scope.                                          *)
ListRows(l) ==
  LET me == load[l]
      incremental == me.since # None /\ me.scope \in {None, me.session}
      rows == [k \in Keys |->
                IF k \in OwnedBy(me.session) /\ (incremental => ChangedSince(k, me.since))
                  THEN table[k] ELSE None]
  IN /\ me.phase = "sent"
     /\ load' = [load EXCEPT ![l].rows = rows,
                             ![l].full = ~incremental,
                             ![l].readAt = written,
                             ![l].cursor = MaxStamp(rows, IF incremental THEN me.since ELSE None),
                             ![l].phase = IF incremental THEN "listed" ELSE "answered"]
     /\ UNCHANGED <<serverVars, session, storeVars, pending, saved, write, sent, ghosts>>

(* The second read of an incremental list: the keys the caller can see.    *)
ListKeys(l) ==
  /\ load[l].phase = "listed"
  /\ load' = [load EXCEPT ![l].keys = OwnedBy(load[l].session), ![l].phase = "answered"]
  /\ UNCHANGED <<serverVars, session, storeVars, pending, saved, write, sent, ghosts>>

(* insertRow, updateRow and deleteRow.                                     *)
Answer(w, answer, row, at) ==
  write' = [write EXCEPT ![w].phase = "answered", ![w].answer = answer,
                         ![w].row = row, ![w].at = at]

ExecuteWrite(w) ==
  LET me  == write[w]
      row == IF me.op = "delete" THEN None ELSE Stamped(me.session, me.author)
  IN /\ me.phase = "sent"
     /\ IF me.op = "insert" THEN Free(me.key) ELSE me.key \in OwnedBy(me.session)
     /\ Execute(me.key, row)
     /\ Answer(w, "stored", row, written + 1)
     /\ UNCHANGED <<clock, session, storeVars, pending, saved, sent, newest, overtaken>>

(* An error: no such row for the caller, or a write the server refuses.    *)
RefuseWrite(w) ==
  /\ write[w].phase = "sent"
  /\ Answer(w, IF write[w].op # "insert" /\ write[w].key \notin OwnedBy(write[w].session)
                 THEN "not_found" ELSE "refused", None, written)
  /\ UNCHANGED <<serverVars, session, storeVars, pending, saved, load, sent, ghosts>>

-----------------------------------------------------------------------------
(* Mutant: rows are saved under a scope that no list has confirmed yet.    *)
PersistUnconfirmed(rows, cur, sc) == saved' = [rows |-> rows, cursor |-> cur, scope |-> sc]

(* persistModel, after a step that leaves the store with these values      *)
Persist(rows, cur, sc) ==
  saved' = IF sc = None THEN saved ELSE [rows |-> rows, cursor |-> cur, scope |-> sc]

(* loadModel up to its await.                                              *)
LoadModel(l) ==
  LET disk == IF scope = None THEN saved ELSE None
  IN /\ load[l].phase = "idle"
     /\ sent < MaxSent
     /\ sent' = sent + 1
     /\ load' = [load EXCEPT ![l] =
          [NoLoad EXCEPT !.phase = "sent", !.session = session, !.generation = generation,
                         !.revision = revision,
                         !.since = IF disk # None THEN disk.cursor ELSE cursor,
                         !.scope = IF disk # None THEN disk.scope ELSE scope,
                         !.saved = disk, !.quiet = ~Busy]]
     /\ UNCHANGED <<serverVars, session, storeVars, pending, saved, write, ghosts>>

(* seed: saved rows under a delta of the same scope.                       *)
Seed(me) ==
  IF me.saved # None /\ ~me.full /\ me.session = me.saved.scope
    THEN [k \in Keys |-> IF confirmed[k] # None THEN confirmed[k] ELSE me.saved.rows[k]]
    ELSE confirmed

(* Mutant: rows committed after the list was sent are pruned as well.      *)
PruneUnlisted(k, me) == ~me.full /\ k \notin me.keys

(* A delta drops the rows the server no longer lists, except those         *)
(* committed after the list was sent.                                      *)
Pruned(k, me) == ~me.full /\ k \notin me.keys /\ committedAt[k] <= me.revision

(* applyServerRows of a list that returns in the generation that sent it.  *)
ReceiveList(l) ==
  LET me   == load[l]
      base == IF me.full THEN NoRows ELSE Seed(me)
      upserted == [k \in Keys |-> IF me.rows[k] # None THEN me.rows[k] ELSE base[k]]
      rows == [k \in Keys |-> IF Pruned(k, me) THEN None ELSE upserted[k]]
      cur  == IF me.cursor # None THEN me.cursor ELSE cursor
  IN /\ me.phase = "answered"
     /\ me.generation = generation
     /\ confirmed' = rows
     /\ committedAt' = [k \in Keys |->
          IF upserted[k] # None /\ rows[k] = None THEN 0 ELSE committedAt[k]]
     /\ cursor' = cur
     /\ scope' = me.session
     /\ Persist(rows, cur, me.session)
     /\ load' = [load EXCEPT ![l] = NoLoad]
     /\ newest' = IF me.readAt > newest THEN me.readAt ELSE newest
     /\ overtaken' = (overtaken \/ me.readAt < newest)
     /\ mine' = IF me.full THEN {} ELSE mine
     /\ settled' = (me.quiet /\ (\A w \in Writes : ~Running(w))
                      /\ \A m \in Loads \ {l} : load[m].phase = "idle")
     /\ UNCHANGED <<serverVars, session, layers, revision, generation, pending, write, sent>>

(* The list fails, or returns after a reset: the store keeps its rows.     *)
DropList(l) ==
  /\ load[l].phase # "idle"
  /\ load' = [load EXCEPT ![l] = NoLoad]
  /\ UNCHANGED <<serverVars, session, storeVars, pending, saved, write, sent, ghosts>>

-----------------------------------------------------------------------------
(* runMutation and dispatchWrite                                           *)

(* A write changes what the next list must bring.                          *)
Disturb == load' = [l \in Loads |-> [load[l] EXCEPT !.quiet = FALSE]] /\ settled' = FALSE

(* The optimistic layer goes on the stack; the request goes out at once,   *)
(* or, offline, waits.                                                     *)
Mutate(w, op, k, online) ==
  /\ ~Running(w)
  /\ sent < MaxSent
  /\ sent' = sent + 1
  /\ write' = [write EXCEPT ![w] =
       [NoWrite EXCEPT !.phase = IF online THEN "sent" ELSE "waiting", !.op = op, !.key = k,
                       !.author = session, !.session = session, !.generation = generation]]
  /\ layers' = layers \cup {w}
  /\ pending' = pending + 1
  /\ Disturb
  /\ UNCHANGED <<serverVars, session, confirmed, committedAt, cursor, scope, revision,
                 generation, saved, newest, mine, overtaken>>

(* The connection returns, or the retry delay is over: the request goes    *)
(* out under the session of now.                                           *)
Send(w) ==
  /\ write[w].phase = "waiting"
  /\ write' = [write EXCEPT ![w].phase = "sent", ![w].session = session]
  /\ UNCHANGED <<serverVars, session, storeVars, pending, saved, load, sent, ghosts>>

(* A transport error or a 5xx, before or after the server executed the     *)
(* write.  Offline it waits for the connection and no retry is counted.    *)
RetryWrite(w, online) ==
  /\ write[w].phase \in {"sent", "answered"}
  /\ online => write[w].retries < MaxRetries
  /\ write' = [write EXCEPT ![w].phase = "waiting", ![w].answer = "none", ![w].row = None,
                            ![w].at = 0, ![w].retries = IF online THEN @ + 1 ELSE @]
  /\ UNCHANGED <<serverVars, session, storeVars, pending, saved, load, sent, ghosts>>

(* Mutant: whatever the server finds nothing for has happened before.      *)
SucceededIfNotFound(w) == write[w].answer \in {"stored", "not_found"}

(* A delete the server finds nothing for has happened before.              *)
Succeeded(w) ==
  write[w].answer \in (IF write[w].op = "delete" THEN {"stored", "not_found"} ELSE {"stored"})

Finish(w) ==
  /\ write' = [write EXCEPT ![w] = NoWrite]
  /\ pending' = pending - 1

(* commitLayer and persistModel                                            *)
CommitLayer(w) ==
  LET k == write[w].key
      rows == [confirmed EXCEPT ![k] = write[w].row]
  IN /\ layers' = layers \ {w}
     /\ revision' = revision + 1
     /\ confirmed' = rows
     /\ committedAt' = [committedAt EXCEPT ![k] =
                          IF write[w].row = None THEN 0 ELSE revision + 1]
     /\ Persist(rows, cursor, scope)
     /\ mine' = IF write[w].row # None /\ ~Free(k) THEN mine \cup {k} ELSE mine \ {k}
     /\ overtaken' = (overtaken \/ write[w].at < newest)

(* Mutant: the answer is folded in whatever the generation.                *)
CommitAnyGeneration(w) ==
  /\ write[w].phase = "answered"
  /\ Succeeded(w)
  /\ Finish(w)
  /\ CommitLayer(w)
  /\ Disturb
  /\ UNCHANGED <<serverVars, session, cursor, scope, generation, sent, newest>>

(* The row the server returned takes the layer's place.                    *)
Commit(w) ==
  /\ write[w].phase = "answered"
  /\ Succeeded(w)
  /\ write[w].generation = generation
  /\ Finish(w)
  /\ CommitLayer(w)
  /\ Disturb
  /\ UNCHANGED <<serverVars, session, cursor, scope, generation, sent, newest>>

(* No answer: a transport error or a 5xx that is not retried any more.     *)
Exhausted(w) == write[w].phase \in {"sent", "answered"} /\ write[w].retries = MaxRetries
Refused(w)   == write[w].phase = "answered" /\ ~Succeeded(w)

(* The server refused it, or its retries are exhausted: the layer goes.    *)
RollBack(w) ==
  /\ Refused(w) \/ Exhausted(w)
  /\ write[w].generation = generation
  /\ Finish(w)
  /\ layers' = layers \ {w}
  /\ Disturb
  /\ UNCHANGED <<serverVars, session, confirmed, committedAt, cursor, scope, revision,
                 generation, saved, sent, newest, mine, overtaken>>

(* The store was emptied while the write was in flight.                    *)
FinishLate(w) ==
  /\ write[w].phase = "answered" \/ Exhausted(w)
  /\ write[w].generation # generation
  /\ Finish(w)
  /\ UNCHANGED <<serverVars, session, storeVars, saved, load, sent, ghosts>>

-----------------------------------------------------------------------------
(* reset                                                                   *)
EmptyStore ==
  /\ confirmed' = NoRows
  /\ committedAt' = [k \in Keys |-> 0]
  /\ layers' = {}
  /\ cursor' = None
  /\ scope' = None
  /\ newest' = 0
  /\ mine' = {}
  /\ settled' = FALSE

(* Mutant: the generation stays.                                           *)
SwitchWithinGeneration(a) ==
  /\ a # session
  /\ generation < MaxGeneration
  /\ session' = a
  /\ EmptyStore
  /\ saved' = None
  /\ sent' = 0
  /\ load' = [l \in Loads |-> [load[l] EXCEPT !.quiet = FALSE]]
  /\ UNCHANGED <<serverVars, revision, generation, pending, write, overtaken>>

(* Another account signs in without a reload, and clearSyncedRows runs.    *)
SwitchSession(a) ==
  /\ a # session
  /\ generation < MaxGeneration
  /\ session' = a
  /\ generation' = generation + 1
  /\ EmptyStore
  /\ saved' = None
  /\ sent' = 0
  /\ load' = [l \in Loads |-> [load[l] EXCEPT !.quiet = FALSE]]
  /\ UNCHANGED <<serverVars, revision, pending, write, overtaken>>

(* The page is loaded again, perhaps by another account: memory is gone,   *)
(* what is persisted stays.                                                *)
Reload(a) ==
  /\ generation < MaxGeneration
  /\ session' = a
  /\ generation' = generation + 1
  /\ EmptyStore
  /\ revision' = 0
  /\ pending' = 0
  /\ load' = [l \in Loads |-> NoLoad]
  /\ write' = [w \in Writes |-> NoWrite]
  /\ sent' = 0
  /\ UNCHANGED <<serverVars, saved, overtaken>>

-----------------------------------------------------------------------------
Next ==
  \/ Tick
  \/ \E a \in Accounts, k \in Keys : \E row \in {None, Stamped(a, a)} : OtherWrites(a, k, row)
  \/ \E l \in Loads : LoadModel(l) \/ ListRows(l) \/ ListKeys(l) \/ ReceiveList(l) \/ DropList(l)
  \/ \E w \in Writes, online \in BOOLEAN :
       \/ \E op \in {"insert", "update", "delete"}, k \in Keys : Mutate(w, op, k, online)
       \/ RetryWrite(w, online)
  \/ \E w \in Writes :
       \/ ExecuteWrite(w) \/ RefuseWrite(w) \/ Send(w)
       \/ Commit(w) \/ RollBack(w) \/ FinishLate(w)
  \/ \E a \in Accounts : SwitchSession(a) \/ Reload(a)

Spec == Init /\ [][Next]_vars

-----------------------------------------------------------------------------
(* Properties                                                              *)

TypeOK ==
  /\ table \in Rows
  /\ confirmed \in Rows
  /\ committedAt \in [Keys -> 0..revision]
  /\ layers \subseteq Writes
  /\ cursor \in Cursor
  /\ scope \in Accounts \cup {None}
  /\ saved \in Saved \cup {None}

(* What is on the device belongs to the account signed in: no list or      *)
(* write of an earlier session lands in the store, and saved rows come     *)
(* back only under the scope they were saved under.                        *)
OwnRowsOnly ==
  /\ \A k \in Held(confirmed) : confirmed[k].owner = session
  /\ saved # None => \A k \in Held(saved.rows) : saved.rows[k].owner = saved.scope

(* The optimistic layers are those of the mutations of this generation     *)
(* still running: a write that settled, in whatever way and after whatever *)
(* resets, leaves no layer, and takes no other's away; pending counts the  *)
(* mutations running.                                                      *)
LayersAreRunning ==
  /\ layers = {w \in Writes : Running(w) /\ write[w].generation = generation}
  /\ pending = Cardinality({w \in Writes : Running(w)})

(* A row this client wrote, once confirmed, is dropped by no delta as long *)
(* as the account has it on the server, whichever lists were in flight     *)
(* when it was confirmed.                                                  *)
ConfirmedWritesSurvive == \A k \in mine \cap OwnedBy(session) : confirmed[k] # None

(* A list sent and answered in silence leaves the store equal to the       *)
(* server's rows, deletions included, however many deltas, reloads and     *)
(* other devices came before, unless a list was applied before the answer  *)
(* of an earlier list or write.                                            *)
Converged == settled => confirmed = VisibleTo(session)
ListsConverge == ~overtaken => Converged

(* "drops any load or write still in flight for the previous session" (the *)
(* sync plugin's page): no account is shown a row another one wrote.       *)
OwnAuthorsOnly == \A k \in Held(confirmed) : confirmed[k].author = session

-----------------------------------------------------------------------------
(* What the page is promised                                               *)

OwnerOf(row) == IF row = None THEN None ELSE row.owner

WishOf(w) ==
  IF Running(w) THEN [key |-> write[w].key, deletes |-> write[w].op = "delete"] ELSE None

Replica ==
  INSTANCE OptimisticRows WITH
    Mutations <- Writes,
    Nobody    <- None,
    user      <- session,
    rows      <- [k \in Keys |-> OwnerOf(confirmed[k])],
    shown     <- layers,
    late      <- {w \in Writes : Running(w)} \ layers,
    wish      <- [w \in Writes |-> WishOf(w)],
    own       <- mine \cap OwnedBy(session)

(* Whatever lists, retries, reloads and changes of the session come        *)
(* between, a mutation shows until it is settled, settles once, and leaves *)
(* no trace in the rows of another session; what it showed is what it      *)
(* leaves when it is confirmed, until the row is deleted or all rows are   *)
(* replaced (commitLayer, rollbackLayer, reset and applyServerRows).       *)
ImplementsOptimisticRows == Replica!RowsSpec
=============================================================================
