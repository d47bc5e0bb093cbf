-------------------------- MODULE SyncConvergeProofs --------------------------
(***************************************************************************)
(* Proofs that lists converge in SyncStore, and that mutations settle as   *)
(* OptimisticRows promises, for every value of its constants.              *)
(*                                                                         *)
(* The store has no snapshot of the server to compare itself with: it has  *)
(* a cursor.  The invariant says what a cursor is worth.  A row the server *)
(* holds was either written after the newest read that was applied, and    *)
(* then is stamped at or past the cursor, or the store has it; the same    *)
(* holds of what is saved, of every delta on its way with the rows it will *)
(* be seeded with, and of the answers of writes.                           *)
(***************************************************************************)
EXTENDS SyncStoreProofs

-----------------------------------------------------------------------------
(* The kinds of steps                                                      *)

Listed(r) == r.phase \in {"listed", "answered"}
Delta(r)  == r.since # None /\ r.scope \in {None, r.session}

(* A list request that stays as it is, but for the mark of silence.        *)
Still(new, old) ==
  /\ new.phase = old.phase /\ new.session = old.session /\ new.generation = old.generation
  /\ new.revision = old.revision /\ new.readAt = old.readAt /\ new.since = old.since
  /\ new.scope = old.scope /\ new.saved = old.saved /\ new.rows = old.rows
  /\ new.keys = old.keys /\ new.full = old.full /\ new.cursor = old.cursor
  /\ new.quiet => old.quiet

ListsStand   == \A l \in Loads : load'[l].phase = "idle" \/ Still(load'[l], load[l])
AnswersStand == \A w \in Writes : write'[w].phase = "answered" => write'[w] = write[w]
Noisy        == \A l \in Loads : ~load'[l].quiet

StoreStands ==
  UNCHANGED <<session, generation, revision, confirmed, committedAt, cursor, scope, saved,
              newest, overtaken>>

(* Nothing happens to the rows of either side.                             *)
Calm ==
  /\ UNCHANGED <<table, written>> /\ clock' \in Nat /\ clock <= clock' /\ StoreStands
  /\ ListsStand /\ AnswersStand /\ (settled' => settled)

(* The server stores or deletes the row of k.                              *)
Written(k, row) ==
  /\ table' = [table EXCEPT ![k] = row] /\ written' = written + 1 /\ clock' = clock
  /\ row \in Row \cup {None}
  /\ row # None => row.stamp = clock /\ row.version = written + 1
  /\ table[k] # None /\ row # None => row.owner = table[k].owner
  /\ StoreStands /\ ListsStand /\ Noisy /\ ~settled'

(* Only list requests change.                                              *)
ListsOnly ==
  /\ UNCHANGED <<table, written, clock, write, settled>> /\ StoreStands

(* The store is emptied; what is saved stays only where nothing runs.      *)
NewSession ==
  /\ UNCHANGED <<table, written, clock, overtaken>> /\ generation' = generation + 1
  /\ newest' = 0 /\ cursor' = None /\ scope' = None /\ confirmed' = NoRows /\ ~settled'
  /\ ListsStand /\ AnswersStand /\ Noisy
  /\ \A l \in Loads : load'[l].phase = "idle" \/ load'[l].generation # generation'
  /\ \/ saved' = None
     \/ /\ saved' = saved
        /\ \A l \in Loads : load'[l].phase = "idle"
        /\ \A w \in Writes : write'[w].phase = "idle"

LEMMA QuietStill ==
  ASSUME LoadInv, load' = [l \in Loads |-> [load[l] EXCEPT !.quiet = FALSE]]
  PROVE  ListsStand /\ Noisy
<1>1. ASSUME NEW l \in Loads PROVE Still(load'[l], load[l]) /\ ~load'[l].quiet
  <2>1. load[l] \in Load /\ load'[l] = [load[l] EXCEPT !.quiet = FALSE]
    BY DEF LoadInv
  <2>2. QED
    BY <2>1 DEF Load, Still
<1>2. QED
  BY <1>1 DEF ListsStand, Noisy

LEMMA SameStill == ASSUME UNCHANGED load PROVE ListsStand
BY DEF ListsStand, Still

(* The new session finds requests of earlier ones only.                    *)
LEMMA SessionKind ==
  ASSUME SyncInv, NEW a \in Accounts, SwitchSession(a) \/ Reload(a) PROVE NewSession
<1>1. /\ UNCHANGED <<table, written, clock, overtaken>> /\ generation' = generation + 1
      /\ newest' = 0 /\ cursor' = None /\ scope' = None /\ confirmed' = NoRows /\ ~settled'
  BY DEF SwitchSession, Reload, EmptyStore, serverVars
<1>2. CASE SwitchSession(a)
  <2>1. ListsStand /\ Noisy
    BY <1>2, QuietStill DEF SwitchSession, SyncInv
  <2>2. ASSUME NEW l \in Loads
        PROVE  load'[l].phase = "idle" \/ load'[l].generation # generation'
    <3>1. LoadOK(load[l], generation, session) /\ generation \in Nat /\ load[l].generation \in Nat
      BY DEF SyncInv, LoadInv, SessionInv, Load
    <3>2. QED
      BY <1>1, <2>1, <3>1 DEF ListsStand, Still, LoadOK
  <2>3. AnswersStand /\ saved' = None
    BY <1>2 DEF SwitchSession, AnswersStand
  <2>4. QED
    BY <1>1, <2>1, <2>2, <2>3 DEF NewSession
<1>3. CASE Reload(a)
  <2>1. /\ \A l \in Loads : load'[l] = NoLoad
        /\ \A w \in Writes : write'[w] = NoWrite
        /\ saved' = saved
    BY <1>3 DEF Reload
  <2>2. NoLoad.phase = "idle" /\ NoWrite.phase = "idle" /\ ~NoLoad.quiet
    BY DEF NoLoad, NoWrite
  <2>3. QED
    BY <1>1, <2>1, <2>2 DEF NewSession, ListsStand, AnswersStand, Noisy
<1>4. QED
  BY <1>2, <1>3

(* What a write of the server does.                                        *)
LEMMA WrittenKind ==
  ASSUME SyncInv, NEW k \in Keys, NEW row \in Row \cup {None}, Execute(k, row),
         row # None => row.stamp = clock /\ row.version = written + 1,
         table[k] # None /\ row # None => row.owner = table[k].owner,
         UNCHANGED <<clock, session, storeVars, saved, newest, overtaken>>
  PROVE  Written(k, row)
<1>1. ListsStand /\ Noisy
  BY QuietStill DEF Execute, SyncInv
<1>2. QED
  BY <1>1 DEF Written, Execute, StoreStands, storeVars

(* The answer of a write carries the row the server wrote, and when.       *)
LEMMA AnswerFacts ==
  ASSUME SyncInv, NEW w \in Writes, NEW answer, NEW row, NEW at, Answer(w, answer, row, at)
  PROVE  /\ write'[w].phase = "answered" /\ write'[w].answer = answer /\ write'[w].row = row
         /\ write'[w].at = at /\ write'[w].key = write[w].key /\ write'[w].op = write[w].op
         /\ write'[w].session = write[w].session
         /\ \A v \in Writes \ {w} : write'[v] = write[v]
<1>1. write[w] \in Write /\ write \in [Writes -> Write]
  BY DEF SyncInv, WriteInv
<1>2. QED
  BY <1>1 DEF Answer, Write

LEMMA ExecuteWriteFacts ==
  ASSUME SyncInv, NEW w \in Writes, ExecuteWrite(w)
  PROVE  \E row :
           /\ Written(write[w].key, row) /\ write[w].key \in Keys
           /\ Answer(w, "stored", row, written + 1)
<1> DEFINE me == write[w]
           row == IF me.op = "delete" THEN None ELSE Stamped(me.session, me.author)
<1>1. /\ Execute(me.key, row) /\ Answer(w, "stored", row, written + 1)
      /\ UNCHANGED <<clock, session, storeVars, saved, newest, overtaken>>
      /\ table[me.key] # None => table[me.key].owner = me.session
  BY DEF ExecuteWrite, Free, OwnedBy
<1>2. me.key \in Keys /\ me.session \in Accounts /\ me.author \in Accounts
  BY DEF ExecuteWrite, SyncInv, WriteInv, WriteOK
<1> HIDE DEF me
<1>3. /\ row \in Row \cup {None} /\ (row # None => row.owner = me.session)
      /\ row # None => row.stamp = clock /\ row.version = written + 1
  BY <1>2, StampedRow DEF SyncInv, Stamped
<1> HIDE DEF row
<1>4. Written(me.key, row)
  BY <1>1, <1>2, <1>3, WrittenKind
<1>5. QED
  BY <1>1, <1>2, <1>4 DEF me

LEMMA OtherWritesFacts ==
  ASSUME SyncInv, NEW a \in Accounts, NEW k \in Keys, NEW row \in {None, Stamped(a, a)},
         OtherWrites(a, k, row)
  PROVE  Written(k, row) /\ AnswersStand
<1>1. /\ row \in Row \cup {None} /\ (row # None => row.owner = a)
      /\ row # None => row.stamp = clock /\ row.version = written + 1
  BY StampedRow DEF SyncInv, Stamped
<1>2. table[k] # None => table[k].owner = a
  BY DEF OtherWrites, OwnedBy, Free
<1>3. Written(k, row)
  BY <1>1, <1>2, WrittenKind DEF OtherWrites
<1>4. QED
  BY <1>3 DEF OtherWrites, AnswersStand

(* The steps of a mutation that bring no answer and leave the store alone. *)
LEMMA MutationsCalm ==
  ASSUME SyncInv, NEW w \in Writes, NEW online \in BOOLEAN,
         \/ \E op \in {"insert", "update", "delete"}, k \in Keys : Mutate(w, op, k, online)
         \/ RetryWrite(w, online) \/ Send(w) \/ RollBack(w) \/ FinishLate(w)
  PROVE  Calm
<1>1. clock \in Nat /\ write \in [Writes -> Write] /\ write[w] \in Write
  BY DEF SyncInv, ServerInv, WriteInv
<1>2. UNCHANGED <<table, written, clock>> /\ StoreStands /\ (settled' => settled)
  <2>1. CASE \E op \in {"insert", "update", "delete"}, k \in Keys : Mutate(w, op, k, online)
    BY <2>1 DEF Mutate, Disturb, StoreStands, serverVars
  <2>2. CASE RetryWrite(w, online) \/ Send(w)
    BY <2>2 DEF RetryWrite, Send, StoreStands, serverVars, storeVars, ghosts
  <2>3. CASE RollBack(w)
    BY <2>3 DEF RollBack, Disturb, StoreStands, serverVars
  <2>4. CASE FinishLate(w)
    BY <2>4 DEF FinishLate, StoreStands, serverVars, storeVars, ghosts
  <2>5. QED
    BY <2>1, <2>2, <2>3, <2>4
<1>3. ListsStand
  BY QuietStill, SameStill DEF Mutate, RetryWrite, Send, RollBack, FinishLate, Disturb, SyncInv
<1>4. write'[w].phase # "answered" /\ \A v \in Writes \ {w} : write'[v] = write[v]
  <2>1. CASE \E op \in {"insert", "update", "delete"}, k \in Keys : Mutate(w, op, k, online)
    <3>1. PICK op \in {"insert", "update", "delete"}, k \in Keys : Mutate(w, op, k, online)
      BY <2>1
    <3>2. NoWrite \in Write
      BY NoRequests
    <3>3. QED
      BY <1>1, <3>1, <3>2 DEF Mutate, Write
  <2>2. CASE RetryWrite(w, online)
    BY <1>1, <2>2 DEF RetryWrite, Write
  <2>3. CASE Send(w)
    BY <1>1, <2>3 DEF Send, Write
  <2>4. CASE RollBack(w) \/ FinishLate(w)
    BY <1>1, <2>4, NoRequests DEF RollBack, FinishLate, Finish
  <2>5. QED
    BY <2>1, <2>2, <2>3, <2>4
<1>5. QED
  BY <1>1, <1>2, <1>3, <1>4 DEF Calm, AnswersStand

(* A dropped list, the clock and a stuttering step.                        *)
LEMMA OthersCalm ==
  ASSUME SyncInv, Tick \/ (\E l \in Loads : DropList(l)) \/ UNCHANGED vars PROVE Calm
<1>1. clock \in Nat
  BY DEF SyncInv, ServerInv
<1>2. CASE Tick
  BY <1>1, <1>2, SameStill DEF Tick, Calm, StoreStands, AnswersStand, storeVars, ghosts
<1>3. ASSUME NEW l \in Loads, DropList(l) PROVE Calm
  <2>1. ListsStand
    BY <1>3, NoRequests DEF DropList, ListsStand, Still, SyncInv, LoadInv
  <2>2. QED
    BY <1>1, <1>3, <2>1 DEF DropList, Calm, StoreStands, AnswersStand, serverVars, storeVars, ghosts
<1>4. CASE UNCHANGED vars
  BY <1>1, <1>4, SameStill DEF Calm, StoreStands, AnswersStand, vars, serverVars, storeVars, ghosts
<1>5. QED
  BY <1>2, <1>3, <1>4

(* Every step is of one of these kinds.                                    *)
LEMMA Kinds ==
  ASSUME SyncInv, [Next]_vars
  PROVE  \/ Calm
         \/ \E k \in Keys, row \in Row \cup {None} : Written(k, row) /\ AnswersStand
         \/ \E w \in Writes : ExecuteWrite(w) \/ RefuseWrite(w) \/ Commit(w)
         \/ \E l \in Loads : LoadModel(l) \/ ListRows(l) \/ ListKeys(l) \/ ReceiveList(l)
         \/ NewSession
<1>1. CASE Tick \/ UNCHANGED vars
  BY <1>1, OthersCalm
<1>2. ASSUME NEW a \in Accounts, NEW k \in Keys, NEW row \in {None, Stamped(a, a)},
             OtherWrites(a, k, row)
      PROVE  \E row2 \in Row \cup {None} : Written(k, row2) /\ AnswersStand
  <2>1. row \in Row \cup {None}
    BY StampedRow DEF SyncInv
  <2>2. QED
    BY <1>2, <2>1, OtherWritesFacts
<1>3. ASSUME NEW l \in Loads, DropList(l) PROVE Calm
  BY <1>3, OthersCalm
<1>4. ASSUME NEW w \in Writes, NEW online \in BOOLEAN,
             \/ \E op \in {"insert", "update", "delete"}, k \in Keys : Mutate(w, op, k, online)
             \/ RetryWrite(w, online)
      PROVE  Calm
  BY <1>4, MutationsCalm
<1>5. ASSUME NEW w \in Writes, Send(w) \/ RollBack(w) \/ FinishLate(w) PROVE Calm
  BY <1>5, MutationsCalm
<1>6. ASSUME NEW a \in Accounts, SwitchSession(a) \/ Reload(a) PROVE NewSession
  BY <1>6, SessionKind
<1>7. QED
  BY <1>1, <1>2, <1>3, <1>4, <1>5, <1>6 DEF Next

-----------------------------------------------------------------------------
(* What the steps of a list request do                                     *)

LEMMA LoadModelFacts ==
  ASSUME SyncInv, NEW l \in Loads, LoadModel(l)
  PROVE  /\ ListsOnly
         /\ load'[l].phase = "sent" /\ load'[l].session = session
         /\ load'[l].generation = generation /\ load'[l].revision = revision
         /\ \/ /\ scope = None /\ saved # None /\ load'[l].saved = saved
               /\ load'[l].since = saved.cursor /\ load'[l].scope = saved.scope
            \/ /\ scope # None \/ saved = None
               /\ load'[l].saved = None /\ load'[l].since = cursor /\ load'[l].scope = scope
         /\ \A m \in Loads \ {l} : load'[m] = load[m]
<1>1. NoLoad \in Load /\ load \in [Loads -> Load]
  BY NoRequests DEF SyncInv, LoadInv
<1>2. ListsOnly
  BY DEF LoadModel, ListsOnly, StoreStands, serverVars, storeVars, ghosts
<1>3. CASE scope = None /\ saved # None
  BY <1>1, <1>2, <1>3 DEF LoadModel, Load
<1>4. CASE ~(scope = None /\ saved # None)
  BY <1>1, <1>2, <1>4 DEF LoadModel, Load
<1>5. QED
  BY <1>3, <1>4

LEMMA ListRowsFacts ==
  ASSUME SyncInv, NEW l \in Loads, ListRows(l)
  PROVE  /\ ListsOnly /\ load[l].phase = "sent" /\ Listed(load'[l])
         /\ load'[l].session = load[l].session /\ load'[l].generation = load[l].generation
         /\ load'[l].revision = load[l].revision /\ load'[l].since = load[l].since
         /\ load'[l].scope = load[l].scope /\ load'[l].saved = load[l].saved
         /\ load'[l].quiet = load[l].quiet
         /\ load'[l].full = ~Delta(load[l]) /\ load'[l].readAt = written
         /\ load'[l].phase = "answered" => load'[l].full
         /\ Past(load[l].since) => Past(load'[l].cursor)
         /\ \A k \in Keys : load'[l].rows[k] =
              IF k \in OwnedBy(load[l].session)
                   /\ (load'[l].full \/ table[k].stamp >= load[l].since)
                THEN table[k] ELSE None
         /\ \A m \in Loads \ {l} : load'[m] = load[m]
<1> DEFINE me == load[l]
           incremental == Delta(me)
           rows == [k \in Keys |->
                     IF k \in OwnedBy(me.session) /\ (incremental => ChangedSince(k, me.since))
                       THEN table[k] ELSE None]
           full == ~incremental
           floor == IF incremental THEN me.since ELSE None
           cur == MaxStamp(rows, floor)
           phase == IF incremental THEN "listed" ELSE "answered"
           new == [me EXCEPT !.rows = rows, !.full = full, !.readAt = written,
                             !.cursor = cur, !.phase = phase]
<1>1. /\ load[l].phase = "sent" /\ me \in Load /\ load \in [Loads -> Load]
      /\ load' = [load EXCEPT ![l] = new] /\ ListsOnly
  BY DEF ListRows, SyncInv, LoadInv, Delta, ListsOnly, StoreStands, serverVars, storeVars, ghosts
<1>2. me = load[l]
  OBVIOUS
<1> HIDE DEF me
<1>3. /\ rows \in Rows
      /\ \A k \in Held(rows) : rows[k] = table[k]
  BY DEF Rows, Held, SyncInv, ServerInv
<1>4. floor \in Cursor /\ (Past(me.since) => Past(floor))
  BY <1>1 DEF Load, Cursor, Past
<1>5. Past(me.since) => Past(cur)
  <2> HIDE DEF rows, floor
  <2> QED
    BY <1>3, <1>4, MaxStampIsCursor DEF SyncInv
<1>6. \A k \in Keys : rows[k] =
        IF k \in OwnedBy(me.session) /\ (full \/ table[k].stamp >= me.since) THEN table[k] ELSE None
  BY DEF ChangedSince
<1>7. phase \in {"listed", "answered"} /\ (phase = "answered" => full)
  OBVIOUS
<1>8. full = ~Delta(me)
  OBVIOUS
<1> HIDE DEF rows, full, floor, cur, phase, incremental
<1>9. /\ new.phase = phase /\ new.rows = rows /\ new.full = full /\ new.readAt = written
      /\ new.cursor = cur /\ new.session = me.session /\ new.generation = me.generation
      /\ new.revision = me.revision /\ new.since = me.since /\ new.scope = me.scope
      /\ new.saved = me.saved /\ new.quiet = me.quiet
  BY <1>1 DEF Load
<1>10. load'[l] = new /\ \A m \in Loads \ {l} : load'[m] = load[m]
  BY <1>1
<1> HIDE DEF new
<1>11. QED
  BY <1>1, <1>2, <1>5, <1>6, <1>7, <1>8, <1>9, <1>10 DEF Listed

LEMMA ListKeysFacts ==
  ASSUME SyncInv, NEW l \in Loads, ListKeys(l)
  PROVE  /\ ListsOnly /\ load[l].phase = "listed" /\ load'[l].phase = "answered"
         /\ load'[l].session = load[l].session /\ load'[l].generation = load[l].generation
         /\ load'[l].revision = load[l].revision /\ load'[l].since = load[l].since
         /\ load'[l].scope = load[l].scope /\ load'[l].saved = load[l].saved
         /\ load'[l].quiet = load[l].quiet /\ load'[l].full = load[l].full
         /\ load'[l].readAt = load[l].readAt /\ load'[l].rows = load[l].rows
         /\ load'[l].cursor = load[l].cursor /\ load'[l].keys = OwnedBy(load[l].session)
         /\ \A m \in Loads \ {l} : load'[m] = load[m]
<1>1. load[l] \in Load /\ load \in [Loads -> Load]
  BY DEF SyncInv, LoadInv
<1>2. ListsOnly
  BY DEF ListKeys, ListsOnly, StoreStands, serverVars, storeVars, ghosts
<1>3. QED
  BY <1>1, <1>2 DEF ListKeys, Load

LEMMA ReceiveListFacts ==
  ASSUME SyncInv, NEW l \in Loads, ReceiveList(l)
  PROVE  /\ load[l].phase = "answered" /\ load[l].generation = generation
         /\ load[l].session = session
         /\ UNCHANGED <<table, written, clock, session, generation, revision, write>>
         /\ scope' = session /\ scope' # None
         /\ cursor' = IF load[l].cursor # None THEN load[l].cursor ELSE cursor
         /\ newest' = IF load[l].readAt > newest THEN load[l].readAt ELSE newest
         /\ overtaken' = (overtaken \/ load[l].readAt < newest)
         /\ saved' = [rows |-> confirmed', cursor |-> cursor', scope |-> session]
         /\ settled' => load[l].quiet
         /\ load'[l].phase = "idle" /\ \A m \in Loads \ {l} : load'[m] = load[m]
<1>1. /\ load[l].phase = "answered" /\ load[l].generation = generation
      /\ load[l].session = session /\ session # None /\ load \in [Loads -> Load]
  BY NoneAssumption DEF ReceiveList, SyncInv, LoadInv, LoadOK, SessionInv
<1>2. /\ UNCHANGED <<table, written, clock, session, generation, revision, write>>
      /\ scope' = session
      /\ cursor' = IF load[l].cursor # None THEN load[l].cursor ELSE cursor
      /\ newest' = IF load[l].readAt > newest THEN load[l].readAt ELSE newest
      /\ overtaken' = (overtaken \/ load[l].readAt < newest)
      /\ settled' => load[l].quiet
  BY <1>1 DEF ReceiveList, serverVars
<1>3. saved' = [rows |-> confirmed', cursor |-> cursor', scope |-> session]
  BY <1>1 DEF ReceiveList, Persist
<1>4. load'[l].phase = "idle" /\ \A m \in Loads \ {l} : load'[m] = load[m]
  BY <1>1, NoRequests DEF ReceiveList
<1>5. QED
  BY <1>1, <1>2, <1>3, <1>4

(* The row of a key after a list: the list's, or the one it found, unless  *)
(* a delta drops it.                                                       *)
LEMMA ReceivedRow ==
  ASSUME SyncInv, NEW l \in Loads, ReceiveList(l), NEW k \in Keys
  PROVE  confirmed'[k] =
           IF Pruned(k, load[l]) THEN None
           ELSE IF load[l].rows[k] # None THEN load[l].rows[k]
           ELSE IF load[l].full THEN None ELSE Seed(load[l])[k]
BY DEF ReceiveList, NoRows

LEMMA CommitFacts ==
  ASSUME SyncInv, NEW w \in Writes, Commit(w)
  PROVE  /\ write[w].phase = "answered" /\ Succeeded(w) /\ write[w].session = session
         /\ write[w].key \in Keys
         /\ UNCHANGED <<table, written, clock, session, generation, cursor, scope, newest>>
         /\ overtaken' = (overtaken \/ write[w].at < newest)
         /\ confirmed' = [confirmed EXCEPT ![write[w].key] = write[w].row]
         /\ IF scope = None THEN saved' = saved
            ELSE saved' = [rows |-> confirmed', cursor |-> cursor, scope |-> session]
         /\ ListsStand /\ Noisy /\ AnswersStand /\ ~settled'
<1>1. /\ write[w].phase = "answered" /\ write[w].generation = generation
      /\ write \in [Writes -> Write] /\ WriteOK(write[w], generation, session)
  BY DEF Commit, SyncInv, WriteInv
<1>2. write[w].session = session /\ write[w].key \in Keys
  BY <1>1 DEF WriteOK
<1>3. scope \in {None, session}
  BY DEF SyncInv, StoreInv
<1>4. ListsStand /\ Noisy
  BY QuietStill DEF Commit, Disturb, SyncInv
<1>5. AnswersStand
  BY <1>1, NoRequests DEF Commit, Finish, AnswersStand
<1>6. IF scope = None THEN saved' = saved
      ELSE saved' = [rows |-> confirmed', cursor |-> cursor, scope |-> session]
  BY <1>3 DEF Commit, CommitLayer, Persist
<1>7. /\ UNCHANGED <<table, written, clock, session, generation, cursor, scope, newest>>
      /\ overtaken' = (overtaken \/ write[w].at < newest) /\ ~settled' /\ Succeeded(w)
      /\ confirmed' = [confirmed EXCEPT ![write[w].key] = write[w].row]
  BY DEF Commit, CommitLayer, Disturb, serverVars
<1>8. QED
  BY <1>1, <1>2, <1>4, <1>5, <1>6, <1>7

(* A row after the server wrote one.                                       *)
LEMMA WrittenRow ==
  ASSUME SyncInv, NEW k \in Keys, NEW row \in Row \cup {None}, Written(k, row)
  PROVE  /\ table' \in Rows
         /\ \A j \in Held(table') :
              \/ j \in Held(table) /\ table'[j] = table[j]
              \/ table'[j] = row /\ table'[j].stamp = clock /\ table'[j].version = written + 1
         /\ \A a : \A j \in OwnedBy(a)' :
              \/ j \in OwnedBy(a) /\ table'[j] = table[j]
              \/ table'[j].stamp = clock /\ table'[j].version = written + 1
<1>1. table \in Rows /\ table' = [table EXCEPT ![k] = row]
  BY DEF Written, SyncInv, ServerInv
<1>2. table' \in Rows
  BY <1>1 DEF Rows
<1>3. \A j \in Held(table') :
        \/ j \in Held(table) /\ table'[j] = table[j]
        \/ table'[j] = row /\ table'[j].stamp = clock /\ table'[j].version = written + 1
  BY <1>1 DEF Written, Rows, Held
<1>4. ASSUME NEW a, NEW j \in OwnedBy(a)'
      PROVE  \/ j \in OwnedBy(a) /\ table'[j] = table[j]
             \/ table'[j].stamp = clock /\ table'[j].version = written + 1
  BY <1>3 DEF OwnedBy, Held
<1>5. QED
  BY <1>2, <1>3, <1>4

-----------------------------------------------------------------------------
(* Stamps, cursors and counts lie in the past                              *)

ListPast(r) ==
  r.phase # "idle" => Past(r.since) /\ (Listed(r) => r.readAt <= written /\ Past(r.cursor))

TimeInv ==
  /\ newest \in Nat /\ newest <= written
  /\ \A k \in Held(table) : table[k].version \in 1..written
  /\ Past(cursor) /\ (saved # None => Past(saved.cursor))
  /\ \A l \in Loads : ListPast(load[l])
  /\ \A w \in Writes : write[w].phase = "answered" => write[w].at <= written
  /\ scope = None => newest = 0 /\ cursor = None

(* Numbers of the requests.                                                *)
LEMMA Numbers ==
  ASSUME SyncInv
  PROVE  /\ clock \in Nat /\ written \in Nat /\ generation \in Nat /\ cursor \in Cursor
         /\ \A l \in Loads : load[l].readAt \in Nat /\ load[l].since \in Cursor
                            /\ load[l].cursor \in Cursor
         /\ \A w \in Writes : write[w].at \in Nat
         /\ saved # None => saved.cursor \in Cursor
         /\ \A k \in Held(table) : table[k].stamp \in Nat /\ table[k].version \in Nat
BY DEF SyncInv, ServerInv, SessionInv, StoreInv, LoadInv, WriteInv, Load, Write, Saved, Held,
       Rows, Row

LEMMA ListsPast ==
  ASSUME SyncInv, TimeInv, ListsStand, clock' \in Nat, written' \in Nat,
         clock <= clock', written <= written'
  PROVE  \A l \in Loads : ListPast(load[l])'
<1>1. ASSUME NEW l \in Loads, load'[l].phase # "idle" PROVE ListPast(load[l])'
  <2>1. Still(load'[l], load[l]) /\ ListPast(load[l])
    BY <1>1 DEF ListsStand, TimeInv
  <2>2. /\ load[l].readAt \in Nat /\ load[l].since \in Cursor /\ load[l].cursor \in Cursor
        /\ clock \in Nat /\ written \in Nat
    BY Numbers
  <2>3. QED
    BY <2>1, <2>2 DEF ListPast, Still, Past, Cursor, Listed
<1>2. QED
  BY <1>1 DEF ListPast

LEMMA TimeCalm ==
  ASSUME SyncInv, TimeInv, Calm PROVE TimeInv'
<1>1. \A l \in Loads : ListPast(load[l])'
  BY Numbers, ListsPast DEF Calm
<1>2. Past(cursor)' /\ (saved' # None => Past(saved.cursor)')
  BY Numbers DEF Calm, StoreStands, TimeInv, Past, Cursor
<1>3. \A w \in Writes : write'[w].phase = "answered" => write'[w].at <= written'
  BY DEF Calm, AnswersStand, TimeInv
<1>4. QED
  BY <1>1, <1>2, <1>3 DEF Calm, StoreStands, TimeInv

LEMMA TimeWritten ==
  ASSUME SyncInv, TimeInv, NEW k \in Keys, NEW row \in Row \cup {None}, Written(k, row),
         \A w \in Writes : write'[w].phase = "answered" =>
           write'[w] = write[w] \/ write'[w].at = written + 1
  PROVE  TimeInv'
<1>1. /\ written' = written + 1 /\ clock' = clock /\ StoreStands
      /\ clock \in Nat /\ written \in Nat
  BY Numbers DEF Written
<1>2. \A l \in Loads : ListPast(load[l])'
  BY <1>1, ListsPast DEF Written
<1>3. \A j \in Held(table') : table'[j].version \in 1..written'
  BY <1>1, WrittenRow, Numbers DEF TimeInv
<1>4. \A w \in Writes : write'[w].phase = "answered" => write'[w].at <= written'
  BY <1>1, Numbers DEF TimeInv
<1>5. /\ Past(cursor)' /\ (saved' # None => Past(saved.cursor)')
      /\ newest' \in Nat /\ newest' <= written' /\ (scope' = None => newest' = 0 /\ cursor' = None)
  BY <1>1 DEF StoreStands, TimeInv, Past
<1>6. QED
  BY <1>2, <1>3, <1>4, <1>5 DEF TimeInv

LEMMA TimeLists ==
  ASSUME SyncInv, TimeInv, NEW l \in Loads, LoadModel(l) \/ ListRows(l) \/ ListKeys(l)
  PROVE  TimeInv'
<1>1. ListsOnly /\ \A m \in Loads \ {l} : load'[m] = load[m]
  BY LoadModelFacts, ListRowsFacts, ListKeysFacts
<1>2. ListPast(load'[l])
  <2>1. CASE LoadModel(l)
    BY <2>1, LoadModelFacts DEF ListPast, TimeInv, Past, Listed
  <2>2. CASE ListRows(l)
    BY <2>2, ListRowsFacts, Numbers DEF ListPast, TimeInv
  <2>3. CASE ListKeys(l)
    BY <2>3, ListKeysFacts DEF ListPast, TimeInv, Listed
  <2>4. QED
    BY <2>1, <2>2, <2>3
<1>3. \A m \in Loads : ListPast(load'[m])
  BY <1>1, <1>2 DEF TimeInv
<1>4. \A m \in Loads : ListPast(load[m])'
  BY <1>1, <1>3 DEF ListsOnly, ListPast, Past
<1>5. QED
  BY <1>1, <1>4 DEF ListsOnly, StoreStands, TimeInv, Past

LEMMA TimeReceive ==
  ASSUME SyncInv, TimeInv, NEW l \in Loads, ReceiveList(l) PROVE TimeInv'
<1>1. ListPast(load[l]) /\ load[l].phase = "answered" /\ load[l].readAt \in Nat
  BY ReceiveListFacts, Numbers DEF TimeInv
<1>2. /\ UNCHANGED <<table, written, clock, write>> /\ scope' # None
      /\ cursor' = IF load[l].cursor # None THEN load[l].cursor ELSE cursor
      /\ newest' = IF load[l].readAt > newest THEN load[l].readAt ELSE newest
      /\ saved'.cursor = cursor'
      /\ load'[l].phase = "idle" /\ \A m \in Loads \ {l} : load'[m] = load[m]
  BY ReceiveListFacts
<1>3. Past(cursor)' /\ (saved' # None => Past(saved.cursor)')
  BY <1>1, <1>2 DEF ListPast, Listed, Past, TimeInv
<1>4. \A m \in Loads : ListPast(load[m])'
  BY <1>2 DEF TimeInv, ListPast, Past
<1>5. newest' \in Nat /\ newest' <= written'
  BY <1>1, <1>2 DEF ListPast, Listed, TimeInv
<1>6. QED
  BY <1>2, <1>3, <1>4, <1>5 DEF TimeInv

LEMMA TimeStep == SyncInv /\ TimeInv /\ [Next]_vars => TimeInv'
<1> SUFFICES ASSUME SyncInv, TimeInv, [Next]_vars PROVE TimeInv'
  OBVIOUS
<1>1. CASE Calm
  BY <1>1, TimeCalm
<1>2. ASSUME NEW k \in Keys, NEW row \in Row \cup {None}, Written(k, row), AnswersStand
      PROVE  TimeInv'
  BY <1>2, TimeWritten DEF AnswersStand
<1>3. ASSUME NEW w \in Writes, ExecuteWrite(w) PROVE TimeInv'
  <2>1. PICK row : /\ Written(write[w].key, row) /\ write[w].key \in Keys
                   /\ Answer(w, "stored", row, written + 1)
    BY <1>3, ExecuteWriteFacts
  <2>2. row \in Row \cup {None}
    BY <2>1 DEF Written
  <2>3. write'[w].at = written + 1 /\ \A v \in Writes \ {w} : write'[v] = write[v]
    BY <2>1, AnswerFacts
  <2>4. QED
    BY <2>1, <2>2, <2>3, TimeWritten
<1>4. ASSUME NEW w \in Writes, RefuseWrite(w) PROVE TimeInv'
  <2>1. \E answer : Answer(w, answer, None, written)
    BY <1>4 DEF RefuseWrite
  <2>2. write'[w].at = written /\ \A v \in Writes \ {w} : write'[v] = write[v]
    BY <2>1, AnswerFacts
  <2>3. UNCHANGED <<serverVars, storeVars, saved, load, ghosts>>
    BY <1>4 DEF RefuseWrite
  <2>4. \A v \in Writes : write'[v].phase = "answered" => write'[v].at <= written
    BY <2>2, Numbers DEF TimeInv
  <2>5. QED
    BY <2>3, <2>4 DEF TimeInv, serverVars, storeVars, ghosts, ListPast, Past
<1>5. ASSUME NEW w \in Writes, Commit(w) PROVE TimeInv'
  <2>1. /\ UNCHANGED <<table, written, clock, cursor, scope, newest>> /\ ListsStand /\ AnswersStand
        /\ IF scope = None THEN saved' = saved
           ELSE saved' = [rows |-> confirmed', cursor |-> cursor, scope |-> session]
    BY <1>5, CommitFacts
  <2>2. \A l \in Loads : ListPast(load[l])'
    BY <2>1, Numbers, ListsPast
  <2>3. saved' # None => Past(saved.cursor)'
    BY <2>1 DEF TimeInv, Past
  <2>4. QED
    BY <2>1, <2>2, <2>3 DEF TimeInv, AnswersStand, Past
<1>6. ASSUME NEW l \in Loads, LoadModel(l) \/ ListRows(l) \/ ListKeys(l) PROVE TimeInv'
  BY <1>6, TimeLists
<1>7. ASSUME NEW l \in Loads, ReceiveList(l) PROVE TimeInv'
  BY <1>7, TimeReceive
<1>8. CASE NewSession
  <2>1. \A l \in Loads : ListPast(load[l])'
    BY <1>8, Numbers, ListsPast DEF NewSession
  <2>2. QED
    BY <1>8, <2>1, Numbers DEF NewSession, TimeInv, AnswersStand, Past
<1>9. QED
  BY <1>1, <1>2, <1>3, <1>4, <1>5, <1>6, <1>7, <1>8, Kinds

-----------------------------------------------------------------------------
(* What an answered list and the answer of a write say of the table        *)

(* Rows the server holds after a step: those it held, or one stored in it. *)
Grown ==
  \A j \in Held(table') :
    \/ j \in Held(table) /\ table'[j] = table[j]
    \/ table'[j].stamp = clock /\ table'[j].version = written + 1

(* A list has every row of its account not written since, from its floor   *)
(* on; rows written since are stamped at or past the cursor it returns.    *)
ListTrue(r, tab) ==
  /\ r.phase # "idle" /\ r.saved # None => r.since = r.saved.cursor /\ r.scope = r.saved.scope
  /\ Listed(r) =>
       /\ r.full = ~Delta(r)
       /\ \A k \in Held(tab) : tab[k].version > r.readAt => r.cursor = None \/ tab[k].stamp >= r.cursor
       /\ \A k \in Held(tab) : tab[k].owner = r.session /\ tab[k].version <= r.readAt =>
            /\ r.full \/ tab[k].stamp >= r.since => r.rows[k] = tab[k]
            /\ ~(r.full \/ tab[k].stamp >= r.since) => r.rows[k] = None
            /\ r.phase = "answered" /\ ~r.full => k \in r.keys

ListInv == \A l \in Loads : ListTrue(load[l], table)

LEMMA Growth ==
  ASSUME SyncInv
  PROVE  /\ UNCHANGED table => Grown
         /\ \A k \in Keys, row \in Row \cup {None} : Written(k, row) => Grown
BY WrittenRow DEF Grown, Held

LEMMA ListKept ==
  ASSUME SyncInv, TimeInv, Grown, NEW l \in Loads, NEW r, Still(r, load[l]),
         ListTrue(load[l], table)
  PROVE  ListTrue(r, table')
<1> DEFINE old == load[l]
<1>1. /\ clock \in Nat /\ written \in Nat /\ old.readAt \in Nat /\ old.cursor \in Cursor
      /\ Listed(old) => old.readAt <= written /\ Past(old.cursor)
  BY Numbers DEF TimeInv, ListPast, Listed
<1>2. ListTrue(old, table) /\ Still(r, old)
  OBVIOUS
<1> HIDE DEF old
<1>3. (Listed(r) <=> Listed(old)) /\ (Delta(r) <=> Delta(old))
  BY <1>2 DEF Still, Listed, Delta
<1>4. ASSUME Listed(r), NEW k \in Held(table'), table'[k].version > r.readAt
      PROVE  r.cursor = None \/ table'[k].stamp >= r.cursor
  BY <1>1, <1>2, <1>3, <1>4 DEF Grown, ListTrue, Still, Past, Cursor
<1>5. ASSUME Listed(r), NEW k \in Held(table'), table'[k].owner = r.session,
             table'[k].version <= r.readAt
      PROVE  /\ r.full \/ table'[k].stamp >= r.since => r.rows[k] = table'[k]
             /\ ~(r.full \/ table'[k].stamp >= r.since) => r.rows[k] = None
             /\ r.phase = "answered" /\ ~r.full => k \in r.keys
  <2>1. k \in Held(table) /\ table'[k] = table[k]
    BY <1>1, <1>2, <1>3, <1>5 DEF Grown, Still
  <2>2. QED
    BY <1>2, <1>3, <1>5, <2>1 DEF ListTrue, Still
<1>6. r.full = old.full /\ r.phase = old.phase /\ r.saved = old.saved /\ r.since = old.since
      /\ r.scope = old.scope
  BY <1>2 DEF Still
<1>7. QED
  BY <1>2, <1>3, <1>4, <1>5, <1>6 DEF ListTrue

LEMMA ListStands ==
  ASSUME SyncInv, TimeInv, ListInv, Grown, ListsStand PROVE ListInv'
<1>1. ASSUME NEW l \in Loads PROVE ListTrue(load'[l], table')
  <2>1. CASE load'[l].phase = "idle"
    BY <2>1 DEF ListTrue, Listed
  <2>2. CASE Still(load'[l], load[l])
    BY <2>2, ListKept DEF ListInv
  <2>3. QED
    BY <2>1, <2>2 DEF ListsStand
<1>2. QED
  BY <1>1 DEF ListInv

LEMMA ListLoadModel ==
  ASSUME SyncInv, NEW l \in Loads, LoadModel(l) PROVE ListTrue(load'[l], table)
BY LoadModelFacts DEF ListTrue, Listed

LEMMA ListListRows ==
  ASSUME SyncInv, TimeInv, ListInv, NEW l \in Loads, ListRows(l) PROVE ListTrue(load'[l], table)
<1> DEFINE old == load[l]
           new == load'[l]
<1>1. /\ old.phase = "sent" /\ Listed(new) /\ new.session = old.session
      /\ new.since = old.since /\ new.scope = old.scope /\ new.saved = old.saved
      /\ new.full = ~Delta(old) /\ new.readAt = written
      /\ new.phase = "answered" => new.full
      /\ \A k \in Keys : new.rows[k] =
           IF k \in OwnedBy(old.session) /\ (new.full \/ table[k].stamp >= old.since)
             THEN table[k] ELSE None
  BY ListRowsFacts
<1>2. \A k \in Held(table) : table[k].version <= written /\ table[k].version \in Nat
  BY Numbers DEF TimeInv
<1>3. written \in Nat /\ ListTrue(old, table)
  BY Numbers DEF ListInv
<1> HIDE DEF old, new
<1>4. Delta(new) <=> Delta(old)
  BY <1>1 DEF Delta
<1>5. new.phase # "idle" /\ new.saved # None => new.since = new.saved.cursor /\ new.scope = new.saved.scope
  BY <1>1, <1>3 DEF ListTrue
<1>6. \A k \in Held(table) : ~(table[k].version > new.readAt)
  BY <1>1, <1>2, <1>3
<1>7. ASSUME NEW k \in Held(table), table[k].owner = new.session
      PROVE  /\ new.full \/ table[k].stamp >= new.since => new.rows[k] = table[k]
             /\ ~(new.full \/ table[k].stamp >= new.since) => new.rows[k] = None
             /\ ~(new.phase = "answered" /\ ~new.full)
  <2>1. k \in Keys /\ k \in OwnedBy(old.session)
    BY <1>1, <1>7 DEF Held, OwnedBy
  <2>2. QED
    BY <1>1, <2>1
<1>8. ListTrue(new, table)
  BY <1>1, <1>4, <1>5, <1>6, <1>7 DEF ListTrue
<1>9. QED
  BY <1>8 DEF new

LEMMA ListListKeys ==
  ASSUME SyncInv, ListInv, NEW l \in Loads, ListKeys(l) PROVE ListTrue(load'[l], table)
<1> DEFINE old == load[l]
           new == load'[l]
<1>1. /\ old.phase = "listed" /\ new.phase = "answered" /\ new.session = old.session
      /\ new.since = old.since /\ new.scope = old.scope /\ new.saved = old.saved
      /\ new.full = old.full /\ new.readAt = old.readAt /\ new.rows = old.rows
      /\ new.cursor = old.cursor /\ new.keys = OwnedBy(old.session)
  BY ListKeysFacts
<1>2. ListTrue(old, table)
  BY DEF ListInv
<1> HIDE DEF old, new
<1>3. Listed(old) /\ Listed(new) /\ (Delta(new) <=> Delta(old))
  BY <1>1 DEF Delta, Listed
<1>4. \A k \in Held(table) : table[k].owner = new.session => k \in new.keys
  BY <1>1 DEF Held, OwnedBy
<1>5. ListTrue(new, table)
  BY <1>1, <1>2, <1>3, <1>4 DEF ListTrue
<1>6. QED
  BY <1>5 DEF new

LEMMA ListStep == SyncInv /\ TimeInv /\ ListInv /\ [Next]_vars => ListInv'
<1> SUFFICES ASSUME SyncInv, TimeInv, ListInv, [Next]_vars PROVE ListInv'
  OBVIOUS
<1>1. CASE Calm
  BY <1>1, Growth, ListStands DEF Calm
<1>2. ASSUME NEW k \in Keys, NEW row \in Row \cup {None}, Written(k, row) PROVE ListInv'
  BY <1>2, Growth, ListStands DEF Written
<1>3. ASSUME NEW w \in Writes, ExecuteWrite(w) PROVE ListInv'
  <2>1. PICK row : Written(write[w].key, row) /\ write[w].key \in Keys
    BY <1>3, ExecuteWriteFacts
  <2>2. row \in Row \cup {None}
    BY <2>1 DEF Written
  <2>3. QED
    BY <1>2, <2>1, <2>2
<1>4. ASSUME NEW w \in Writes, RefuseWrite(w) PROVE ListInv'
  BY <1>4, Growth, SameStill, ListStands DEF RefuseWrite, serverVars
<1>5. ASSUME NEW w \in Writes, Commit(w) PROVE ListInv'
  BY <1>5, Growth, CommitFacts, ListStands
<1>6. ASSUME NEW l \in Loads, LoadModel(l) \/ ListRows(l) \/ ListKeys(l) PROVE ListInv'
  <2>1. ListTrue(load'[l], table)
    BY <1>6, ListLoadModel, ListListRows, ListListKeys
  <2>2. table' = table /\ \A m \in Loads \ {l} : load'[m] = load[m]
    BY <1>6, LoadModelFacts, ListRowsFacts, ListKeysFacts DEF ListsOnly
  <2>3. QED
    BY <2>1, <2>2 DEF ListInv
<1>7. ASSUME NEW l \in Loads, ReceiveList(l) PROVE ListInv'
  <2>1. table' = table /\ load'[l].phase = "idle" /\ \A m \in Loads \ {l} : load'[m] = load[m]
    BY <1>7, ReceiveListFacts
  <2>2. ListTrue(load'[l], table)
    BY <2>1 DEF ListTrue, Listed
  <2>3. QED
    BY <2>1, <2>2 DEF ListInv
<1>8. CASE NewSession
  BY <1>8, Growth, ListStands DEF NewSession
<1>9. QED
  BY <1>1, <1>2, <1>3, <1>4, <1>5, <1>6, <1>7, <1>8, Kinds

(* The answer of a write is the row of its key, until a later write.       *)
AnswerTrue(r, tab) ==
  r.phase = "answered" /\ r.answer \in (IF r.op = "delete" THEN {"stored", "not_found"} ELSE {"stored"}) =>
    (r.key \in Held(tab) /\ tab[r.key].owner = r.session /\ tab[r.key].version <= r.at =>
       r.row = tab[r.key])

AnswerInv == \A w \in Writes : AnswerTrue(write[w], table)

LEMMA AnswerStands ==
  ASSUME SyncInv, TimeInv, AnswerInv, Grown, NEW w \in Writes,
         write'[w].phase = "answered" => write'[w] = write[w]
  PROVE  AnswerTrue(write'[w], table')
<1>1. CASE write'[w].phase = "answered"
  <2>1. /\ write'[w] = write[w] /\ AnswerTrue(write[w], table)
        /\ write[w].at <= written /\ write[w].at \in Nat /\ written \in Nat
    BY <1>1, Numbers DEF AnswerInv, TimeInv
  <2>2. QED
    BY <2>1 DEF AnswerTrue, Grown
<1>2. CASE write'[w].phase # "answered"
  BY <1>2 DEF AnswerTrue
<1>3. QED
  BY <1>1, <1>2

LEMMA AnswersTrueStep == SyncInv /\ TimeInv /\ AnswerInv /\ [Next]_vars => AnswerInv'
<1> SUFFICES ASSUME SyncInv, TimeInv, AnswerInv, [Next]_vars PROVE AnswerInv'
  OBVIOUS
<1>0. ASSUME Grown, AnswersStand PROVE AnswerInv'
  BY <1>0, AnswerStands DEF AnswersStand, AnswerInv
<1>1. CASE Calm
  BY <1>0, <1>1, Growth DEF Calm
<1>2. ASSUME NEW k \in Keys, NEW row \in Row \cup {None}, Written(k, row), AnswersStand
      PROVE  AnswerInv'
  BY <1>0, <1>2, Growth
<1>3. ASSUME NEW w \in Writes, ExecuteWrite(w) PROVE AnswerInv'
  <2>1. PICK row : /\ Written(write[w].key, row) /\ write[w].key \in Keys
                   /\ Answer(w, "stored", row, written + 1)
    BY <1>3, ExecuteWriteFacts
  <2>2. /\ write'[w].row = row /\ write'[w].key = write[w].key
        /\ \A v \in Writes \ {w} : write'[v] = write[v]
    BY <2>1, AnswerFacts
  <2>3. row \in Row \cup {None} /\ table' = [table EXCEPT ![write[w].key] = row]
    BY <2>1 DEF Written
  <2>4. table'[write[w].key] = row
    BY <2>1, <2>3 DEF SyncInv, ServerInv, Rows
  <2>5. AnswerTrue(write'[w], table')
    BY <2>2, <2>4 DEF AnswerTrue
  <2>6. Grown
    BY <2>1, <2>3, Growth
  <2>7. \A v \in Writes \ {w} : AnswerTrue(write'[v], table')
    BY <2>2, <2>6, AnswerStands
  <2>8. QED
    BY <2>5, <2>7 DEF AnswerInv
<1>4. ASSUME NEW w \in Writes, RefuseWrite(w) PROVE AnswerInv'
  <2>1. PICK answer : /\ Answer(w, answer, None, written)
                      /\ answer = IF write[w].op # "insert" /\ write[w].key \notin OwnedBy(write[w].session)
                                    THEN "not_found" ELSE "refused"
    BY <1>4 DEF RefuseWrite
  <2>2. /\ write'[w].answer = answer /\ write'[w].key = write[w].key
        /\ write'[w].session = write[w].session
        /\ \A v \in Writes \ {w} : write'[v] = write[v]
    BY <2>1, AnswerFacts
  <2>3. table' = table
    BY <1>4 DEF RefuseWrite, serverVars
  <2>4. AnswerTrue(write'[w], table)
    BY <2>1, <2>2 DEF AnswerTrue, Held, OwnedBy
  <2>5. QED
    BY <2>2, <2>3, <2>4 DEF AnswerInv
<1>5. ASSUME NEW w \in Writes, Commit(w) PROVE AnswerInv'
  BY <1>0, <1>5, Growth, CommitFacts
<1>6. ASSUME NEW l \in Loads, LoadModel(l) \/ ListRows(l) \/ ListKeys(l) PROVE AnswerInv'
  <2>1. table' = table /\ write' = write
    BY <1>6, LoadModelFacts, ListRowsFacts, ListKeysFacts DEF ListsOnly
  <2>2. QED
    BY <2>1 DEF AnswerInv
<1>7. ASSUME NEW l \in Loads, ReceiveList(l) PROVE AnswerInv'
  BY <1>7, ReceiveListFacts DEF AnswerInv
<1>8. CASE NewSession
  BY <1>0, <1>8, Growth DEF NewSession
<1>9. QED
  BY <1>1, <1>2, <1>3, <1>4, <1>5, <1>6, <1>7, <1>8, Kinds

-----------------------------------------------------------------------------
(* What a client does not know yet is stamped past its floors              *)

(* Whatever is written after the read of a list, or after the execution of *)
(* a write, whose answer is on its way is stamped at or past f.            *)
FloorOK(f, tab, ld, wr) ==
  f # None =>
    /\ \A k \in Held(tab), l \in Loads :
         Listed(ld[l]) /\ tab[k].version > ld[l].readAt => tab[k].stamp >= f
    /\ \A k \in Held(tab), w \in Writes :
         wr[w].phase = "answered" /\ tab[k].version > wr[w].at => tab[k].stamp >= f

(* The list asks for the changes since a cursor that was saved.            *)
FromDisk(r, gen) == r.phase # "idle" /\ r.generation = gen /\ r.saved # None

FloorInv ==
  /\ scope = None /\ saved # None => FloorOK(saved.cursor, table, load, write)
  /\ \A l \in Loads :
       FromDisk(load[l], generation) => FloorOK(load[l].since, table, load, write)

(* Answers that appear were read, or executed, last.                       *)
Latest ==
  /\ \A l \in Loads : Listed(load'[l]) =>
       load'[l].readAt = written \/ (Listed(load[l]) /\ load'[l].readAt = load[l].readAt)
  /\ \A w \in Writes : write'[w].phase = "answered" =>
       \/ write'[w].at = written
       \/ write'[w].at = written + 1
       \/ write[w].phase = "answered" /\ write'[w].at = write[w].at

LEMMA FloorKept ==
  ASSUME SyncInv, TimeInv, Grown, Latest, NEW f \in Cursor, Past(f),
         FloorOK(f, table, load, write)
  PROVE  FloorOK(f, table', load', write')
<1>1. clock \in Nat /\ written \in Nat
  BY Numbers
<1>2. SUFFICES ASSUME f # None, NEW k \in Held(table')
               PROVE  /\ \A l \in Loads : Listed(load'[l]) /\ table'[k].version > load'[l].readAt =>
                           table'[k].stamp >= f
                      /\ \A w \in Writes :
                           write'[w].phase = "answered" /\ table'[k].version > write'[w].at =>
                             table'[k].stamp >= f
  BY DEF FloorOK
<1>3. f \in Nat /\ f <= clock
  BY <1>2 DEF Cursor, Past
<1>4. CASE table'[k].stamp = clock
  BY <1>1, <1>3, <1>4
<1>5. CASE k \in Held(table) /\ table'[k] = table[k]
  <2>1. table[k].version \in Nat /\ table[k].version <= written
    BY <1>5, Numbers DEF TimeInv
  <2>2. ASSUME NEW l \in Loads, Listed(load'[l]), table[k].version > load'[l].readAt
        PROVE  table[k].stamp >= f
    <3>1. CASE Listed(load[l]) /\ load'[l].readAt = load[l].readAt
      BY <1>2, <1>5, <2>2, <3>1 DEF FloorOK
    <3>2. CASE load'[l].readAt = written
      BY <1>1, <2>1, <2>2, <3>2
    <3>3. QED
      BY <2>2, <3>1, <3>2 DEF Latest
  <2>3. ASSUME NEW w \in Writes, write'[w].phase = "answered", table[k].version > write'[w].at
        PROVE  table[k].stamp >= f
    <3>1. CASE write[w].phase = "answered" /\ write'[w].at = write[w].at
      BY <1>2, <1>5, <2>3, <3>1 DEF FloorOK
    <3>2. CASE write'[w].at = written \/ write'[w].at = written + 1
      BY <1>1, <2>1, <2>3, <3>2
    <3>3. QED
      BY <2>3, <3>1, <3>2 DEF Latest
  <2>4. QED
    BY <1>5, <2>2, <2>3
<1>6. QED
  BY <1>4, <1>5 DEF Grown

LEMMA FloorStands ==
  ASSUME SyncInv, TimeInv, FloorInv, Grown, Latest,
         scope' = None => scope = None /\ saved' = saved,
         \A l \in Loads : FromDisk(load'[l], generation') =>
           \/ FromDisk(load[l], generation) /\ load'[l].since = load[l].since
           \/ scope = None /\ saved # None /\ load'[l].since = saved.cursor
  PROVE  FloorInv'
<1>1. scope = None /\ saved # None => FloorOK(saved.cursor, table', load', write')
  BY Numbers, FloorKept DEF FloorInv, TimeInv
<1>2. ASSUME NEW l \in Loads, FromDisk(load[l], generation)
      PROVE  FloorOK(load[l].since, table', load', write')
  <2>1. load[l].since \in Cursor /\ Past(load[l].since)
    BY <1>2, Numbers DEF TimeInv, ListPast, FromDisk
  <2>2. FloorOK(load[l].since, table, load, write)
    BY <1>2 DEF FloorInv
  <2>3. QED
    BY <2>1, <2>2, FloorKept
<1>3. \A l \in Loads :
        FromDisk(load'[l], generation') => FloorOK(load'[l].since, table', load', write')
  BY <1>1, <1>2
<1>4. scope' = None /\ saved' # None => FloorOK(saved'.cursor, table', load', write')
  BY <1>1
<1>5. QED
  BY <1>3, <1>4 DEF FloorInv

(* Where the store stands, and the requests too, so do the floors.         *)
LEMMA FloorRests ==
  ASSUME SyncInv, TimeInv, FloorInv, Grown, StoreStands, ListsStand,
         \A w \in Writes : write'[w].phase = "answered" =>
           \/ write'[w].at = written
           \/ write'[w].at = written + 1
           \/ write[w].phase = "answered" /\ write'[w].at = write[w].at
  PROVE  FloorInv'
<1>1. \A l \in Loads : Listed(load'[l]) => Listed(load[l]) /\ load'[l].readAt = load[l].readAt
  BY DEF ListsStand, Still, Listed
<1>2. Latest
  BY <1>1 DEF Latest
<1>3. \A l \in Loads : FromDisk(load'[l], generation') =>
        FromDisk(load[l], generation) /\ load'[l].since = load[l].since
  BY DEF ListsStand, Still, FromDisk, StoreStands
<1>4. QED
  BY <1>2, <1>3, FloorStands DEF StoreStands

LEMMA FloorLists ==
  ASSUME SyncInv, TimeInv, FloorInv, NEW l \in Loads, LoadModel(l) \/ ListRows(l) \/ ListKeys(l)
  PROVE  FloorInv'
<1>1. ListsOnly /\ \A m \in Loads \ {l} : load'[m] = load[m]
  BY LoadModelFacts, ListRowsFacts, ListKeysFacts
<1>2. Grown
  BY <1>1, Growth DEF ListsOnly
<1>3. \/ ~Listed(load'[l])
      \/ load'[l].readAt = written
      \/ Listed(load[l]) /\ load'[l].readAt = load[l].readAt
  BY LoadModelFacts, ListRowsFacts, ListKeysFacts DEF Listed
<1>4. \/ /\ load[l].phase # "idle" /\ load'[l].since = load[l].since
         /\ load'[l].saved = load[l].saved /\ load'[l].generation = load[l].generation
      \/ scope = None /\ saved # None /\ load'[l].since = saved.cursor
      \/ load'[l].saved = None
  BY LoadModelFacts, ListRowsFacts, ListKeysFacts
<1>5. Latest
  BY <1>1, <1>3 DEF Latest, ListsOnly
<1>6. \A m \in Loads : FromDisk(load'[m], generation') =>
        \/ FromDisk(load[m], generation) /\ load'[m].since = load[m].since
        \/ scope = None /\ saved # None /\ load'[m].since = saved.cursor
  BY <1>1, <1>4 DEF FromDisk, ListsOnly, StoreStands
<1>7. QED
  BY <1>1, <1>2, <1>5, <1>6, FloorStands DEF ListsOnly, StoreStands

LEMMA FloorSession ==
  ASSUME SyncInv, TimeInv, FloorInv, NewSession PROVE FloorInv'
<1>1. \A l \in Loads : ~FromDisk(load'[l], generation')
  BY DEF NewSession, FromDisk
<1>2. ASSUME saved' # None PROVE FloorOK(saved'.cursor, table', load', write')
  BY <1>2 DEF NewSession, FloorOK, Listed
<1>3. QED
  BY <1>1, <1>2 DEF FloorInv

LEMMA FloorStep == SyncInv /\ TimeInv /\ FloorInv /\ [Next]_vars => FloorInv'
<1> SUFFICES ASSUME SyncInv, TimeInv, FloorInv, [Next]_vars PROVE FloorInv'
  OBVIOUS
<1>1. CASE Calm
  BY <1>1, Growth, FloorRests DEF Calm, AnswersStand
<1>2. ASSUME NEW k \in Keys, NEW row \in Row \cup {None}, Written(k, row), AnswersStand
      PROVE  FloorInv'
  BY <1>2, Growth, FloorRests DEF Written, AnswersStand
<1>3. ASSUME NEW w \in Writes, ExecuteWrite(w) PROVE FloorInv'
  <2>1. PICK row : /\ Written(write[w].key, row) /\ write[w].key \in Keys
                   /\ Answer(w, "stored", row, written + 1)
    BY <1>3, ExecuteWriteFacts
  <2>2. row \in Row \cup {None} /\ StoreStands /\ ListsStand
    BY <2>1 DEF Written
  <2>3. write'[w].at = written + 1 /\ \A v \in Writes \ {w} : write'[v] = write[v]
    BY <2>1, AnswerFacts
  <2>4. Grown
    BY <2>1, <2>2, Growth
  <2>5. QED
    BY <2>2, <2>3, <2>4, FloorRests
<1>4. ASSUME NEW w \in Writes, RefuseWrite(w) PROVE FloorInv'
  <2>1. \E answer : Answer(w, answer, None, written)
    BY <1>4 DEF RefuseWrite
  <2>2. write'[w].at = written /\ \A v \in Writes \ {w} : write'[v] = write[v]
    BY <2>1, AnswerFacts
  <2>3. StoreStands /\ ListsStand /\ table' = table
    BY <1>4, SameStill DEF RefuseWrite, StoreStands, serverVars, storeVars, ghosts
  <2>4. QED
    BY <2>2, <2>3, Growth, FloorRests
<1>5. ASSUME NEW w \in Writes, Commit(w) PROVE FloorInv'
  <2>1. /\ UNCHANGED <<table, generation, scope>> /\ ListsStand /\ AnswersStand
        /\ scope = None => saved' = saved
    BY <1>5, CommitFacts
  <2>2. Latest
    BY <2>1 DEF Latest, ListsStand, Still, Listed, AnswersStand
  <2>3. \A l \in Loads : FromDisk(load'[l], generation') =>
          FromDisk(load[l], generation) /\ load'[l].since = load[l].since
    BY <2>1 DEF ListsStand, Still, FromDisk
  <2>4. QED
    BY <2>1, <2>2, <2>3, Growth, FloorStands
<1>6. ASSUME NEW l \in Loads, LoadModel(l) \/ ListRows(l) \/ ListKeys(l) PROVE FloorInv'
  BY <1>6, FloorLists
<1>7. ASSUME NEW l \in Loads, ReceiveList(l) PROVE FloorInv'
  <2>1. /\ UNCHANGED <<table, generation, write>> /\ scope' # None
        /\ load'[l].phase = "idle" /\ \A m \in Loads \ {l} : load'[m] = load[m]
    BY <1>7, ReceiveListFacts
  <2>2. Latest
    BY <2>1 DEF Latest, Listed
  <2>3. \A m \in Loads : FromDisk(load'[m], generation') =>
          FromDisk(load[m], generation) /\ load'[m].since = load[m].since
    BY <2>1 DEF FromDisk
  <2>4. QED
    BY <2>1, <2>2, <2>3, Growth, FloorStands
<1>8. CASE NewSession
  BY <1>8, FloorSession
<1>9. QED
  BY <1>1, <1>2, <1>3, <1>4, <1>5, <1>6, <1>7, <1>8, Kinds

-----------------------------------------------------------------------------
(* What a cursor is worth                                                  *)

(* The store has the rows of the account not written since the newest read *)
(* that was applied.                                                       *)
Known(rows, tab, ses, new) ==
  \A k \in Held(tab) : tab[k].owner = ses /\ tab[k].version <= new => rows[k] = tab[k]

(* The rows written since are stamped at or past the cursor.               *)
Ahead(cur, tab, ses, new) ==
  \A k \in Held(tab) :
    tab[k].owner = ses /\ tab[k].version > new => cur = None \/ tab[k].stamp >= cur

(* What is saved has the rows stamped before the cursor saved with it.     *)
DiskTrue(sv, tab) ==
  sv # None /\ sv.cursor # None =>
    \A k \in Held(tab) :
      tab[k].owner = sv.scope /\ tab[k].stamp < sv.cursor => sv.rows[k] = tab[k]

(* Seeding does not prefer an older row of the store to a saved one.       *)
Beside(sv, rows, tab, ses) ==
  sv # None /\ sv.cursor # None /\ sv.scope = ses =>
    \A k \in Held(tab) :
      tab[k].owner = ses /\ tab[k].stamp < sv.cursor => rows[k] \in {None, tab[k]}

(* What a delta will not bring, written since the newest read, it carries  *)
(* in the rows it will be seeded with.                                     *)
Carried(r, rows, tab, ses, new) ==
  \A k \in Held(tab) :
    tab[k].owner = ses /\ tab[k].version > new /\ tab[k].stamp < r.since =>
      /\ r.saved # None /\ r.saved.scope = ses /\ r.saved.rows[k] = tab[k]
      /\ rows[k] \in {None, tab[k]}

Current(r, gen) == r.phase # "idle" /\ r.generation = gen /\ Delta(r)

Snapshot ==
  /\ Known(confirmed, table, session, newest)
  /\ Ahead(cursor, table, session, newest)
  /\ DiskTrue(saved, table)
  /\ scope = None => Beside(saved, confirmed, table, session)
  /\ \A l \in Loads :
       Current(load[l], generation) => Carried(load[l], confirmed, table, session, newest)

SnapInv == ~overtaken => Snapshot

LEMMA SnapGrown ==
  ASSUME SyncInv, TimeInv, Grown
  PROVE  /\ Known(confirmed, table, session, newest) => Known(confirmed, table', session, newest)
         /\ Ahead(cursor, table, session, newest) => Ahead(cursor, table', session, newest)
         /\ DiskTrue(saved, table) => DiskTrue(saved, table')
         /\ Beside(saved, confirmed, table, session) => Beside(saved, confirmed, table', session)
<1>1. clock \in Nat /\ written \in Nat /\ newest \in Nat /\ newest <= written /\ cursor \in Cursor
      /\ Past(cursor) /\ (saved # None => saved.cursor \in Cursor /\ Past(saved.cursor))
  BY Numbers DEF TimeInv
<1>2. Known(confirmed, table, session, newest) => Known(confirmed, table', session, newest)
  BY <1>1 DEF Known, Grown
<1>3. Ahead(cursor, table, session, newest) => Ahead(cursor, table', session, newest)
  BY <1>1 DEF Ahead, Grown, Past, Cursor
<1>4. DiskTrue(saved, table) => DiskTrue(saved, table')
  BY <1>1 DEF DiskTrue, Grown, Past, Cursor
<1>5. Beside(saved, confirmed, table, session) => Beside(saved, confirmed, table', session)
  BY <1>1 DEF Beside, Grown, Past, Cursor
<1>6. QED
  BY <1>2, <1>3, <1>4, <1>5

LEMMA CarriedGrown ==
  ASSUME SyncInv, TimeInv, Grown, NEW l \in Loads, Current(load[l], generation),
         Carried(load[l], confirmed, table, session, newest)
  PROVE  Carried(load[l], confirmed, table', session, newest)
<1>1. clock \in Nat /\ load[l].since \in Cursor /\ Past(load[l].since) /\ load[l].since # None
  BY Numbers DEF TimeInv, ListPast, Current, Delta
<1>2. QED
  BY <1>1 DEF Carried, Grown, Past, Cursor

LEMMA SnapRests ==
  ASSUME SyncInv, TimeInv, SnapInv, Grown, StoreStands, ListsStand PROVE SnapInv'
<1> SUFFICES ASSUME ~overtaken' PROVE Snapshot'
  BY DEF SnapInv
<1>1. Snapshot /\ UNCHANGED <<session, generation, confirmed, cursor, scope, saved, newest>>
  BY DEF SnapInv, StoreStands
<1>2. ASSUME NEW l \in Loads, Current(load'[l], generation')
      PROVE  Carried(load'[l], confirmed, table', session, newest)
  <2>1. Still(load'[l], load[l])
    BY <1>2 DEF ListsStand, Current
  <2>2. Current(load[l], generation)
    BY <1>1, <1>2, <2>1 DEF Current, Delta, Still
  <2>3. Carried(load[l], confirmed, table', session, newest)
    BY <1>1, <2>2, CarriedGrown DEF Snapshot
  <2>4. QED
    BY <2>1, <2>3 DEF Carried, Still
<1>3. QED
  BY <1>1, <1>2, SnapGrown DEF Snapshot

(* A list that starts from what is saved carries it; one that starts from  *)
(* the store's cursor misses nothing.                                      *)
LEMMA SnapLoadModel ==
  ASSUME SyncInv, TimeInv, Snapshot, NEW l \in Loads, LoadModel(l), Delta(load'[l])
  PROVE  Carried(load'[l], confirmed, table, session, newest)
<1>1. load'[l].session = session /\ session \in Accounts
  BY LoadModelFacts DEF SyncInv, SessionInv
<1>2. CASE /\ scope = None /\ saved # None /\ load'[l].saved = saved
           /\ load'[l].since = saved.cursor /\ load'[l].scope = saved.scope
  <2>1. saved.scope = session /\ saved.cursor # None
    BY <1>1, <1>2, NoneAssumption DEF Delta, SyncInv, StoreInv, Saved
  <2>2. QED
    BY <1>2, <2>1 DEF Snapshot, DiskTrue, Beside, Carried
<1>3. CASE load'[l].since = cursor
  <2>1. cursor # None /\ cursor \in Nat
    BY <1>3, Numbers DEF Delta, Cursor
  <2>2. \A k \in Held(table) : table[k].stamp \in Nat
    BY Numbers
  <2>3. QED
    BY <1>3, <2>1, <2>2 DEF Snapshot, Ahead, Carried
<1>4. QED
  BY <1>2, <1>3, LoadModelFacts

LEMMA SnapLists ==
  ASSUME SyncInv, TimeInv, SnapInv, NEW l \in Loads, LoadModel(l) \/ ListRows(l) \/ ListKeys(l)
  PROVE  SnapInv'
<1> SUFFICES ASSUME ~overtaken' PROVE Snapshot'
  BY DEF SnapInv
<1>1. /\ UNCHANGED <<table, session, generation, confirmed, cursor, scope, saved, newest>>
      /\ \A m \in Loads \ {l} : load'[m] = load[m]
      /\ overtaken' = overtaken
  BY LoadModelFacts, ListRowsFacts, ListKeysFacts DEF ListsOnly, StoreStands
<1>2. Snapshot
  BY <1>1 DEF SnapInv
<1>3. ASSUME Current(load'[l], generation) PROVE Carried(load'[l], confirmed, table, session, newest)
  <2>1. CASE LoadModel(l)
    BY <1>2, <1>3, <2>1, SnapLoadModel DEF Current
  <2>2. CASE ListRows(l) \/ ListKeys(l)
    <3>1. /\ load[l].phase # "idle" /\ load'[l].since = load[l].since
          /\ load'[l].scope = load[l].scope /\ load'[l].saved = load[l].saved
          /\ load'[l].session = load[l].session /\ load'[l].generation = load[l].generation
      BY <2>2, ListRowsFacts, ListKeysFacts
    <3>2. Current(load[l], generation)
      BY <1>3, <3>1 DEF Current, Delta
    <3>3. Carried(load[l], confirmed, table, session, newest)
      BY <1>2, <3>2 DEF Snapshot
    <3>4. QED
      BY <3>1, <3>3 DEF Carried
  <2>3. QED
    BY <2>1, <2>2
<1>4. QED
  BY <1>1, <1>2, <1>3 DEF Snapshot

(* The row of an answer that no list has overtaken is the server's, or     *)
(* has been written since.                                                 *)
LEMMA SnapCommit ==
  ASSUME SyncInv, TimeInv, SnapInv, AnswerInv, FloorInv, NEW w \in Writes, Commit(w)
  PROVE  SnapInv'
<1> SUFFICES ASSUME ~overtaken' PROVE Snapshot'
  BY DEF SnapInv
<1> DEFINE me == write[w]
<1>1. /\ me.phase = "answered" /\ Succeeded(w) /\ me.session = session /\ me.key \in Keys
      /\ UNCHANGED <<table, session, generation, cursor, scope, newest>>
      /\ ~overtaken /\ ~(me.at < newest)
      /\ confirmed' = [confirmed EXCEPT ![me.key] = me.row]
      /\ IF scope = None THEN saved' = saved
         ELSE saved' = [rows |-> confirmed', cursor |-> cursor, scope |-> session]
      /\ ListsStand
  BY CommitFacts
<1>2. Snapshot /\ confirmed \in Rows
  BY <1>1 DEF SnapInv, SyncInv, StoreInv
<1>3. me.at \in Nat /\ newest \in Nat /\ \A k \in Held(table) : table[k].version \in Nat /\ table[k].stamp \in Nat
  BY Numbers DEF TimeInv
<1>4. AnswerTrue(me, table)
  BY DEF AnswerInv
<1>5. me.key \in Held(table) /\ table[me.key].owner = session /\ table[me.key].version <= me.at
        => me.row = table[me.key]
  BY <1>1, <1>4 DEF AnswerTrue, Succeeded
<1>6. ASSUME NEW f, f # None, FloorOK(f, table, load, write), me.key \in Held(table),
             table[me.key].version > me.at
      PROVE  table[me.key].stamp >= f
  BY <1>1, <1>6 DEF FloorOK
<1> HIDE DEF me
<1>7. \A k \in Keys : confirmed'[k] = IF k = me.key THEN me.row ELSE confirmed[k]
  BY <1>1, <1>2 DEF Rows
<1>8. Known(confirmed', table, session, newest)
  BY <1>1, <1>2, <1>3, <1>5, <1>7 DEF Snapshot, Known, Held
<1>9. Ahead(cursor, table, session, newest)
  BY <1>2 DEF Snapshot
<1>10. DiskTrue(saved', table)
  <2>1. CASE scope = None
    BY <1>1, <1>2, <2>1 DEF Snapshot
  <2>2. CASE scope # None
    <3>1. saved'.rows = confirmed' /\ saved'.cursor = cursor /\ saved'.scope = session
      BY <1>1, <2>2
    <3>2. cursor \in Cursor
      BY Numbers
    <3>3. QED
      BY <1>3, <1>8, <1>9, <3>1, <3>2 DEF DiskTrue, Known, Ahead, Cursor
  <2>3. QED
    BY <2>1, <2>2
<1>11. ASSUME scope = None PROVE Beside(saved, confirmed', table, session)
  <2>1. Beside(saved, confirmed, table, session)
    BY <1>2, <1>11 DEF Snapshot
  <2>2. ASSUME saved # None, saved.cursor # None, me.key \in Held(table),
               table[me.key].version > me.at
        PROVE  table[me.key].stamp >= saved.cursor
    BY <1>6, <1>11, <2>2 DEF FloorInv
  <2>3. saved # None => saved.cursor \in Cursor
    BY Numbers
  <2>4. QED
    BY <1>3, <1>5, <1>7, <2>1, <2>2, <2>3 DEF Beside, Held, Cursor
<1>12. ASSUME NEW l \in Loads, Current(load'[l], generation')
       PROVE  Carried(load'[l], confirmed', table, session, newest)
  <2>1. Still(load'[l], load[l])
    BY <1>1, <1>12 DEF ListsStand, Current
  <2>2. Current(load[l], generation)
    BY <1>1, <1>12, <2>1 DEF Current, Delta, Still
  <2>3. Carried(load[l], confirmed, table, session, newest)
    BY <1>2, <2>2 DEF Snapshot
  <2>4. load[l].since \in Nat /\ load[l].since # None
    BY <2>2, Numbers DEF Current, Delta, Cursor
  <2>5. ASSUME load[l].saved # None, me.key \in Held(table), table[me.key].version > me.at
        PROVE  table[me.key].stamp >= load[l].since
    <3>1. FloorOK(load[l].since, table, load, write)
      BY <2>2, <2>5 DEF FloorInv, FromDisk, Current
    <3>2. QED
      BY <1>6, <2>4, <2>5, <3>1
  <2>6. Carried(load[l], confirmed', table, session, newest)
    BY <1>3, <1>5, <1>7, <2>3, <2>4, <2>5 DEF Carried, Held
  <2>7. QED
    BY <2>1, <2>6 DEF Carried, Still
<1>13. QED
  BY <1>1, <1>8, <1>9, <1>10, <1>11, <1>12 DEF Snapshot

(* An applied list brings the rows up to its read; its delta finds the     *)
(* rest in the store, or in the rows it carries.                           *)
LEMMA ReceivedKnown ==
  ASSUME SyncInv, TimeInv, Snapshot, ListInv, NEW l \in Loads, ReceiveList(l),
         ~(load[l].readAt < newest),
         NEW k \in Held(table), table[k].owner = session, table[k].version <= load[l].readAt
  PROVE  confirmed'[k] = table[k]
<1> DEFINE me == load[l]
<1>1. /\ me.phase = "answered" /\ me.generation = generation /\ me.session = session
      /\ table[k].owner = session /\ table[k].version <= me.readAt
  BY ReceiveListFacts
<1>2. ListTrue(me, table) /\ Listed(me)
  BY <1>1 DEF ListInv, Listed
<1>3. /\ k \in Keys /\ table[k] # None
      /\ confirmed'[k] = IF Pruned(k, me) THEN None
                         ELSE IF me.rows[k] # None THEN me.rows[k]
                         ELSE IF me.full THEN None ELSE Seed(me)[k]
  BY ReceivedRow DEF Held
<1>4. me.readAt \in Nat /\ newest \in Nat /\ table[k].version \in Nat /\ table[k].stamp \in Nat
      /\ me.since \in Cursor
  BY Numbers DEF TimeInv
<1>5. Current(me, generation) => Carried(me, confirmed, table, session, newest)
  BY DEF Snapshot
<1>6. Known(confirmed, table, session, newest)
  BY DEF Snapshot
<1>7. Seed(me)[k] = IF me.saved # None /\ ~me.full /\ me.session = me.saved.scope
                      THEN IF confirmed[k] # None THEN confirmed[k] ELSE me.saved.rows[k]
                      ELSE confirmed[k]
  BY <1>3 DEF Seed
<1> HIDE DEF me
<1>8. me.full = ~Delta(me)
  BY <1>2 DEF ListTrue
<1>9. ~Pruned(k, me)
  BY <1>1, <1>2 DEF Pruned, ListTrue
<1>10. CASE me.full \/ table[k].stamp >= me.since
  BY <1>1, <1>2, <1>3, <1>9, <1>10 DEF ListTrue
<1>11. CASE ~me.full /\ table[k].stamp < me.since
  <2>0. Delta(me)
    BY <1>8, <1>11
  <2>1. me.since \in Nat /\ ~(table[k].stamp >= me.since) /\ Current(me, generation)
    <3>1. me.since \in Nat
      BY <1>4, <2>0 DEF Delta, Cursor
    <3>2. QED
      BY <1>1, <1>4, <1>11, <2>0, <3>1 DEF Current
  <2>2. me.rows[k] = None
    BY <1>1, <1>2, <1>11, <2>1 DEF ListTrue
  <2>3. CASE table[k].version <= newest
    BY <1>3, <1>6, <1>7, <1>9, <1>11, <2>2, <2>3 DEF Known
  <2>4. CASE table[k].version > newest
    <3>1. /\ me.saved # None /\ me.saved.scope = session /\ me.saved.rows[k] = table[k]
          /\ confirmed[k] \in {None, table[k]}
      BY <1>5, <1>11, <2>1, <2>4 DEF Carried
    <3>2. QED
      BY <1>1, <1>3, <1>7, <1>9, <1>11, <2>2, <3>1
  <2>5. QED
    BY <1>4, <2>3, <2>4
<1>12. ~me.full => me.since \in Nat
  BY <1>4, <1>8 DEF Delta, Cursor
<1>13. QED
  BY <1>4, <1>10, <1>11, <1>12

LEMMA SnapReceive ==
  ASSUME SyncInv, TimeInv, SnapInv, ListInv, FloorInv, NEW l \in Loads, ReceiveList(l)
  PROVE  SnapInv'
<1> SUFFICES ASSUME ~overtaken' PROVE Snapshot'
  BY DEF SnapInv
<1> DEFINE me == load[l]
<1>1. /\ me.phase = "answered" /\ me.generation = generation /\ me.session = session
      /\ UNCHANGED <<table, session, generation>> /\ scope' # None
      /\ cursor' = IF me.cursor # None THEN me.cursor ELSE cursor
      /\ newest' = IF me.readAt > newest THEN me.readAt ELSE newest
      /\ ~overtaken /\ ~(me.readAt < newest)
      /\ saved' = [rows |-> confirmed', cursor |-> cursor', scope |-> session]
      /\ load'[l].phase = "idle" /\ \A m \in Loads \ {l} : load'[m] = load[m]
  BY ReceiveListFacts
<1>2. Snapshot /\ ListTrue(me, table) /\ Listed(me)
  BY <1>1 DEF SnapInv, ListInv, Listed
<1>3. /\ me.readAt \in Nat /\ newest \in Nat /\ cursor \in Cursor /\ me.cursor \in Cursor
      /\ \A k \in Held(table) : table[k].version \in Nat /\ table[k].stamp \in Nat
  BY Numbers DEF TimeInv
<1>4. \A k \in Held(table) :
        table[k].owner = session /\ table[k].version <= me.readAt => confirmed'[k] = table[k]
  BY <1>1, <1>2, ReceivedKnown
<1>5. newest' = me.readAt
  BY <1>1, <1>3
<1>6. Known(confirmed', table, session, newest')
  BY <1>4, <1>5 DEF Known
<1>7. Ahead(cursor', table, session, newest')
  BY <1>1, <1>2, <1>3, <1>5 DEF Snapshot, Ahead, ListTrue
<1>8. DiskTrue(saved', table)
  <2>1. saved'.rows = confirmed' /\ saved'.cursor = cursor' /\ saved'.scope = session
    BY <1>1
  <2>2. cursor' \in Cursor
    BY <1>1, <1>3
  <2>3. QED
    BY <1>3, <1>5, <1>6, <1>7, <2>1, <2>2 DEF DiskTrue, Known, Ahead, Cursor
<1>9. ASSUME NEW m \in Loads, Current(load'[m], generation')
      PROVE  Carried(load'[m], confirmed', table, session, newest')
  <2>1. m # l /\ load'[m] = load[m] /\ Current(load[m], generation)
    BY <1>1, <1>9 DEF Current
  <2>2. Carried(load[m], confirmed, table, session, newest)
    BY <1>2, <2>1 DEF Snapshot
  <2>3. load[m].since \in Nat /\ load[m].since # None
    BY <2>1, Numbers DEF Current, Delta, Cursor
  <2>4. ASSUME NEW k \in Held(table), table[k].owner = session, table[k].version > newest',
               table[k].stamp < load[m].since
        PROVE  FALSE
    <3>1. table[k].version > newest /\ table[k].version > me.readAt
      BY <1>1, <1>3, <1>5, <2>4
    <3>2. load[m].saved # None
      BY <2>2, <2>4, <3>1 DEF Carried
    <3>3. FloorOK(load[m].since, table, load, write)
      BY <2>1, <3>2 DEF FloorInv, FromDisk, Current
    <3>4. table[k].stamp >= load[m].since
      BY <1>2, <2>3, <3>1, <3>3 DEF FloorOK
    <3>5. QED
      BY <1>3, <2>3, <2>4, <3>4
  <2>5. QED
    BY <2>1, <2>4 DEF Carried
<1>10. QED
  BY <1>1, <1>6, <1>7, <1>8, <1>9 DEF Snapshot

LEMMA SnapSession ==
  ASSUME SyncInv, TimeInv, SnapInv, NewSession PROVE SnapInv'
<1> SUFFICES ASSUME ~overtaken' PROVE Snapshot'
  BY DEF SnapInv
<1>1. /\ Snapshot /\ table' = table /\ newest' = 0 /\ cursor' = None /\ confirmed' = NoRows
      /\ saved' = None \/ saved' = saved
      /\ \A l \in Loads : ~Current(load'[l], generation')
  BY DEF SnapInv, NewSession, Current
<1>2. \A k \in Held(table) : table[k].version \in 1..written
  BY DEF TimeInv
<1>3. Known(confirmed', table', session', newest')
  BY <1>1, <1>2, Numbers DEF Known
<1>4. Ahead(cursor', table', session', newest')
  BY <1>1 DEF Ahead
<1>5. DiskTrue(saved', table')
  BY <1>1 DEF Snapshot, DiskTrue
<1>6. Beside(saved', confirmed', table', session')
  BY <1>1 DEF Beside, NoRows, Held
<1>7. QED
  BY <1>1, <1>3, <1>4, <1>5, <1>6 DEF Snapshot

LEMMA SnapStep ==
  SyncInv /\ TimeInv /\ ListInv /\ AnswerInv /\ FloorInv /\ SnapInv /\ [Next]_vars => SnapInv'
<1> SUFFICES ASSUME SyncInv, TimeInv, ListInv, AnswerInv, FloorInv, SnapInv, [Next]_vars
             PROVE  SnapInv'
  OBVIOUS
<1>1. CASE Calm
  BY <1>1, Growth, SnapRests DEF Calm
<1>2. ASSUME NEW k \in Keys, NEW row \in Row \cup {None}, Written(k, row) PROVE SnapInv'
  BY <1>2, Growth, SnapRests DEF Written
<1>3. ASSUME NEW w \in Writes, ExecuteWrite(w) PROVE SnapInv'
  <2>1. PICK row : Written(write[w].key, row) /\ write[w].key \in Keys
    BY <1>3, ExecuteWriteFacts
  <2>2. row \in Row \cup {None}
    BY <2>1 DEF Written
  <2>3. QED
    BY <1>2, <2>1, <2>2
<1>4. ASSUME NEW w \in Writes, RefuseWrite(w) PROVE SnapInv'
  <2>1. StoreStands /\ ListsStand /\ table' = table
    BY <1>4, SameStill DEF RefuseWrite, StoreStands, serverVars, storeVars, ghosts
  <2>2. QED
    BY <2>1, Growth, SnapRests
<1>5. ASSUME NEW w \in Writes, Commit(w) PROVE SnapInv'
  BY <1>5, SnapCommit
<1>6. ASSUME NEW l \in Loads, LoadModel(l) \/ ListRows(l) \/ ListKeys(l) PROVE SnapInv'
  BY <1>6, SnapLists
<1>7. ASSUME NEW l \in Loads, ReceiveList(l) PROVE SnapInv'
  BY <1>7, SnapReceive
<1>8. CASE NewSession
  BY <1>8, SnapSession
<1>9. QED
  BY <1>1, <1>2, <1>3, <1>4, <1>5, <1>6, <1>7, <1>8, Kinds

-----------------------------------------------------------------------------
(* A list in silence                                                       *)

(* As long as nothing was written since it was sent, a list reads the      *)
(* table of now, in both its reads, and the client has committed nothing   *)
(* it could not know.                                                      *)
QuietTrue(r, tab, num, rev) ==
  r.quiet /\ r.phase # "idle" =>
    /\ r.revision = rev
    /\ Listed(r) =>
         /\ r.readAt = num
         /\ \A k \in Held(r.rows) : k \in Held(tab) /\ tab[k].owner = r.session
    /\ r.phase = "answered" /\ ~r.full =>
         \A k \in r.keys : k \in Held(tab) /\ tab[k].owner = r.session

QuietInv == \A l \in Loads : QuietTrue(load[l], table, written, revision)

LEMMA QuietRests ==
  ASSUME QuietInv, ListsStand, Noisy \/ UNCHANGED <<table, written, revision>> PROVE QuietInv'
<1>1. ASSUME NEW l \in Loads PROVE QuietTrue(load'[l], table', written', revision')
  <2>1. CASE load'[l].phase = "idle" \/ ~load'[l].quiet
    BY <2>1 DEF QuietTrue
  <2>2. CASE Still(load'[l], load[l]) /\ UNCHANGED <<table, written, revision>>
    <3>1. QuietTrue(load[l], table, written, revision)
      BY DEF QuietInv
    <3>2. QED
      BY <2>2, <3>1 DEF QuietTrue, Still, Listed
  <2>3. QED
    BY <2>1, <2>2 DEF ListsStand, Noisy
<1>2. QED
  BY <1>1 DEF QuietInv

LEMMA QuietLists ==
  ASSUME SyncInv, QuietInv, NEW l \in Loads, LoadModel(l) \/ ListRows(l) \/ ListKeys(l)
  PROVE  QuietInv'
<1>1. /\ UNCHANGED <<table, written, revision>> /\ \A m \in Loads \ {l} : load'[m] = load[m]
  BY LoadModelFacts, ListRowsFacts, ListKeysFacts DEF ListsOnly, StoreStands
<1>2. QuietTrue(load[l], table, written, revision)
  BY DEF QuietInv
<1>3. QuietTrue(load'[l], table, written, revision)
  <2>1. CASE LoadModel(l)
    BY <2>1, LoadModelFacts DEF QuietTrue, Listed
  <2>2. CASE ListRows(l)
    <3>1. /\ load[l].phase = "sent" /\ Listed(load'[l]) /\ load'[l].readAt = written
          /\ load'[l].revision = load[l].revision /\ load'[l].quiet = load[l].quiet
          /\ load'[l].session = load[l].session
          /\ load'[l].phase = "answered" => load'[l].full
          /\ \A k \in Keys : load'[l].rows[k] # None => k \in OwnedBy(load[l].session)
      BY <2>2, ListRowsFacts
    <3>2. QED
      BY <1>2, <3>1 DEF QuietTrue, Held, OwnedBy
  <2>3. CASE ListKeys(l)
    <3>1. /\ load[l].phase = "listed" /\ load'[l].phase = "answered"
          /\ load'[l].readAt = load[l].readAt /\ load'[l].rows = load[l].rows
          /\ load'[l].revision = load[l].revision /\ load'[l].quiet = load[l].quiet
          /\ load'[l].session = load[l].session
          /\ load'[l].keys = OwnedBy(load[l].session)
      BY <2>3, ListKeysFacts
    <3>2. QED
      BY <1>2, <3>1 DEF QuietTrue, Listed, Held, OwnedBy
  <2>4. QED
    BY <2>1, <2>2, <2>3
<1>4. QED
  BY <1>1, <1>3 DEF QuietInv

LEMMA QuietStep == SyncInv /\ QuietInv /\ [Next]_vars => QuietInv'
<1> SUFFICES ASSUME SyncInv, QuietInv, [Next]_vars PROVE QuietInv'
  OBVIOUS
<1>1. CASE Calm
  BY <1>1, QuietRests DEF Calm, StoreStands
<1>2. ASSUME NEW k \in Keys, NEW row \in Row \cup {None}, Written(k, row) PROVE QuietInv'
  BY <1>2, QuietRests DEF Written
<1>3. ASSUME NEW w \in Writes, ExecuteWrite(w) PROVE QuietInv'
  BY <1>3, ExecuteWriteFacts, QuietRests DEF Written
<1>4. ASSUME NEW w \in Writes, RefuseWrite(w) PROVE QuietInv'
  BY <1>4, SameStill, QuietRests DEF RefuseWrite, serverVars, storeVars
<1>5. ASSUME NEW w \in Writes, Commit(w) PROVE QuietInv'
  BY <1>5, CommitFacts, QuietRests
<1>6. ASSUME NEW l \in Loads, LoadModel(l) \/ ListRows(l) \/ ListKeys(l) PROVE QuietInv'
  BY <1>6, QuietLists
<1>7. ASSUME NEW l \in Loads, ReceiveList(l) PROVE QuietInv'
  <2>1. /\ UNCHANGED <<table, written, revision>> /\ load'[l].phase = "idle"
        /\ \A m \in Loads \ {l} : load'[m] = load[m]
    BY <1>7, ReceiveListFacts
  <2>2. QED
    BY <2>1 DEF QuietInv, QuietTrue
<1>8. CASE NewSession
  BY <1>8, QuietRests DEF NewSession
<1>9. QED
  BY <1>1, <1>2, <1>3, <1>4, <1>5, <1>6, <1>7, <1>8, Kinds

-----------------------------------------------------------------------------
(* Convergence                                                             *)

(* A quiet list brings every row of the account, and drops every other:    *)
(* no commit is newer than the list.                                       *)
LEMMA ConvergeReceive ==
  ASSUME SyncInv, TimeInv, SnapInv, ListInv, QuietInv, NEW l \in Loads, ReceiveList(l),
         load[l].quiet, ~overtaken'
  PROVE  confirmed' = VisibleTo(session)'
<1> DEFINE me == load[l]
<1>1. /\ me.phase = "answered" /\ me.session = session /\ UNCHANGED <<table, session>>
      /\ ~overtaken /\ ~(me.readAt < newest)
  BY ReceiveListFacts
<1>2. /\ me.revision = revision /\ me.readAt = written
      /\ \A k \in Held(me.rows) : k \in Held(table) /\ table[k].owner = session
      /\ ~me.full => \A k \in me.keys : k \in Held(table) /\ table[k].owner = session
  BY <1>1 DEF QuietInv, QuietTrue, Listed
<1>3. ASSUME NEW k \in Held(table), table[k].owner = session PROVE confirmed'[k] = table[k]
  <2>1. table[k].version <= me.readAt
    BY <1>2, Numbers DEF TimeInv
  <2>2. QED
    BY <1>1, <1>3, <2>1, ReceivedKnown DEF SnapInv
<1>4. ASSUME NEW k \in Keys, ~(k \in Held(table) /\ table[k].owner = session)
      PROVE  confirmed'[k] = None
  <2>1. me.rows[k] = None /\ (~me.full => k \notin me.keys)
    BY <1>2, <1>4 DEF Held
  <2>2. committedAt[k] <= me.revision
    BY <1>2 DEF SyncInv, StoreInv
  <2>3. ~me.full => Pruned(k, me)
    BY <2>1, <2>2 DEF Pruned
  <2>4. QED
    BY <2>1, <2>3, ReceivedRow
<1>5. confirmed' = [k \in Keys |-> confirmed'[k]]
  BY DEF ReceiveList
<1>6. \A k \in Keys : confirmed'[k] = IF k \in Held(table) /\ table[k].owner = session
                                        THEN table[k] ELSE None
  BY <1>3, <1>4
<1>7. VisibleTo(session)' =
        [k \in Keys |-> IF k \in Held(table) /\ table[k].owner = session THEN table[k] ELSE None]
  BY <1>1 DEF VisibleTo, OwnedBy, Held
<1>8. QED
  BY <1>5, <1>6, <1>7

LEMMA ConvergeStep ==
  /\ SyncInv /\ TimeInv /\ SnapInv /\ ListInv /\ QuietInv /\ ListsConverge
  /\ [Next]_vars
  => ListsConverge'
<1> SUFFICES ASSUME SyncInv, TimeInv, SnapInv, ListInv, QuietInv, ListsConverge, [Next]_vars,
                    ~overtaken', settled'
             PROVE  confirmed' = VisibleTo(session)'
  BY DEF ListsConverge, Converged
<1>0. ASSUME settled, StoreStands, table' = table PROVE confirmed' = VisibleTo(session)'
  BY <1>0 DEF ListsConverge, Converged, StoreStands, VisibleTo, OwnedBy
<1>1. CASE Calm
  BY <1>0, <1>1 DEF Calm
<1>2. ASSUME NEW k \in Keys, NEW row \in Row \cup {None}, Written(k, row) PROVE FALSE
  BY <1>2 DEF Written
<1>3. ASSUME NEW w \in Writes, ExecuteWrite(w) PROVE FALSE
  BY <1>3, ExecuteWriteFacts DEF Written
<1>4. ASSUME NEW w \in Writes, RefuseWrite(w) PROVE confirmed' = VisibleTo(session)'
  BY <1>0, <1>4 DEF RefuseWrite, StoreStands, serverVars, storeVars, ghosts
<1>5. ASSUME NEW w \in Writes, Commit(w) PROVE FALSE
  BY <1>5, CommitFacts
<1>6. ASSUME NEW l \in Loads, LoadModel(l) \/ ListRows(l) \/ ListKeys(l)
      PROVE  confirmed' = VisibleTo(session)'
  BY <1>0, <1>6, LoadModelFacts, ListRowsFacts, ListKeysFacts DEF ListsOnly
<1>7. ASSUME NEW l \in Loads, ReceiveList(l) PROVE confirmed' = VisibleTo(session)'
  BY <1>7, ReceiveListFacts, ConvergeReceive
<1>8. CASE NewSession
  BY <1>8 DEF NewSession
<1>9. QED
  BY <1>1, <1>2, <1>3, <1>4, <1>5, <1>6, <1>7, <1>8, Kinds

ConvergeInv ==
  TimeInv /\ ListInv /\ AnswerInv /\ FloorInv /\ SnapInv /\ QuietInv /\ ListsConverge

LEMMA ConvergeInit == Init => ConvergeInv
<1> SUFFICES ASSUME Init PROVE ConvergeInv
  OBVIOUS
<1>1. /\ \A l \in Loads : load[l].phase = "idle"
      /\ \A w \in Writes : write[w].phase = "idle"
      /\ Held(table) = {} /\ clock = 1 /\ written = 0 /\ newest = 0
      /\ cursor = None /\ scope = None /\ saved = None /\ ~settled
  BY DEF Init, NoLoad, NoWrite, Held, NoRows
<1>2. TimeInv
  BY <1>1 DEF TimeInv, Past, ListPast
<1>3. ListInv /\ AnswerInv /\ QuietInv
  BY <1>1 DEF ListInv, ListTrue, Listed, AnswerInv, AnswerTrue, QuietInv, QuietTrue
<1>4. FloorInv
  BY <1>1 DEF FloorInv, FromDisk
<1>5. SnapInv
  BY <1>1 DEF SnapInv, Snapshot, Known, Ahead, DiskTrue, Beside, Current
<1>6. ListsConverge
  BY <1>1 DEF ListsConverge, Converged
<1>7. QED
  BY <1>2, <1>3, <1>4, <1>5, <1>6 DEF ConvergeInv

(* Whatever deltas, reloads, resets and other devices came before: once a  *)
(* list was sent and answered in silence, the store holds the account's    *)
(* rows as the server does, unless an answer was applied late.             *)
THEOREM Converges == Spec => []ListsConverge
<1>1. Init => SyncInv /\ ConvergeInv
  BY InitInvs, ConvergeInit
<1>2. SyncInv /\ ConvergeInv /\ [Next]_vars => SyncInv' /\ ConvergeInv'
  BY NextInvs, TimeStep, ListStep, AnswersTrueStep, FloorStep, SnapStep, QuietStep, ConvergeStep
  DEF ConvergeInv
<1>3. ConvergeInv => ListsConverge
  BY DEF ConvergeInv
<1>4. QED
  BY <1>1, <1>2, <1>3, PTL DEF Spec

-----------------------------------------------------------------------------
(* Mutations settle as they showed.  Every step maps to one of             *)
(* OptimisticRows's, or is not seen: what is mine is kept by the           *)
(* refreshes (MineInv), and a success brings the row its mutation asked    *)
(* for.                                                                    *)

(* A success that deletes brings no row, and any other brings one.         *)
AsAsked(r) ==
  r.phase = "answered" /\ r.answer \in (IF r.op = "delete" THEN {"stored", "not_found"} ELSE {"stored"}) =>
    (r.op = "delete" <=> r.row = None)

AskedInv == \A w \in Writes : AsAsked(write[w])

(* The server answers with the row it wrote, or found nothing to delete.   *)
LEMMA AskedStep == SyncInv /\ AskedInv /\ [Next]_vars => AskedInv'
<1> SUFFICES ASSUME SyncInv, AskedInv, [Next]_vars PROVE AskedInv'
  OBVIOUS
<1>0. ASSUME AnswersStand PROVE AskedInv'
  <2>1. ASSUME NEW w \in Writes PROVE AsAsked(write'[w])
    BY <1>0 DEF AnswersStand, AskedInv, AsAsked
  <2>2. QED
    BY <2>1 DEF AskedInv
<1>1. CASE Calm \/ NewSession
  BY <1>0, <1>1 DEF Calm, NewSession
<1>2. ASSUME NEW k \in Keys, NEW row \in Row \cup {None}, Written(k, row), AnswersStand
      PROVE  AskedInv'
  BY <1>0, <1>2
<1>3. ASSUME NEW w \in Writes, ExecuteWrite(w) PROVE AskedInv'
  <2> DEFINE me == write[w]
             row == IF me.op = "delete" THEN None ELSE Stamped(me.session, me.author)
  <2>1. me.session \in Accounts /\ me.author \in Accounts
    BY <1>3 DEF ExecuteWrite, SyncInv, WriteInv, WriteOK
  <2>2. Stamped(me.session, me.author) # None
    BY <2>1, StampedRow, RowAssumption DEF SyncInv
  <2>3. me.op = "delete" <=> row = None
    BY <2>2
  <2>4. Answer(w, "stored", row, written + 1)
    BY <1>3 DEF ExecuteWrite
  <2> HIDE DEF row
  <2>5. /\ write'[w].row = row /\ write'[w].op = me.op
        /\ \A v \in Writes \ {w} : write'[v] = write[v]
    BY <2>4, AnswerFacts
  <2>6. QED
    BY <2>3, <2>5 DEF AskedInv, AsAsked
<1>4. ASSUME NEW w \in Writes, RefuseWrite(w) PROVE AskedInv'
  <2>1. PICK answer : /\ Answer(w, answer, None, written)
                      /\ answer = "not_found" => write[w].op # "insert"
                      /\ answer # "stored"
    BY <1>4 DEF RefuseWrite
  <2>2. /\ write'[w].answer = answer /\ write'[w].row = None /\ write'[w].op = write[w].op
        /\ \A v \in Writes \ {w} : write'[v] = write[v]
    BY <2>1, AnswerFacts
  <2>3. QED
    BY <2>1, <2>2 DEF AskedInv, AsAsked
<1>5. ASSUME NEW w \in Writes, Commit(w) PROVE AskedInv'
  BY <1>0, <1>5, CommitFacts
<1>6. ASSUME NEW l \in Loads, LoadModel(l) \/ ListRows(l) \/ ListKeys(l) \/ ReceiveList(l)
      PROVE  AskedInv'
  <2>1. write' = write
    BY <1>6, LoadModelFacts, ListRowsFacts, ListKeysFacts, ReceiveListFacts DEF ListsOnly
  <2>2. QED
    BY <2>1 DEF AskedInv
<1>7. QED
  BY <1>1, <1>2, <1>3, <1>4, <1>5, <1>6, Kinds

(* No mutation, no row.                                                    *)
LEMMA ReplicaInit == Init => Replica!RowsInit
<1> SUFFICES ASSUME Init PROVE Replica!RowsInit
  OBVIOUS
<1>1. \A w \in Writes : ~Running(w) /\ WishOf(w) = None
  BY NoRequests DEF Init, Running, WishOf
<1>2. \A k \in Keys : OwnerOf(confirmed[k]) = None
  BY DEF Init, NoRows, OwnerOf
<1>3. layers = {} /\ mine = {} /\ session \in Accounts
  BY DEF Init
<1>4. QED
  BY <1>1, <1>2, <1>3 DEF Replica!RowsInit

(* What the page sees of the mutations and of the rows stays.              *)
PageStands ==
  /\ UNCHANGED <<session, confirmed, layers>>
  /\ \A w \in Writes : (Running(w)' <=> Running(w)) /\ WishOf(w)' = WishOf(w)

(* A step the page does not see.                                           *)
LEMMA ReplicaKept ==
  ASSUME PageStands, (mine \cap OwnedBy(session))' = mine \cap OwnedBy(session)
  PROVE  [Replica!RowsNext]_(Replica!rowVars)
BY DEF PageStands, Replica!rowVars

(* The server stores a row, or deletes one.                                *)
LEMMA ReplicaExecute ==
  ASSUME SyncInv, MineInv, PageStands, NEW k \in Keys, NEW row, Execute(k, row),
         table[k] # None /\ row # None => row.owner = table[k].owner
  PROVE  [Replica!RowsNext]_(Replica!rowVars)
<1>1. /\ table' = [table EXCEPT ![k] = row] /\ table \in Rows
      /\ mine' = IF row = None THEN mine \ {k} ELSE mine
      /\ UNCHANGED session
  BY DEF Execute, SyncInv, ServerInv, PageStands
<1>2. OwnedBy(session)' = {j \in Keys : table'[j] # None /\ table'[j].owner = session}
  BY <1>1 DEF OwnedBy
<1>3. \A j \in Keys : table'[j] = IF j = k THEN row ELSE table[j]
  BY <1>1 DEF Rows
<1>4. CASE row = None
  <2>1. (mine \cap OwnedBy(session))' = (mine \cap OwnedBy(session)) \ {k}
    BY <1>1, <1>2, <1>3, <1>4 DEF OwnedBy
  <2>2. Replica!Vanish(k)
    BY <2>1 DEF PageStands, Replica!Vanish
  <2>3. QED
    BY <2>2 DEF Replica!RowsNext
<1>5. CASE row # None
  <2>1. \A j \in mine : table[j] # None
    BY DEF MineInv
  <2>2. (mine \cap OwnedBy(session))' = mine \cap OwnedBy(session)
    BY <1>1, <1>2, <1>3, <1>5, <2>1 DEF OwnedBy
  <2>3. QED
    BY <2>2, ReplicaKept
<1>6. QED
  BY <1>4, <1>5

(* One mutation is updated and stays in progress, with its key and what    *)
(* it does to the row.                                                     *)
LEMMA OneWriteStands ==
  ASSUME SyncInv, NEW w \in Writes, Running(w), NEW r, write' = [write EXCEPT ![w] = r],
         r.phase # "idle", r.key = write[w].key, r.op = write[w].op,
         UNCHANGED <<session, confirmed, layers>>
  PROVE  PageStands
<1>1. write \in [Writes -> Write]
  BY DEF SyncInv, WriteInv
<1>2. /\ write'[w] = r
      /\ \A v \in Writes \ {w} : write'[v] = write[v]
  BY <1>1
<1>3. ASSUME NEW v \in Writes
      PROVE  (Running(v)' <=> Running(v)) /\ WishOf(v)' = WishOf(v)
  <2>1. Running(v)' <=> Running(v)
    BY <1>2 DEF Running
  <2>2. WishOf(v)' = WishOf(v)
    BY <1>2, <2>1 DEF WishOf
  <2>3. QED
    BY <2>1, <2>2
<1>4. QED
  BY <1>3 DEF PageStands

(* The mutations stay as they are.                                         *)
LEMMA WritesStand == ASSUME UNCHANGED <<session, confirmed, layers, write>> PROVE PageStands
BY DEF PageStands, Running, WishOf

(* What the server, the network and the clock do.                          *)
LEMMA ReplicaServer ==
  ASSUME SyncInv, MineInv,
         \/ Tick
         \/ \E a \in Accounts, k \in Keys : \E row \in {None, Stamped(a, a)} : OtherWrites(a, k, row)
         \/ \E w \in Writes : ExecuteWrite(w) \/ RefuseWrite(w) \/ Send(w)
         \/ \E w \in Writes, online \in BOOLEAN : RetryWrite(w, online)
  PROVE  [Replica!RowsNext]_(Replica!rowVars)
<1>1. CASE Tick
  BY <1>1, WritesStand, ReplicaKept DEF Tick, storeVars, ghosts, OwnedBy
<1>2. ASSUME NEW a \in Accounts, NEW k \in Keys, NEW row \in {None, Stamped(a, a)},
             OtherWrites(a, k, row)
      PROVE  [Replica!RowsNext]_(Replica!rowVars)
  <2>1. row # None => row.owner = a
    BY StampedRow DEF SyncInv
  <2>2. table[k] # None => table[k].owner = a
    BY <1>2 DEF OtherWrites, OwnedBy, Free
  <2>3. PageStands
    BY <1>2, WritesStand DEF OtherWrites, storeVars
  <2>4. Execute(k, row)
    BY <1>2 DEF OtherWrites
  <2>5. QED
    BY <2>1, <2>2, <2>3, <2>4, ReplicaExecute
<1>3. ASSUME NEW w \in Writes, ExecuteWrite(w) PROVE [Replica!RowsNext]_(Replica!rowVars)
  <2> DEFINE me == write[w]
             row == IF me.op = "delete" THEN None ELSE Stamped(me.session, me.author)
  <2>1. /\ Execute(me.key, row) /\ Answer(w, "stored", row, written + 1)
        /\ me.phase = "sent" /\ UNCHANGED <<session, confirmed, layers>>
        /\ table[me.key] # None => table[me.key].owner = me.session
    BY <1>3 DEF ExecuteWrite, Free, OwnedBy, storeVars
  <2>2. me.key \in Keys /\ me.session \in Accounts /\ me.author \in Accounts /\ me \in Write
    BY <1>3 DEF ExecuteWrite, SyncInv, WriteInv, WriteOK
  <2> HIDE DEF me
  <2>3. row # None => row.owner = me.session
    BY <2>2, StampedRow DEF SyncInv
  <2> HIDE DEF row
  <2>4. PageStands
    <3> DEFINE r == [me EXCEPT !.phase = "answered", !.answer = "stored", !.row = row, !.at = written + 1]
    <3>1. write' = [write EXCEPT ![w] = r]
      BY <2>1 DEF Answer, me
    <3>2. r.phase = "answered" /\ r.key = me.key /\ r.op = me.op
      BY <2>2 DEF Write
    <3> HIDE DEF r
    <3>3. QED
      BY <2>1, <3>1, <3>2, OneWriteStands DEF me, Running
  <2>5. QED
    BY <2>1, <2>2, <2>3, <2>4, ReplicaExecute
<1>4. ASSUME NEW w \in Writes, RefuseWrite(w) PROVE [Replica!RowsNext]_(Replica!rowVars)
  <2>1. PICK answer : Answer(w, answer, None, written)
    BY <1>4 DEF RefuseWrite
  <2> DEFINE r == [write[w] EXCEPT !.phase = "answered", !.answer = answer, !.row = None, !.at = written]
  <2>2. write' = [write EXCEPT ![w] = r]
    BY <2>1 DEF Answer
  <2>3. r.phase = "answered" /\ r.key = write[w].key /\ r.op = write[w].op
    BY DEF Write, SyncInv, WriteInv
  <2> HIDE DEF r
  <2>4. PageStands
    BY <1>4, <2>2, <2>3, OneWriteStands DEF RefuseWrite, Running, storeVars
  <2>5. QED
    BY <1>4, <2>4, ReplicaKept DEF RefuseWrite, serverVars, ghosts, OwnedBy
<1>5. ASSUME NEW w \in Writes, Send(w) PROVE [Replica!RowsNext]_(Replica!rowVars)
  <2> DEFINE r == [write[w] EXCEPT !.phase = "sent", !.session = session]
  <2>1. r.phase = "sent" /\ r.key = write[w].key /\ r.op = write[w].op
    BY DEF Write, SyncInv, WriteInv
  <2>2. write' = [write EXCEPT ![w] = r] /\ Running(w) /\ UNCHANGED <<session, confirmed, layers>>
    BY <1>5 DEF Send, Running, storeVars
  <2> HIDE DEF r
  <2>3. PageStands
    BY <2>1, <2>2, OneWriteStands
  <2>4. QED
    BY <1>5, <2>3, ReplicaKept DEF Send, serverVars, ghosts, OwnedBy
<1>6. ASSUME NEW w \in Writes, NEW online \in BOOLEAN, RetryWrite(w, online)
      PROVE  [Replica!RowsNext]_(Replica!rowVars)
  <2> DEFINE me == write[w]
             n == IF online THEN me.retries + 1 ELSE me.retries
             r == [me EXCEPT !.phase = "waiting", !.answer = "none", !.row = None, !.at = 0,
                             !.retries = n]
  <2>1. r.phase = "waiting" /\ r.key = write[w].key /\ r.op = write[w].op
    BY DEF Write, SyncInv, WriteInv
  <2>2. Running(w) /\ UNCHANGED <<session, confirmed, layers>>
    BY <1>6 DEF RetryWrite, Running, storeVars
  <2>3. write' = [write EXCEPT ![w] = r]
    BY <1>6 DEF RetryWrite, SyncInv, WriteInv
  <2> HIDE DEF r
  <2>4. PageStands
    BY <2>1, <2>2, <2>3, OneWriteStands
  <2>5. QED
    BY <1>6, <2>4, ReplicaKept DEF RetryWrite, serverVars, ghosts, OwnedBy
<1>7. QED
  BY <1>1, <1>2, <1>3, <1>4, <1>5, <1>6

(* A list refreshes the rows; a full one replaces them.                    *)
LEMMA ReplicaLists ==
  ASSUME SyncInv, SyncInv', MineInv', NEW l \in Loads,
         LoadModel(l) \/ ListRows(l) \/ ListKeys(l) \/ ReceiveList(l) \/ DropList(l)
  PROVE  [Replica!RowsNext]_(Replica!rowVars)
<1>1. CASE LoadModel(l) \/ ListRows(l) \/ ListKeys(l) \/ DropList(l)
  BY <1>1, WritesStand, ReplicaKept
  DEF LoadModel, ListRows, ListKeys, DropList, serverVars, storeVars, ghosts, OwnedBy
<1>2. CASE ReceiveList(l)
  <2>1. /\ UNCHANGED <<session, table, layers, write>>
        /\ mine' = IF load[l].full THEN {} ELSE mine
    BY <1>2 DEF ReceiveList, serverVars
  <2>2. ASSUME NEW k \in Keys
        PROVE  OwnerOf(confirmed'[k]) = IF confirmed'[k] = None THEN None ELSE session
    BY <2>1 DEF OwnerOf, SyncInv, StoreInv, OwnedRows, Held
  <2>3. \A k \in (mine \cap OwnedBy(session))' : k \in Keys /\ OwnerOf(confirmed'[k]) = session
    BY <2>1, <2>2 DEF MineInv, OwnedBy
  <2>4. [k \in Keys |-> OwnerOf(confirmed'[k])] \in [Keys -> {None, session}]
    BY <2>2
  <2>5. /\ OwnedBy(session)' = OwnedBy(session)
        /\ {w \in Writes : Running(w)}' = {w \in Writes : Running(w)}
        /\ [w \in Writes |-> WishOf(w)]' = [w \in Writes |-> WishOf(w)]
    BY <2>1 DEF OwnedBy, Running, WishOf
  <2>6. CASE load[l].full
    <3>1. Replica!Replace
      BY <2>1, <2>4, <2>5, <2>6 DEF Replica!Replace, Replica!Rows
    <3>2. QED
      BY <3>1 DEF Replica!RowsNext
  <2>7. CASE ~load[l].full
    <3>1. Replica!Refresh
      BY <2>1, <2>3, <2>4, <2>5, <2>7 DEF Replica!Refresh, Replica!Rows
    <3>2. QED
      BY <3>1 DEF Replica!RowsNext
  <2>8. QED
    BY <2>6, <2>7
<1>3. QED
  BY <1>1, <1>2

(* A mutation begins.                                                      *)
LEMMA ReplicaMutate ==
  ASSUME SyncInv, NEW w \in Writes, NEW online \in BOOLEAN,
         NEW op \in {"insert", "update", "delete"}, NEW k \in Keys, Mutate(w, op, k, online)
  PROVE  [Replica!RowsNext]_(Replica!rowVars)
<1> DEFINE wish == [key |-> k, deletes |-> op = "delete"]
<1>1. /\ ~Running(w) /\ layers' = layers \cup {w}
      /\ UNCHANGED <<session, table, confirmed, mine>>
  BY DEF Mutate, serverVars
<1>2. /\ write'[w].phase # "idle" /\ write'[w].key = k /\ write'[w].op = op
      /\ \A v \in Writes \ {w} : write'[v] = write[v]
  <2>1. write \in [Writes -> Write] /\ NoWrite \in Write
    BY NoRequests DEF SyncInv, WriteInv
  <2>2. QED
    BY <2>1 DEF Mutate, Write
<1>3. w \notin layers
  BY <1>1 DEF SyncInv, LayerInv, Running
<1>4. Running(w)' /\ WishOf(w)' = wish
  BY <1>2 DEF Running, WishOf
<1>5. \A v \in Writes \ {w} : (Running(v)' <=> Running(v)) /\ WishOf(v)' = WishOf(v)
  BY <1>2 DEF Running, WishOf
<1>6. ({v \in Writes : Running(v)} \ layers)' = {v \in Writes : Running(v)} \ layers
  BY <1>1, <1>4, <1>5
<1>7. [v \in Writes |-> WishOf(v)]' = [[v \in Writes |-> WishOf(v)] EXCEPT ![w] = wish]
  BY <1>4, <1>5
<1>8. wish \in Replica!Wish
  BY DEF Replica!Wish
<1> HIDE DEF wish
<1>9. (mine \cap OwnedBy(session))' = mine \cap OwnedBy(session)
  BY <1>1 DEF OwnedBy
<1>10. w \notin layers \cup ({v \in Writes : Running(v)} \ layers)
  BY <1>1, <1>3
<1>11. Replica!Begin(w)
  BY <1>1, <1>6, <1>7, <1>8, <1>9, <1>10 DEF Replica!Begin
<1>12. QED
  BY <1>11 DEF Replica!RowsNext

(* A mutation ends, and shows no more.                                     *)
LEMMA Finished ==
  ASSUME SyncInv, NEW w \in Writes, Running(w), Finish(w)
  PROVE  /\ {v \in Writes : Running(v)}' = {v \in Writes : Running(v)} \ {w}
         /\ [v \in Writes |-> WishOf(v)]' = [[v \in Writes |-> WishOf(v)] EXCEPT ![w] = None]
<1>1. write'[w].phase = "idle" /\ \A v \in Writes \ {w} : write'[v] = write[v]
  BY NoRequests DEF Finish, SyncInv, WriteInv
<1>2. ~Running(w)' /\ WishOf(w)' = None
  BY <1>1 DEF Running, WishOf
<1>3. \A v \in Writes \ {w} : (Running(v)' <=> Running(v)) /\ WishOf(v)' = WishOf(v)
  BY <1>1 DEF Running, WishOf
<1>4. QED
  BY <1>2, <1>3

(* The store shows the running mutations of its generation.                *)
LEMMA ShownRun ==
  ASSUME SyncInv, NEW w \in Writes
  PROVE  w \in layers <=> Running(w) /\ write[w].generation = generation
BY DEF SyncInv, LayerInv, Running

(* A confirmed mutation leaves what it showed.                             *)
LEMMA ReplicaCommit ==
  ASSUME SyncInv, SyncInv', AskedInv, NEW w \in Writes, Commit(w)
  PROVE  [Replica!RowsNext]_(Replica!rowVars)
<1> DEFINE key == write[w].key
           deletes == write[w].op = "delete"
<1>1. /\ Running(w) /\ w \in layers /\ key \in Keys
      /\ Finish(w) /\ layers' = layers \ {w} /\ UNCHANGED <<session, table>>
  BY ShownRun, CommitFacts DEF Commit, CommitLayer, Running
<1>2. /\ confirmed' = [confirmed EXCEPT ![key] = write[w].row]
      /\ mine' \in {mine \ {key}, mine \cup {key}}
      /\ write[w].row = None => mine' = mine \ {key}
  BY DEF Commit, CommitLayer
<1>3. WishOf(w) = [key |-> key, deletes |-> deletes]
  BY <1>1 DEF WishOf
<1>4. deletes <=> write[w].row = None
  BY DEF AskedInv, AsAsked, Commit, Succeeded
<1>5. write[w].row # None => write[w].row.owner = session
  BY CommitFacts DEF SyncInv, WriteInv, WriteOK
<1> HIDE DEF key, deletes
<1>6. ASSUME NEW k \in Keys
      PROVE  OwnerOf(confirmed'[k]) =
               IF k # key THEN OwnerOf(confirmed[k]) ELSE IF deletes THEN None ELSE session
  BY <1>2, <1>4, <1>5 DEF OwnerOf, SyncInv, StoreInv, Rows
<1>7. [k \in Keys |-> OwnerOf(confirmed[k])]' =
        [[k \in Keys |-> OwnerOf(confirmed[k])] EXCEPT ![key] = IF deletes THEN None ELSE session]
  BY <1>1, <1>6
<1>8. /\ (mine \cap OwnedBy(session))' \in
           {(mine \cap OwnedBy(session)) \ {key}, (mine \cap OwnedBy(session)) \cup {key}}
      /\ deletes => (mine \cap OwnedBy(session))' = (mine \cap OwnedBy(session)) \ {key}
  BY <1>1, <1>2, <1>4 DEF OwnedBy
<1>9. ({v \in Writes : Running(v)} \ layers)' = {v \in Writes : Running(v)} \ layers
  BY <1>1, Finished
<1>10. Replica!Confirm(w)
  <2> DEFINE mapped == [v \in Writes |-> WishOf(v)]
             keys   == mine \cap OwnedBy(session)
  <2>1. mapped[w].key = key /\ mapped[w].deletes = deletes
    BY <1>3
  <2>2. keys' \in {keys \ {key}} \cup (IF deletes THEN {} ELSE {keys \cup {key}})
    BY <1>8
  <2>3. mapped' = [mapped EXCEPT ![w] = None]
    BY <1>1, Finished
  <2> HIDE DEF mapped
  <2>4. QED
    BY <1>1, <1>7, <1>9, <2>1, <2>2, <2>3 DEF Replica!Confirm, Replica!Over, mapped
<1>11. QED
  BY <1>10 DEF Replica!RowsNext

(* A mutation that fails leaves the rows as they are, and so does one that *)
(* was abandoned.                                                          *)
LEMMA ReplicaEnds ==
  ASSUME SyncInv, NEW w \in Writes, RollBack(w) \/ FinishLate(w)
  PROVE  [Replica!RowsNext]_(Replica!rowVars)
<1>1. /\ Running(w) /\ Finish(w)
      /\ UNCHANGED <<session, table, confirmed, mine>>
  BY DEF RollBack, FinishLate, Refused, Exhausted, Running, serverVars, storeVars, ghosts
<1>2. (mine \cap OwnedBy(session))' = mine \cap OwnedBy(session)
  BY <1>1 DEF OwnedBy
<1>3. CASE RollBack(w)
  <2>1. w \in layers /\ layers' = layers \ {w}
    BY <1>1, <1>3, ShownRun DEF RollBack
  <2>2. ({v \in Writes : Running(v)} \ layers)' = {v \in Writes : Running(v)} \ layers
    BY <1>1, <2>1, Finished
  <2>3. Replica!Undo(w)
    BY <1>1, <1>2, <2>1, <2>2, Finished DEF Replica!Undo, Replica!Over
  <2>4. QED
    BY <2>3 DEF Replica!RowsNext
<1>4. CASE FinishLate(w)
  <2>1. w \notin layers /\ layers' = layers
    BY <1>1, <1>4, ShownRun DEF FinishLate, storeVars
  <2>2. ({v \in Writes : Running(v)} \ layers)' = ({v \in Writes : Running(v)} \ layers) \ {w}
    BY <1>1, <2>1, Finished
  <2>3. Replica!EndLate(w)
    BY <1>1, <1>2, <2>1, <2>2, Finished DEF Replica!EndLate, Replica!Over
  <2>4. QED
    BY <2>3 DEF Replica!RowsNext
<1>5. QED
  BY <1>3, <1>4

(* The session changes, or the page is loaded again.                       *)
LEMMA ReplicaSessions ==
  ASSUME SyncInv, NEW a \in Accounts, SwitchSession(a) \/ Reload(a)
  PROVE  [Replica!RowsNext]_(Replica!rowVars)
<1>1. session' = a /\ confirmed' = NoRows /\ layers' = {} /\ mine' = {}
  BY DEF SwitchSession, Reload, EmptyStore
<1>2. [k \in Keys |-> OwnerOf(confirmed[k])]' = [k \in Keys |-> None]
  BY <1>1 DEF NoRows, OwnerOf
<1>3. Replica!Empty(a)
  BY <1>1, <1>2 DEF Replica!Empty
<1>4. CASE SwitchSession(a)
  <2>1. UNCHANGED write
    BY <1>4 DEF SwitchSession
  <2>2. layers \subseteq {w \in Writes : Running(w)}
    BY ShownRun DEF SyncInv, LayerInv
  <2>3. ({w \in Writes : Running(w)} \ layers)' = ({w \in Writes : Running(w)} \ layers) \cup layers
    BY <1>1, <2>1, <2>2 DEF Running
  <2>4. [w \in Writes |-> WishOf(w)]' = [w \in Writes |-> WishOf(w)]
    BY <2>1 DEF WishOf, Running
  <2>5. Replica!Switch(a)
    BY <1>3, <2>3, <2>4 DEF Replica!Switch
  <2>6. QED
    BY <2>5 DEF Replica!RowsNext
<1>5. CASE Reload(a)
  <2>1. \A w \in Writes : ~Running(w)' /\ WishOf(w)' = None
    BY <1>5, NoRequests DEF Reload, Running, WishOf
  <2>2. /\ ({w \in Writes : Running(w)} \ layers)' = {}
        /\ [w \in Writes |-> WishOf(w)]' = [w \in Writes |-> None]
    BY <2>1
  <2>3. Replica!Restart(a)
    BY <1>3, <2>2 DEF Replica!Restart
  <2>4. QED
    BY <2>3 DEF Replica!RowsNext
<1>6. QED
  BY <1>4, <1>5

(* Every step is a step of the promise, or is not seen.                    *)
LEMMA ReplicaStep ==
  ASSUME SyncInv, SyncInv', MineInv, MineInv', AskedInv, [Next]_vars
  PROVE  [Replica!RowsNext]_(Replica!rowVars)
<1>1. CASE UNCHANGED vars
  BY <1>1, WritesStand, ReplicaKept DEF vars, serverVars, storeVars, ghosts, OwnedBy
<1>2. QED
  BY <1>1, ReplicaServer, ReplicaLists, ReplicaMutate, ReplicaCommit, ReplicaEnds, ReplicaSessions DEF Next

(* Whatever lists, retries, other devices, reloads and changes of the      *)
(* session come between, a mutation settles once, as the page showed it,   *)
(* and one whose session is over changes nothing (runMutation, reset).     *)
THEOREM Implements == Spec => ImplementsOptimisticRows
<1>1. Init => SyncInv /\ MineInv /\ AskedInv /\ Replica!RowsInit
  <2>1. Init => MineInv /\ AskedInv
    BY NoRequests DEF Init, MineInv, AskedInv, AsAsked
  <2>2. QED
    BY <2>1, InitInvs, ReplicaInit
<1>2. SyncInv /\ MineInv /\ AskedInv /\ [Next]_vars => SyncInv' /\ MineInv' /\ AskedInv'
  BY NextInvs, MineNext, AskedStep
<1>3. /\ SyncInv /\ MineInv /\ AskedInv /\ SyncInv' /\ MineInv' /\ [Next]_vars
      => [Replica!RowsNext]_(Replica!rowVars)
  BY ReplicaStep
<1>4. QED
  BY <1>1, <1>2, <1>3, PTL DEF Spec, ImplementsOptimisticRows, Replica!RowsSpec
=============================================================================
