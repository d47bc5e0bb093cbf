---------------------------- MODULE SyncStoreProofs ----------------------------
(***************************************************************************)
(* Proofs about SyncStore, for any keys, accounts, list requests, bounds   *)
(* and any finite set of mutations: however many requests are in flight    *)
(* when the session changes.                                               *)
(***************************************************************************)
EXTENDS SyncStore, FiniteSetTheorems, WellFoundedInduction, TLAPS

-----------------------------------------------------------------------------
(* Types of the requests                                                   *)

Load == [phase : {"idle", "sent", "listed", "answered"}, session : Accounts \cup {None},
         generation : Nat, revision : Nat, readAt : Nat, since : Cursor,
         scope : Accounts \cup {None}, saved : Saved \cup {None}, rows : Rows,
         keys : SUBSET Keys, full : BOOLEAN, cursor : Cursor, quiet : BOOLEAN]

Write == [phase : {"idle", "waiting", "sent", "answered"}, op : {"insert", "update", "delete"},
          key : Keys \cup {None}, author : Accounts \cup {None}, session : Accounts \cup {None},
          generation : Nat, retries : Nat, answer : {"none", "stored", "refused", "not_found"},
          row : Row \cup {None}, at : Nat]

(* What a step leaves of a list request, its answer and its marks apart.   *)
SameRequest(new, old) ==
  /\ new.session = old.session /\ new.generation = old.generation
  /\ new.saved = old.saved /\ new.since = old.since

SameAnswer(new, old) == new.rows = old.rows /\ new.cursor = old.cursor

(* The requests nobody has made.                                           *)
LEMMA NoRequests ==
  /\ NoRows \in Rows
  /\ NoLoad \in Load /\ NoLoad.phase = "idle" /\ NoLoad.rows = NoRows
  /\ NoLoad.since = None /\ NoLoad.cursor = None /\ NoLoad.saved = None
  /\ NoWrite \in Write /\ NoWrite.phase = "idle" /\ NoWrite.row = None
<1>1. NoRows \in Rows
  BY DEF NoRows, Rows
<1>2. NoLoad \in Load
  BY <1>1 DEF NoLoad, Load, Cursor
<1>3. NoWrite \in Write
  BY DEF NoWrite, Write
<1>4. /\ NoLoad.phase = "idle" /\ NoLoad.rows = NoRows /\ NoLoad.since = None
      /\ NoLoad.cursor = None /\ NoLoad.saved = None
  BY DEF NoLoad
<1>5. NoWrite.phase = "idle" /\ NoWrite.row = None
  BY DEF NoWrite
<1>6. QED
  BY <1>1, <1>2, <1>3, <1>4, <1>5

(* A list request with its keys.                                           *)
LEMMA KeyedLoad ==
  ASSUME NEW me \in Load, NEW keys \in SUBSET Keys,
         NEW new, new = [me EXCEPT !.keys = keys, !.phase = "answered"]
  PROVE  /\ new \in Load /\ new.phase = "answered"
         /\ SameRequest(new, me) /\ SameAnswer(new, me)
BY DEF Load, SameRequest, SameAnswer

(* A list request that was overlapped by a write.                          *)
LEMMA DisturbedLoad ==
  ASSUME NEW me \in Load, NEW new, new = [me EXCEPT !.quiet = FALSE]
  PROVE  /\ new \in Load /\ new.phase = me.phase
         /\ SameRequest(new, me) /\ SameAnswer(new, me)
BY DEF Load, SameRequest, SameAnswer

-----------------------------------------------------------------------------
(* The inductive invariant                                                 *)

OwnedRows(rows, a) == \A k \in Held(rows) : rows[k].owner = a

ServerInv ==
  /\ table \in Rows /\ clock \in Nat /\ written \in Nat
  /\ \A k \in Held(table) : table[k].stamp <= clock

SessionInv == session \in Accounts /\ generation \in Nat

(* What the store and the device hold is of one account each.              *)
StoreInv ==
  /\ revision \in Nat
  /\ confirmed \in Rows /\ OwnedRows(confirmed, session)
  /\ committedAt \in [Keys -> 0..revision]
  /\ cursor \in Cursor
  /\ scope \in {None, session}
  /\ saved \in Saved \cup {None}
  /\ saved # None => OwnedRows(saved.rows, saved.scope)

(* A list of this generation was sent by the account signed in.            *)
LoadOK(r, gen, ses) ==
  /\ r \in Load
  /\ r.phase # "idle" =>
       /\ r.session \in Accounts
       /\ r.generation <= gen
       /\ r.generation = gen => r.session = ses
       /\ OwnedRows(r.rows, r.session)
       /\ r.saved # None => OwnedRows(r.saved.rows, r.saved.scope)

LoadInv == load \in [Loads -> Load] /\ \A l \in Loads : LoadOK(load[l], generation, session)

(* A mutation of this generation was last sent by the account signed in,   *)
(* and only an answered one has a row, of the account it was sent by.      *)
WriteOK(r, gen, ses) ==
  /\ r \in Write
  /\ r.phase # "idle" =>
       /\ r.key \in Keys /\ r.author \in Accounts /\ r.session \in Accounts
       /\ r.generation <= gen
       /\ r.generation = gen => r.session = ses
  /\ r.phase # "answered" => r.row = None
  /\ r.row # None => r.row.owner = r.session

WriteInv == write \in [Writes -> Write] /\ \A w \in Writes : WriteOK(write[w], generation, session)

LayerInv ==
  /\ layers = {w \in Writes : write[w].phase # "idle" /\ write[w].generation = generation}
  /\ pending = Cardinality({w \in Writes : write[w].phase # "idle"})

SyncInv == ServerInv /\ SessionInv /\ StoreInv /\ LoadInv /\ WriteInv /\ LayerInv

-----------------------------------------------------------------------------
(* Facts about rows, and the largest stamp                                 *)

(* Bounded sets of numbers have a largest element.                         *)
LEMMA LargestExists ==
  ASSUME NEW S \in SUBSET Nat, S # {}, NEW b \in Nat, \A n \in S : n <= b
  PROVE  \E m \in S : \A n \in S : n <= m
<1> DEFINE Above(n) == {k \in 0..b : k > n}
           T == {Above(n) : n \in S}
           R == StrictSubsetOrdering(0..b)
<1>1. FiniteSubsetsOf(0..b) = SUBSET (0..b)
  <2>1. IsFiniteSet(0..b)
    BY FS_Interval
  <2>2. QED
    BY <2>1, FS_FiniteSubsetsOfFinite
<1>2. IsWellFoundedOn(R, SUBSET (0..b))
  BY <1>1, FS_StrictSubsetOrderingWellFounded
<1>3. T \subseteq SUBSET (0..b) /\ T # {}
  OBVIOUS
<1>4. PICK x \in T : \A y \in T : ~ (<<y, x>> \in R)
  <2> HIDE DEF R, T
  <2> QED
    BY <1>2, <1>3, WFMin
<1>5. PICK m \in S : x = Above(m)
  BY <1>4
<1>6. ASSUME NEW n \in S, m < n  PROVE FALSE
  <2>1. Above(n) \in T /\ Above(n) \subseteq Above(m)
    BY <1>6
  <2>2. n \in Above(m) /\ n \notin Above(n)
    BY <1>6
  <2>3. <<Above(n), Above(m)>> \in R
    BY <2>1, <2>2 DEF StrictSubsetOrdering
  <2>4. QED
    BY <1>4, <1>5, <2>1, <2>3
<1>7. QED
  BY <1>6

(* A cursor the server may have returned by now.                           *)
Past(c) == c # None => c <= clock

(* The cursor a list returns is a stamp, or the cursor it was sent with.   *)
LEMMA MaxStampIsCursor ==
  ASSUME ServerInv, NEW rows \in Rows, NEW floor \in Cursor,
         \A k \in Held(rows) : rows[k] = table[k]
  PROVE  /\ MaxStamp(rows, floor) \in Cursor
         /\ Past(floor) => Past(MaxStamp(rows, floor))
<1> DEFINE stamps == {rows[k].stamp : k \in Held(rows)} \cup (IF floor = None THEN {} ELSE {floor})
<1>1. \A k \in Held(rows) : k \in Held(table) /\ rows[k].stamp \in Nat /\ rows[k].stamp <= clock
  BY DEF ServerInv, Held, Rows, Row
<1>2. stamps \in SUBSET Nat
  BY <1>1 DEF Cursor
<1>3. PICK b \in Nat : \A n \in stamps : n <= b
  <2>1. CASE floor = None
    BY <1>1, <2>1 DEF ServerInv
  <2>2. CASE floor # None /\ floor <= clock
    BY <1>1, <2>2 DEF ServerInv
  <2>3. CASE floor # None /\ ~(floor <= clock)
    BY <1>1, <2>3 DEF ServerInv, Cursor
  <2>4. QED
    BY <2>1, <2>2, <2>3
<1>4. CASE stamps = {}
  BY <1>4 DEF MaxStamp, Cursor, Past
<1>5. CASE stamps # {}
  <2>1. \E m \in stamps : \A n \in stamps : n <= m
    <3> HIDE DEF stamps
    <3> QED
      BY <1>2, <1>3, <1>5, LargestExists
  <2>2. MaxStamp(rows, floor) \in stamps
    BY <1>5, <2>1 DEF MaxStamp
  <2>3. Past(floor) => Past(MaxStamp(rows, floor))
    BY <1>1, <2>2 DEF Past
  <2>4. QED
    BY <1>2, <2>2, <2>3 DEF Cursor
<1>6. QED
  BY <1>4, <1>5

(* A row stamped now.                                                      *)
LEMMA StampedRow ==
  ASSUME ServerInv, NEW a \in Accounts, NEW b \in Accounts
  PROVE  /\ Stamped(a, b) \in Row /\ Stamped(a, b).owner = a /\ Stamped(a, b).stamp = clock
BY DEF Stamped, Row, ServerInv

(* Nothing is owned by anyone, and one row put among rows of its owner.    *)
LEMMA OwnedNoRows == ASSUME NEW a PROVE OwnedRows(NoRows, a)
BY DEF OwnedRows, NoRows, Held

LEMMA OwnedExcept ==
  ASSUME NEW rows \in Rows, NEW a, OwnedRows(rows, a), NEW k \in Keys,
         NEW row \in Row \cup {None}, row # None => row.owner = a
  PROVE  [rows EXCEPT ![k] = row] \in Rows /\ OwnedRows([rows EXCEPT ![k] = row], a)
BY DEF Rows, OwnedRows, Held

-----------------------------------------------------------------------------
(* What a step that leaves the variables alone keeps                       *)

LEMMA ServerKept == ASSUME ServerInv, UNCHANGED serverVars PROVE ServerInv'
BY DEF ServerInv, serverVars

LEMMA SessionKept == ASSUME SessionInv, UNCHANGED <<session, generation>> PROVE SessionInv'
BY DEF SessionInv

LEMMA StoreKept ==
  ASSUME StoreInv, UNCHANGED <<session, confirmed, committedAt, cursor, scope, revision, saved>>
  PROVE  StoreInv'
BY DEF StoreInv

LEMMA LoadKept == ASSUME LoadInv, UNCHANGED <<session, generation, load>> PROVE LoadInv'
BY DEF LoadInv

LEMMA WriteKept == ASSUME WriteInv, UNCHANGED <<session, generation, write>> PROVE WriteInv'
BY DEF WriteInv

LEMMA LayerKept ==
  ASSUME LayerInv, UNCHANGED <<generation, layers, pending>>,
         \A w \in Writes : /\ write'[w].phase # "idle" <=> write[w].phase # "idle"
                           /\ write'[w].generation = write[w].generation
  PROVE  LayerInv'
<1>1. {w \in Writes : write'[w].phase # "idle"} = {w \in Writes : write[w].phase # "idle"}
  OBVIOUS
<1>2. QED
  BY <1>1 DEF LayerInv

(* One request is replaced by another that is as it should be.             *)
LEMMA LoadReplaced ==
  ASSUME LoadInv, NEW l \in Loads, NEW new, LoadOK(new, generation, session),
         load' = [load EXCEPT ![l] = new], UNCHANGED <<session, generation>>
  PROVE  LoadInv'
<1>1. new \in Load
  BY DEF LoadOK
<1>2. load' \in [Loads -> Load]
  BY <1>1 DEF LoadInv
<1>3. \A m \in Loads : LoadOK(load'[m], generation, session)
  BY DEF LoadInv
<1>4. QED
  BY <1>2, <1>3 DEF LoadInv

LEMMA WriteReplaced ==
  ASSUME WriteInv, NEW w \in Writes, NEW new, WriteOK(new, generation, session),
         write' = [write EXCEPT ![w] = new], UNCHANGED <<session, generation>>
  PROVE  WriteInv'
<1>1. new \in Write
  BY DEF WriteOK
<1>2. write' \in [Writes -> Write]
  BY <1>1 DEF WriteInv
<1>3. \A v \in Writes : WriteOK(write'[v], generation, session)
  BY DEF WriteInv
<1>4. QED
  BY <1>2, <1>3 DEF WriteInv

(* Marking the lists a write overlapped changes nothing else of them.      *)
LEMMA LoadDisturbed ==
  ASSUME LoadInv, SessionInv, load' = [l \in Loads |-> [load[l] EXCEPT !.quiet = FALSE]],
         generation' \in Nat,
         \/ UNCHANGED <<session, generation>>
         \/ generation < generation'
  PROVE  LoadInv'
<1>1. ASSUME NEW l \in Loads
      PROVE  LoadOK(load'[l], generation', session')
  <2>1. load[l] \in Load /\ LoadOK(load[l], generation, session)
    BY DEF LoadInv
  <2>2. /\ load'[l] \in Load /\ load'[l].phase = load[l].phase
        /\ SameRequest(load'[l], load[l]) /\ SameAnswer(load'[l], load[l])
    BY <2>1, DisturbedLoad
  <2>3. load[l].generation \in Nat
    BY <2>1 DEF Load
  <2>4. QED
    BY <2>1, <2>2, <2>3 DEF LoadOK, SameRequest, SameAnswer, SessionInv
<1>2. load' \in [Loads -> Load]
  BY <1>1 DEF LoadOK
<1>3. QED
  BY <1>1, <1>2 DEF LoadInv

-----------------------------------------------------------------------------
(* The steps of the server                                                 *)

LEMMA InitInvs == Init => SyncInv
<1> SUFFICES ASSUME Init PROVE SyncInv
  OBVIOUS
<1>1. ServerInv
  BY NoRequests DEF Init, ServerInv, Held, NoRows
<1>2. SessionInv
  BY DEF Init, SessionInv
<1>3. StoreInv
  BY NoRequests, OwnedNoRows DEF Init, StoreInv, Cursor
<1>4. LoadInv
  BY NoRequests DEF Init, LoadInv, LoadOK
<1>5. WriteInv
  BY NoRequests DEF Init, WriteInv, WriteOK
<1>6. LayerInv
  <2>1. {w \in Writes : write[w].phase # "idle"} = {}
    BY NoRequests DEF Init
  <2>2. QED
    BY <2>1, FS_EmptySet, NoRequests DEF Init, LayerInv
<1>7. QED
  BY <1>1, <1>2, <1>3, <1>4, <1>5, <1>6 DEF SyncInv

(* A row the server stores is stamped now.                                 *)
LEMMA ExecuteStep ==
  ASSUME SyncInv, NEW k \in Keys, NEW row \in Row \cup {None}, row # None => row.stamp = clock,
         Execute(k, row), UNCHANGED <<clock, session, generation>>
  PROVE  ServerInv' /\ LoadInv'
<1>1. table' \in Rows
  BY DEF Execute, SyncInv, ServerInv, Rows
<1>2. \A j \in Held(table') : table'[j].stamp <= clock
  BY DEF Execute, SyncInv, ServerInv, Rows, Held
<1>3. ServerInv'
  <2>1. written' = written + 1 /\ clock' = clock /\ clock \in Nat /\ written \in Nat
    BY DEF Execute, SyncInv, ServerInv
  <2>2. QED
    BY <1>1, <1>2, <2>1 DEF ServerInv
<1>4. LoadInv'
  BY LoadDisturbed DEF SyncInv, SessionInv, Execute
<1>5. QED
  BY <1>3, <1>4

LEMMA TickStep == ASSUME SyncInv, Tick PROVE SyncInv'
<1>1. ServerInv'
  <2>1. UNCHANGED <<table, written>> /\ clock' = clock + 1
    BY DEF Tick
  <2>2. \A k \in Held(table) : table[k].stamp \in Nat
    BY DEF SyncInv, ServerInv, Held, Rows, Row
  <2>3. QED
    BY <2>1, <2>2 DEF SyncInv, ServerInv
<1>2. QED
  BY <1>1, SessionKept, StoreKept, LoadKept, WriteKept, LayerKept
  DEF SyncInv, Tick, storeVars

LEMMA OtherWritesStep ==
  ASSUME SyncInv, NEW a \in Accounts, NEW k \in Keys, NEW row \in {None, Stamped(a, a)},
         OtherWrites(a, k, row)
  PROVE  SyncInv'
<1>1. row \in Row \cup {None} /\ (row # None => row.stamp = clock)
  BY StampedRow DEF SyncInv
<1>2. Execute(k, row) /\ UNCHANGED <<clock, session, storeVars, pending, saved, write>>
  BY DEF OtherWrites
<1>3. ServerInv' /\ LoadInv'
  BY <1>1, <1>2, ExecuteStep DEF storeVars
<1>4. QED
  BY <1>2, <1>3, SessionKept, StoreKept, WriteKept, LayerKept DEF SyncInv, storeVars

(* An answer belongs to the session the write was sent under.              *)
LEMMA AnswerStep ==
  ASSUME SyncInv, NEW w \in Writes, write[w].phase = "sent",
         NEW answer \in {"stored", "refused", "not_found"}, NEW row \in Row \cup {None},
         NEW at \in Nat, row # None => row.owner = write[w].session,
         Answer(w, answer, row, at), UNCHANGED <<session, generation, layers, pending>>
  PROVE  WriteInv' /\ LayerInv'
<1> DEFINE me == write[w]
           new == [me EXCEPT !.phase = "answered", !.answer = answer, !.row = row, !.at = at]
<1>1. me \in Write /\ WriteOK(me, generation, session)
  BY DEF SyncInv, WriteInv
<1>2. /\ new \in Write /\ new.phase = "answered" /\ new.row = row
      /\ new.key = me.key /\ new.author = me.author /\ new.session = me.session
      /\ new.generation = me.generation
  <2> HIDE DEF me
  <2> QED
    BY <1>1 DEF Write
<1>3. write' = [write EXCEPT ![w] = new]
  BY DEF Answer, SyncInv, WriteInv
<1> HIDE DEF new
<1>4. WriteOK(new, generation, session)
  BY <1>1, <1>2 DEF WriteOK
<1>5. WriteInv'
  BY <1>3, <1>4, WriteReplaced DEF SyncInv
<1>6. \A v \in Writes : /\ write'[v].phase # "idle" <=> write[v].phase # "idle"
                        /\ write'[v].generation = write[v].generation
  BY <1>2, <1>3 DEF SyncInv, WriteInv
<1>7. LayerInv'
  BY <1>6, LayerKept DEF SyncInv
<1>8. QED
  BY <1>5, <1>7

LEMMA ExecuteWriteStep == ASSUME SyncInv, NEW w \in Writes, ExecuteWrite(w) PROVE SyncInv'
<1> DEFINE me == write[w]
           row == IF me.op = "delete" THEN None ELSE Stamped(me.session, me.author)
<1>1. me.phase = "sent" /\ me \in Write /\ WriteOK(me, generation, session)
  BY DEF ExecuteWrite, SyncInv, WriteInv
<1>2. me.key \in Keys /\ me.session \in Accounts /\ me.author \in Accounts
  BY <1>1 DEF WriteOK
<1>3. row \in Row \cup {None} /\ (row # None => row.stamp = clock /\ row.owner = me.session)
  <2> HIDE DEF me
  <2> QED
    BY <1>2, StampedRow DEF SyncInv
<1>4. /\ Execute(me.key, row) /\ Answer(w, "stored", row, written + 1)
      /\ UNCHANGED <<clock, session, storeVars, pending, saved>>
  BY DEF ExecuteWrite
<1>5. written + 1 \in Nat
  BY DEF SyncInv, ServerInv
<1> HIDE DEF row
<1>6. ServerInv' /\ LoadInv'
  BY <1>2, <1>3, <1>4, ExecuteStep DEF storeVars
<1>7. WriteInv' /\ LayerInv'
  BY <1>1, <1>3, <1>4, <1>5, AnswerStep DEF storeVars
<1>8. QED
  BY <1>4, <1>6, <1>7, SessionKept, StoreKept DEF SyncInv, storeVars

LEMMA RefuseWriteStep == ASSUME SyncInv, NEW w \in Writes, RefuseWrite(w) PROVE SyncInv'
<1> DEFINE answer == IF write[w].op # "insert" /\ write[w].key \notin OwnedBy(write[w].session)
                       THEN "not_found" ELSE "refused"
<1>1. /\ write[w].phase = "sent" /\ Answer(w, answer, None, written)
      /\ UNCHANGED <<serverVars, session, storeVars, pending, saved, load>>
  BY DEF RefuseWrite
<1>2. answer \in {"stored", "refused", "not_found"} /\ written \in Nat
  BY DEF SyncInv, ServerInv
<1> HIDE DEF answer
<1>3. WriteInv' /\ LayerInv'
  BY <1>1, <1>2, AnswerStep DEF storeVars
<1>4. QED
  BY <1>1, <1>3, ServerKept, SessionKept, StoreKept, LoadKept DEF SyncInv, storeVars

-----------------------------------------------------------------------------
(* The steps of a list request                                             *)

(* A step that changes one list request only.                              *)
LEMMA OneLoadStep ==
  ASSUME SyncInv, NEW l \in Loads, NEW new, LoadOK(new, generation, session),
         load' = [load EXCEPT ![l] = new],
         UNCHANGED <<serverVars, session, storeVars, pending, saved, write>>
  PROVE  SyncInv'
<1>1. LoadInv'
  BY LoadReplaced DEF SyncInv, storeVars
<1>2. QED
  BY <1>1, ServerKept, SessionKept, StoreKept, WriteKept, LayerKept DEF SyncInv, storeVars

LEMMA LoadModelStep == ASSUME SyncInv, NEW l \in Loads, LoadModel(l) PROVE SyncInv'
<1> DEFINE disk  == IF scope = None THEN saved ELSE None
           since == IF disk # None THEN disk.cursor ELSE cursor
           sc    == IF disk # None THEN disk.scope ELSE scope
           quiet == ~Busy
           new   == [NoLoad EXCEPT !.phase = "sent", !.session = session,
                                   !.generation = generation, !.revision = revision,
                                   !.since = since, !.scope = sc, !.saved = disk, !.quiet = quiet]
<1>1. /\ load' = [load EXCEPT ![l] = new]
      /\ UNCHANGED <<serverVars, session, storeVars, pending, saved, write>>
  BY DEF LoadModel
<1>2. disk \in Saved \cup {None} /\ (disk # None => OwnedRows(disk.rows, disk.scope))
  BY DEF SyncInv, StoreInv
<1>3. since \in Cursor /\ sc \in Accounts \cup {None}
  <2> HIDE DEF disk
  <2> QED
    BY <1>2 DEF SyncInv, StoreInv, SessionInv, Saved
<1>4. quiet \in BOOLEAN /\ session \in Accounts /\ generation \in Nat /\ revision \in Nat
  BY DEF SyncInv, StoreInv, SessionInv
<1> HIDE DEF disk, since, sc, quiet
<1>5. NoLoad \in Load /\ NoLoad.rows = NoRows
  BY NoRequests
<1>6. new \in Load
  BY <1>2, <1>3, <1>4, <1>5 DEF Load
<1>7. /\ new.phase = "sent" /\ new.session = session
      /\ new.generation = generation /\ new.saved = disk /\ new.rows = NoRows
  BY <1>5 DEF Load
<1> HIDE DEF new
<1>8. LoadOK(new, generation, session)
  BY <1>2, <1>4, <1>6, <1>7, OwnedNoRows DEF LoadOK
<1>9. QED
  BY <1>1, <1>8, OneLoadStep

LEMMA ListRowsStep == ASSUME SyncInv, NEW l \in Loads, ListRows(l) PROVE SyncInv'
<1> DEFINE me == load[l]
           incremental == me.since # None /\ me.scope \in {None, me.session}
           rows == [k \in Keys |->
                     IF k \in OwnedBy(me.session) /\ (incremental => ChangedSince(k, me.since))
                       THEN table[k] ELSE None]
           full == ~incremental
           cur == MaxStamp(rows, IF incremental THEN me.since ELSE None)
           phase == IF incremental THEN "listed" ELSE "answered"
           new == [me EXCEPT !.rows = rows, !.full = full, !.readAt = written,
                             !.cursor = cur, !.phase = phase]
<1>1. me.phase = "sent" /\ me \in Load /\ LoadOK(me, generation, session)
  BY DEF ListRows, SyncInv, LoadInv
<1>2. /\ load' = [load EXCEPT ![l] = new]
      /\ UNCHANGED <<serverVars, session, storeVars, pending, saved, write>>
  BY DEF ListRows, SyncInv, LoadInv
<1> HIDE DEF me
<1>3. /\ rows \in Rows
      /\ \A k \in Held(rows) : rows[k] = table[k] /\ k \in OwnedBy(me.session)
  BY DEF Rows, Held, SyncInv, ServerInv
<1>4. (IF incremental THEN me.since ELSE None) \in Cursor
  BY <1>1 DEF Load, Cursor
<1>5. cur \in Cursor
  <2> HIDE DEF rows, incremental
  <2> QED
    BY <1>3, <1>4, MaxStampIsCursor DEF SyncInv
<1>6. OwnedRows(rows, me.session)
  BY <1>3 DEF OwnedRows, OwnedBy
<1>7. written \in Nat /\ full \in BOOLEAN /\ phase \in {"listed", "answered"}
  BY DEF SyncInv, ServerInv
<1> HIDE DEF rows, full, cur, phase, incremental
<1>8. /\ new \in Load /\ new.phase = phase /\ new.rows = rows /\ SameRequest(new, me)
  BY <1>1, <1>3, <1>5, <1>7 DEF Load, SameRequest
<1> HIDE DEF new
<1>9. LoadOK(new, generation, session)
  BY <1>1, <1>6, <1>8 DEF LoadOK, SameRequest
<1>10. QED
  BY <1>2, <1>9, OneLoadStep

LEMMA ListKeysStep == ASSUME SyncInv, NEW l \in Loads, ListKeys(l) PROVE SyncInv'
<1> DEFINE me == load[l]
           new == [me EXCEPT !.keys = OwnedBy(me.session), !.phase = "answered"]
<1>1. me.phase = "listed" /\ me \in Load /\ LoadOK(me, generation, session)
  BY DEF ListKeys, SyncInv, LoadInv
<1>2. /\ load' = [load EXCEPT ![l] = new]
      /\ UNCHANGED <<serverVars, session, storeVars, pending, saved, write>>
  BY DEF ListKeys, SyncInv, LoadInv
<1> HIDE DEF me
<1>3. OwnedBy(me.session) \in SUBSET Keys
  BY DEF OwnedBy
<1>4. /\ new \in Load /\ new.phase = "answered"
      /\ SameRequest(new, me) /\ SameAnswer(new, me)
  BY <1>1, <1>3, KeyedLoad
<1> HIDE DEF new
<1>5. LoadOK(new, generation, session)
  BY <1>1, <1>4 DEF LoadOK, SameRequest, SameAnswer
<1>6. QED
  BY <1>2, <1>5, OneLoadStep

(* A request nobody has made is as it should be.                           *)
LEMMA IdleOK == ASSUME NEW gen, NEW ses PROVE LoadOK(NoLoad, gen, ses) /\ WriteOK(NoWrite, gen, ses)
BY NoRequests DEF LoadOK, WriteOK

LEMMA DropListStep == ASSUME SyncInv, NEW l \in Loads, DropList(l) PROVE SyncInv'
BY IdleOK, OneLoadStep DEF DropList

(* The rows a list leaves in the store are of the account that sent it.    *)
LEMMA SeedOwned ==
  ASSUME SyncInv, NEW me \in Load, LoadOK(me, generation, session),
         me.phase = "answered", me.generation = generation
  PROVE  Seed(me) \in Rows /\ OwnedRows(Seed(me), session)
<1>1. me.session = session
  BY DEF LoadOK
<1>2. confirmed \in Rows /\ OwnedRows(confirmed, session)
  BY DEF SyncInv, StoreInv
<1>3. CASE me.saved # None /\ ~me.full /\ me.session = me.saved.scope
  <2>1. me.saved.rows \in Rows
    BY <1>3 DEF Load, Saved
  <2>2. OwnedRows(me.saved.rows, session)
    BY <1>1, <1>3 DEF LoadOK
  <2>3. Seed(me) = [k \in Keys |-> IF confirmed[k] # None THEN confirmed[k] ELSE me.saved.rows[k]]
    BY <1>3 DEF Seed
  <2>4. QED
    BY <1>2, <2>1, <2>2, <2>3 DEF OwnedRows, Held, Rows
<1>4. CASE ~(me.saved # None /\ ~me.full /\ me.session = me.saved.scope)
  BY <1>2, <1>4 DEF Seed
<1>5. QED
  BY <1>3, <1>4

(* What is persisted is of the account of its scope.                       *)
LEMMA PersistOwned ==
  ASSUME NEW rows \in Rows, NEW cur \in Cursor, NEW sc \in Accounts \cup {None},
         sc # None => OwnedRows(rows, sc), StoreInv, Persist(rows, cur, sc)
  PROVE  saved' \in Saved \cup {None} /\ (saved' # None => OwnedRows(saved'.rows, saved'.scope))
<1>1. CASE sc = None
  BY <1>1 DEF Persist, StoreInv
<1>2. CASE sc # None
  <2>1. saved' = [rows |-> rows, cursor |-> cur, scope |-> sc]
    BY <1>2 DEF Persist
  <2>2. QED
    BY <1>2, <2>1 DEF Saved
<1>3. QED
  BY <1>1, <1>2

LEMMA ReceiveListStep == ASSUME SyncInv, NEW l \in Loads, ReceiveList(l) PROVE SyncInv'
<1> DEFINE me == load[l]
           base == IF me.full THEN NoRows ELSE Seed(me)
           upserted == [k \in Keys |-> IF me.rows[k] # None THEN me.rows[k] ELSE base[k]]
           rows == [k \in Keys |-> IF Pruned(k, me) THEN None ELSE upserted[k]]
           cur == IF me.cursor # None THEN me.cursor ELSE cursor
           times == [k \in Keys |->
                      IF upserted[k] # None /\ rows[k] = None THEN 0 ELSE committedAt[k]]
<1>1. /\ me.phase = "answered" /\ me.generation = generation
      /\ me \in Load /\ LoadOK(me, generation, session)
  BY DEF ReceiveList, SyncInv, LoadInv
<1>2. /\ confirmed' = rows /\ committedAt' = times /\ cursor' = cur /\ scope' = me.session
      /\ Persist(rows, cur, me.session)
      /\ load' = [load EXCEPT ![l] = NoLoad]
      /\ UNCHANGED <<serverVars, session, layers, revision, generation, pending, write>>
  BY DEF ReceiveList
<1> HIDE DEF me
<1>3. me.session = session /\ me.rows \in Rows /\ OwnedRows(me.rows, session)
  BY <1>1 DEF LoadOK, Load
<1>4. base \in Rows /\ OwnedRows(base, session)
  BY <1>1, SeedOwned, OwnedNoRows, NoRequests
<1> HIDE DEF base
<1>5. upserted \in Rows /\ OwnedRows(upserted, session)
  BY <1>3, <1>4 DEF Rows, OwnedRows, Held
<1>6. times \in [Keys -> 0..revision]
  BY DEF SyncInv, StoreInv
<1> HIDE DEF upserted, times
<1>7. rows \in Rows /\ OwnedRows(rows, session)
  BY <1>5 DEF Rows, OwnedRows, Held
<1>8. cur \in Cursor
  BY <1>1 DEF Load, SyncInv, StoreInv
<1> HIDE DEF rows, cur
<1>9. saved' \in Saved \cup {None} /\ (saved' # None => OwnedRows(saved'.rows, saved'.scope))
  <2>1. me.session \in Accounts \cup {None} /\ OwnedRows(rows, me.session)
    BY <1>3, <1>7 DEF SyncInv, SessionInv
  <2>2. QED
    BY <1>2, <1>7, <1>8, <2>1, PersistOwned DEF SyncInv
<1>10. StoreInv'
  BY <1>2, <1>3, <1>6, <1>7, <1>8, <1>9 DEF StoreInv, SyncInv
<1>11. LoadInv'
  BY <1>2, IdleOK, LoadReplaced DEF SyncInv
<1>12. QED
  BY <1>2, <1>10, <1>11, ServerKept, SessionKept, WriteKept, LayerKept DEF SyncInv

-----------------------------------------------------------------------------
(* The steps of a mutation                                                 *)

(* A step that changes a running mutation only, and leaves it running.     *)
LEMMA OneWriteStep ==
  ASSUME SyncInv, NEW w \in Writes, NEW new, WriteOK(new, generation, session),
         new.phase # "idle", write[w].phase # "idle", new.generation = write[w].generation,
         write' = [write EXCEPT ![w] = new],
         UNCHANGED <<serverVars, session, storeVars, pending, saved, load>>
  PROVE  SyncInv'
<1>1. WriteInv'
  BY WriteReplaced DEF SyncInv, storeVars
<1>2. \A v \in Writes : /\ write'[v].phase # "idle" <=> write[v].phase # "idle"
                        /\ write'[v].generation = write[v].generation
  BY DEF SyncInv, WriteInv
<1>3. LayerInv'
  BY <1>2, LayerKept DEF SyncInv, storeVars
<1>4. QED
  BY <1>1, <1>3, ServerKept, SessionKept, StoreKept, LoadKept DEF SyncInv, storeVars

LEMMA SendStep == ASSUME SyncInv, NEW w \in Writes, Send(w) PROVE SyncInv'
<1> DEFINE me == write[w]
           new == [me EXCEPT !.phase = "sent", !.session = session]
<1>1. /\ me.phase = "waiting" /\ me \in Write /\ WriteOK(me, generation, session)
      /\ session \in Accounts
  BY DEF Send, SyncInv, WriteInv, SessionInv
<1>2. /\ write' = [write EXCEPT ![w] = new]
      /\ UNCHANGED <<serverVars, session, storeVars, pending, saved, load>>
  BY DEF Send, SyncInv, WriteInv
<1>3. me = write[w]
  OBVIOUS
<1> HIDE DEF me
<1>4. /\ new \in Write /\ new.phase = "sent" /\ new.row = me.row
      /\ new.key = me.key /\ new.author = me.author /\ new.session = session
      /\ new.generation = me.generation
  BY <1>1 DEF Write
<1> HIDE DEF new
<1>5. WriteOK(new, generation, session)
  BY <1>1, <1>4 DEF WriteOK
<1>6. QED
  BY <1>1, <1>2, <1>3, <1>4, <1>5, OneWriteStep

LEMMA RetryWriteStep ==
  ASSUME SyncInv, NEW w \in Writes, NEW online \in BOOLEAN, RetryWrite(w, online)
  PROVE  SyncInv'
<1> DEFINE me == write[w]
           n == IF online THEN me.retries + 1 ELSE me.retries
           new == [me EXCEPT !.phase = "waiting", !.answer = "none", !.row = None,
                             !.at = 0, !.retries = n]
<1>1. me.phase \in {"sent", "answered"} /\ me \in Write /\ WriteOK(me, generation, session)
  BY DEF RetryWrite, SyncInv, WriteInv
<1>2. /\ write' = [write EXCEPT ![w] = new]
      /\ UNCHANGED <<serverVars, session, storeVars, pending, saved, load>>
  BY DEF RetryWrite, SyncInv, WriteInv
<1>3. me = write[w]
  OBVIOUS
<1> HIDE DEF me
<1>4. n \in Nat
  BY <1>1 DEF Write
<1> HIDE DEF n
<1>5. /\ new \in Write /\ new.phase = "waiting" /\ new.row = None
      /\ new.key = me.key /\ new.author = me.author /\ new.session = me.session
      /\ new.generation = me.generation
  BY <1>1, <1>4 DEF Write
<1> HIDE DEF new
<1>6. WriteOK(new, generation, session)
  BY <1>1, <1>5 DEF WriteOK
<1>7. QED
  BY <1>1, <1>2, <1>3, <1>5, <1>6, OneWriteStep

(* Finite sets of mutations can be counted.                                *)
LEMMA RunningFinite == IsFiniteSet({w \in Writes : write[w].phase # "idle"})
BY WritesAssumption, FS_Subset

LEMMA MutateStep ==
  ASSUME SyncInv, NEW w \in Writes, NEW op \in {"insert", "update", "delete"}, NEW k \in Keys,
         NEW online \in BOOLEAN, Mutate(w, op, k, online)
  PROVE  SyncInv'
<1> DEFINE phase == IF online THEN "sent" ELSE "waiting"
           new == [NoWrite EXCEPT !.phase = phase, !.op = op, !.key = k, !.author = session,
                                  !.session = session, !.generation = generation]
           running == {v \in Writes : write[v].phase # "idle"}
<1>1. /\ write[w].phase = "idle" /\ write' = [write EXCEPT ![w] = new]
      /\ layers' = layers \cup {w} /\ pending' = pending + 1 /\ Disturb
      /\ UNCHANGED <<serverVars, session, confirmed, committedAt, cursor, scope, revision,
                     generation, saved>>
  BY DEF Mutate, Running
<1>2. NoWrite \in Write /\ NoWrite.row = None
  BY NoRequests
<1>3. session \in Accounts /\ generation \in Nat /\ phase \in {"sent", "waiting"}
  BY DEF SyncInv, SessionInv
<1> HIDE DEF phase
<1>4. /\ new \in Write /\ new.phase = phase /\ new.key = k /\ new.author = session
      /\ new.session = session /\ new.generation = generation /\ new.row = None
  BY <1>2, <1>3 DEF Write
<1> HIDE DEF new
<1>5. WriteOK(new, generation, session)
  BY <1>3, <1>4 DEF WriteOK
<1>6. WriteInv'
  BY <1>1, <1>5, WriteReplaced DEF SyncInv
<1>7. LoadInv'
  BY <1>1, LoadDisturbed DEF SyncInv, Disturb, SessionInv
<1>8. LayerInv'
  <2>1. write'[w] = new /\ \A v \in Writes \ {w} : write'[v] = write[v]
    BY <1>1 DEF SyncInv, WriteInv
  <2>2. {v \in Writes : write'[v].phase # "idle"} = running \cup {w}
    BY <1>3, <1>4, <2>1
  <2>3. w \notin running /\ IsFiniteSet(running)
    BY <1>1, RunningFinite
  <2>4. Cardinality(running \cup {w}) = Cardinality(running) + 1
    <3> HIDE DEF running
    <3> QED
      BY <2>3, FS_AddElement
  <2>5. pending = Cardinality(running)
    BY DEF SyncInv, LayerInv
  <2>6. layers' = {v \in Writes : write'[v].phase # "idle" /\ write'[v].generation = generation}
    BY <1>1, <1>3, <1>4, <2>1 DEF SyncInv, LayerInv
  <2>7. QED
    BY <1>1, <2>2, <2>4, <2>5, <2>6 DEF LayerInv
<1>9. QED
  BY <1>1, <1>6, <1>7, <1>8, ServerKept, SessionKept, StoreKept DEF SyncInv

(* The mutation is over: it runs no more, and no other changes.            *)
LEMMA FinishStep ==
  ASSUME SyncInv, NEW w \in Writes, write[w].phase # "idle", Finish(w),
         \/ UNCHANGED generation /\ layers' = layers \ {w}
         \/ UNCHANGED <<generation, layers>> /\ write[w].generation # generation,
         UNCHANGED session
  PROVE  WriteInv' /\ LayerInv'
<1> DEFINE running == {v \in Writes : write[v].phase # "idle"}
<1>1. write' = [write EXCEPT ![w] = NoWrite] /\ pending' = pending - 1
  BY DEF Finish
<1>2. WriteInv'
  BY <1>1, IdleOK, WriteReplaced DEF SyncInv
<1>3. write'[w] = NoWrite /\ \A v \in Writes \ {w} : write'[v] = write[v]
  BY <1>1 DEF SyncInv, WriteInv
<1>4. {v \in Writes : write'[v].phase # "idle"} = running \ {w}
  BY <1>3, NoRequests
<1>5. Cardinality(running \ {w}) = Cardinality(running) - 1
  <2>1. w \in running /\ IsFiniteSet(running)
    BY RunningFinite
  <2>2. QED
    <3> HIDE DEF running
    <3> QED
      BY <2>1, FS_RemoveElement
<1>6. pending = Cardinality(running)
  BY DEF SyncInv, LayerInv
<1>7. layers' = {v \in Writes : write'[v].phase # "idle" /\ write'[v].generation = generation}
  BY <1>3, NoRequests DEF SyncInv, LayerInv
<1>8. LayerInv'
  BY <1>1, <1>4, <1>5, <1>6, <1>7 DEF LayerInv
<1>9. QED
  BY <1>2, <1>8

LEMMA CommitStep == ASSUME SyncInv, NEW w \in Writes, Commit(w) PROVE SyncInv'
<1> DEFINE me == write[w]
           rows == [confirmed EXCEPT ![me.key] = me.row]
           times == [committedAt EXCEPT ![me.key] = IF me.row = None THEN 0 ELSE revision + 1]
<1>1. /\ me.phase = "answered" /\ me.generation = generation
      /\ me \in Write /\ WriteOK(me, generation, session)
  BY DEF Commit, SyncInv, WriteInv
<1>2. /\ Finish(w) /\ layers' = layers \ {w} /\ revision' = revision + 1
      /\ confirmed' = rows /\ committedAt' = times /\ Persist(rows, cursor, scope) /\ Disturb
      /\ UNCHANGED <<serverVars, session, cursor, scope, generation>>
  BY DEF Commit, CommitLayer
<1>3. WriteInv' /\ LayerInv'
  BY <1>1, <1>2, FinishStep
<1>4. LoadInv'
  BY <1>2, LoadDisturbed DEF SyncInv, Disturb, SessionInv
<1> HIDE DEF me
<1>5. me.key \in Keys /\ me.row \in Row \cup {None} /\ (me.row # None => me.row.owner = session)
  BY <1>1 DEF WriteOK, Write
<1>6. rows \in Rows /\ OwnedRows(rows, session)
  BY <1>5, OwnedExcept DEF SyncInv, StoreInv
<1>7. times \in [Keys -> 0..revision + 1] /\ revision + 1 \in Nat
  <2>1. revision \in Nat /\ committedAt \in [Keys -> 0..revision]
    BY DEF SyncInv, StoreInv
  <2>2. committedAt \in [Keys -> 0..revision + 1] /\ 0 \in 0..revision + 1
    BY <2>1
  <2>3. QED
    BY <1>5, <2>1, <2>2
<1> HIDE DEF rows, times
<1>8. saved' \in Saved \cup {None} /\ (saved' # None => OwnedRows(saved'.rows, saved'.scope))
  <2>1. scope \in Accounts \cup {None} /\ (scope # None => OwnedRows(rows, scope)) /\ cursor \in Cursor
    BY <1>6 DEF SyncInv, StoreInv, SessionInv
  <2>2. QED
    BY <1>2, <1>6, <2>1, PersistOwned DEF SyncInv
<1>9. StoreInv'
  BY <1>2, <1>6, <1>7, <1>8 DEF StoreInv, SyncInv
<1>10. QED
  BY <1>2, <1>3, <1>4, <1>9, ServerKept, SessionKept DEF SyncInv

LEMMA RollBackStep == ASSUME SyncInv, NEW w \in Writes, RollBack(w) PROVE SyncInv'
<1>1. /\ write[w].phase # "idle" /\ Finish(w) /\ layers' = layers \ {w} /\ Disturb
      /\ UNCHANGED <<serverVars, session, confirmed, committedAt, cursor, scope, revision,
                     generation, saved>>
  BY DEF RollBack, Refused, Exhausted
<1>2. WriteInv' /\ LayerInv'
  BY <1>1, FinishStep
<1>3. LoadInv'
  BY <1>1, LoadDisturbed DEF SyncInv, Disturb, SessionInv
<1>4. QED
  BY <1>1, <1>2, <1>3, ServerKept, SessionKept, StoreKept DEF SyncInv

LEMMA FinishLateStep == ASSUME SyncInv, NEW w \in Writes, FinishLate(w) PROVE SyncInv'
<1>1. /\ write[w].phase # "idle" /\ Finish(w) /\ write[w].generation # generation
      /\ UNCHANGED <<serverVars, session, storeVars, saved, load>>
  BY DEF FinishLate, Exhausted
<1>2. WriteInv' /\ LayerInv'
  BY <1>1, FinishStep DEF storeVars
<1>3. QED
  BY <1>1, <1>2, ServerKept, SessionKept, StoreKept, LoadKept DEF SyncInv, storeVars

-----------------------------------------------------------------------------
(* The session changes                                                     *)

LEMMA EmptyStoreStep ==
  ASSUME SyncInv, EmptyStore, revision' \in Nat,
         saved' \in Saved \cup {None}, saved' # None => OwnedRows(saved'.rows, saved'.scope)
  PROVE  StoreInv'
<1>1. committedAt' \in [Keys -> 0..revision']
  BY DEF EmptyStore
<1>2. QED
  BY <1>1, NoRequests, OwnedNoRows DEF EmptyStore, StoreInv, Cursor

LEMMA SwitchSessionStep == ASSUME SyncInv, NEW a \in Accounts, SwitchSession(a) PROVE SyncInv'
<1>1. /\ session' = a /\ generation' = generation + 1 /\ EmptyStore /\ saved' = None
      /\ load' = [l \in Loads |-> [load[l] EXCEPT !.quiet = FALSE]]
      /\ UNCHANGED <<serverVars, revision, pending, write>>
  BY DEF SwitchSession
<1>2. SessionInv'
  BY <1>1 DEF SyncInv, SessionInv
<1>3. StoreInv'
  BY <1>1, EmptyStoreStep DEF SyncInv, StoreInv
<1>4. LoadInv'
  BY <1>1, LoadDisturbed DEF SyncInv, SessionInv
<1>5. ASSUME NEW w \in Writes
      PROVE  /\ write[w] \in Write /\ WriteOK(write[w], generation', session')
             /\ write[w].phase # "idle" => write[w].generation # generation'
  <2>1. /\ write[w] \in Write /\ WriteOK(write[w], generation, session)
        /\ write[w].generation \in Nat /\ generation \in Nat
    BY DEF SyncInv, WriteInv, SessionInv, Write
  <2>2. QED
    BY <1>1, <2>1 DEF WriteOK
<1>6. WriteInv'
  BY <1>1, <1>5 DEF WriteInv, SyncInv
<1>7. LayerInv'
  <2>1. {w \in Writes : write[w].phase # "idle" /\ write[w].generation = generation'} = {}
    BY <1>5
  <2>2. QED
    BY <1>1, <2>1 DEF LayerInv, SyncInv, EmptyStore
<1>8. QED
  BY <1>1, <1>2, <1>3, <1>4, <1>6, <1>7, ServerKept DEF SyncInv

LEMMA ReloadStep == ASSUME SyncInv, NEW a \in Accounts, Reload(a) PROVE SyncInv'
<1>1. /\ session' = a /\ generation' = generation + 1 /\ EmptyStore /\ revision' = 0
      /\ pending' = 0 /\ load' = [l \in Loads |-> NoLoad] /\ write' = [w \in Writes |-> NoWrite]
      /\ UNCHANGED <<serverVars, saved>>
  BY DEF Reload
<1>2. SessionInv'
  BY <1>1 DEF SyncInv, SessionInv
<1>3. StoreInv'
  BY <1>1, EmptyStoreStep DEF SyncInv, StoreInv
<1>4. LoadInv'
  BY <1>1, IdleOK, NoRequests DEF LoadInv
<1>5. WriteInv'
  BY <1>1, IdleOK, NoRequests DEF WriteInv
<1>6. LayerInv'
  <2>1. {w \in Writes : write'[w].phase # "idle"} = {}
    BY <1>1, NoRequests
  <2>2. {w \in Writes : write'[w].phase # "idle" /\ write'[w].generation = generation'} = {}
    BY <2>1
  <2>3. QED
    BY <1>1, <2>1, <2>2, FS_EmptySet DEF LayerInv, EmptyStore
<1>7. QED
  BY <1>1, <1>2, <1>3, <1>4, <1>5, <1>6, ServerKept DEF SyncInv

-----------------------------------------------------------------------------
(* The invariant, and what it says                                         *)

LEMMA NextInvs == SyncInv /\ [Next]_vars => SyncInv'
<1> SUFFICES ASSUME SyncInv, [Next]_vars PROVE SyncInv'
  OBVIOUS
<1>1. CASE Tick
  BY <1>1, TickStep
<1>2. ASSUME NEW a \in Accounts, NEW k \in Keys, NEW row \in {None, Stamped(a, a)},
             OtherWrites(a, k, row)
      PROVE  SyncInv'
  BY <1>2, OtherWritesStep
<1>3. ASSUME NEW l \in Loads,
             LoadModel(l) \/ ListRows(l) \/ ListKeys(l) \/ ReceiveList(l) \/ DropList(l)
      PROVE  SyncInv'
  BY <1>3, LoadModelStep, ListRowsStep, ListKeysStep, ReceiveListStep, DropListStep
<1>4. ASSUME NEW w \in Writes, NEW online \in BOOLEAN,
             NEW op \in {"insert", "update", "delete"}, NEW k \in Keys, Mutate(w, op, k, online)
      PROVE  SyncInv'
  BY <1>4, MutateStep
<1>5. ASSUME NEW w \in Writes, NEW online \in BOOLEAN, RetryWrite(w, online)
      PROVE  SyncInv'
  BY <1>5, RetryWriteStep
<1>6. ASSUME NEW w \in Writes,
             \/ ExecuteWrite(w) \/ RefuseWrite(w) \/ Send(w)
             \/ Commit(w) \/ RollBack(w) \/ FinishLate(w)
      PROVE  SyncInv'
  BY <1>6, ExecuteWriteStep, RefuseWriteStep, SendStep, CommitStep, RollBackStep, FinishLateStep
<1>7. ASSUME NEW a \in Accounts, SwitchSession(a) \/ Reload(a)
      PROVE  SyncInv'
  BY <1>7, SwitchSessionStep, ReloadStep
<1>8. CASE UNCHANGED vars
  BY <1>8, ServerKept, SessionKept, StoreKept, LoadKept, WriteKept, LayerKept
  DEF vars, storeVars, SyncInv
<1>9. QED
  BY <1>1, <1>2, <1>3, <1>4, <1>5, <1>6, <1>7, <1>8 DEF Next

(* The invariant holds in every state of every behavior.                   *)
THEOREM Inductive == Spec => []SyncInv
BY InitInvs, NextInvs, PTL DEF Spec

(* Every variable keeps its type, whatever the keys, accounts, requests    *)
(* and bounds; above all a list always finds the cursor it returns.        *)
THEOREM TypeSafe == Spec => []TypeOK
<1>1. SyncInv => TypeOK
  BY DEF SyncInv, ServerInv, SessionInv, StoreInv, LayerInv, TypeOK
<1>2. QED
  BY <1>1, Inductive, PTL

(* No list, delta, seed or answer of an earlier session puts a row into    *)
(* the store, however many of them are in flight when the session changes. *)
THEOREM SessionsIsolated == Spec => []OwnRowsOnly
<1>1. SyncInv => OwnRowsOnly
  BY DEF SyncInv, StoreInv, OwnedRows, OwnRowsOnly
<1>2. QED
  BY <1>1, Inductive, PTL

(* The optimistic layers are those of the running mutations of this        *)
(* generation, and pending counts all that run.                            *)
THEOREM LayersExact == Spec => []LayersAreRunning
<1>1. SyncInv => LayersAreRunning
  BY DEF SyncInv, LayerInv, LayersAreRunning, Running
<1>2. QED
  BY <1>1, Inductive, PTL

-----------------------------------------------------------------------------
(* Confirmed writes                                                        *)

(* A delta with these keys, read in this generation, would drop key k      *)
(* unless it was committed after the delta was sent.                       *)
Drops(r, k, gen) == r.phase = "answered" /\ ~r.full /\ r.generation = gen /\ k \notin r.keys

(* A key this client wrote is held by the server, and as long as the row   *)
(* is the account's, it is in the store, and was committed after every     *)
(* list that does not have it.                                             *)
MineInv ==
  /\ mine \subseteq Keys
  /\ \A l \in Loads : load[l].phase # "idle" /\ load[l].generation = generation
                        => load[l].revision <= revision
  /\ \A k \in mine : table[k] # None
  /\ \A k \in mine \cap OwnedBy(session) :
       /\ confirmed[k] # None
       /\ \A l \in Loads : Drops(load[l], k, generation) => load[l].revision < committedAt[k]

(* A list request that does not come to drop more than it did.             *)
Stands(new, old) ==
  \/ new.phase = "idle"
  \/ /\ old.phase # "idle"
     /\ new.generation = old.generation /\ new.revision = old.revision
     /\ new.phase = "answered" /\ ~new.full =>
          old.phase = "answered" /\ ~old.full /\ new.keys = old.keys

LEMMA MineKept ==
  ASSUME MineInv, UNCHANGED <<session, generation, revision, confirmed, committedAt>>,
         mine' \subseteq mine,
         \A k \in mine' : /\ table'[k] # None
                          /\ table'[k].owner = session => table[k].owner = session,
         \A l \in Loads : Stands(load'[l], load[l])
  PROVE  MineInv'
<1>1. \A k \in mine' \cap OwnedBy(session)' : k \in mine \cap OwnedBy(session)
  BY DEF MineInv, OwnedBy
<1>2. \A l \in Loads, k \in mine' : Drops(load'[l], k, generation) =>
        Drops(load[l], k, generation) /\ load'[l].revision = load[l].revision
  BY DEF Drops, Stands
<1>3. \A l \in Loads : load'[l].phase # "idle" /\ load'[l].generation = generation
                       => load'[l].revision <= revision
  BY DEF MineInv, Stands
<1>4. ASSUME NEW k \in mine' \cap OwnedBy(session)'
      PROVE  /\ confirmed'[k] # None
             /\ \A l \in Loads : Drops(load'[l], k, generation') =>
                  load'[l].revision < committedAt'[k]
  <2>1. k \in mine \cap OwnedBy(session)
    BY <1>1
  <2>2. /\ confirmed[k] # None
        /\ \A l \in Loads : Drops(load[l], k, generation) => load[l].revision < committedAt[k]
    BY <2>1 DEF MineInv
  <2>3. QED
    BY <1>2, <2>2
<1>5. mine' \subseteq Keys /\ (\A k \in mine' : table'[k] # None)
  <2>1. mine \subseteq Keys
    BY DEF MineInv
  <2>2. mine' \subseteq Keys
    BY <2>1
  <2>3. \A k \in mine' : table'[k] # None
    OBVIOUS
  <2>4. QED
    BY <2>2, <2>3
<1>6. \A l \in Loads : load'[l].phase # "idle" /\ load'[l].generation = generation'
                       => load'[l].revision <= revision'
  BY <1>3
<1>7. QED
  BY <1>4, <1>5, <1>6 DEF MineInv

LEMMA QuietStands ==
  ASSUME LoadInv, load' = [l \in Loads |-> [load[l] EXCEPT !.quiet = FALSE]]
  PROVE  \A l \in Loads : Stands(load'[l], load[l])
<1>1. ASSUME NEW l \in Loads PROVE Stands(load'[l], load[l])
  <2>1. load[l] \in Load /\ load'[l] = [load[l] EXCEPT !.quiet = FALSE]
    BY DEF LoadInv
  <2>2. /\ load'[l].phase = load[l].phase /\ load'[l].generation = load[l].generation
        /\ load'[l].revision = load[l].revision /\ load'[l].full = load[l].full
        /\ load'[l].keys = load[l].keys
    BY <2>1 DEF Load
  <2>3. QED
    BY <2>2 DEF Stands
<1>2. QED
  BY <1>1

LEMMA SameStands == ASSUME UNCHANGED load PROVE \A l \in Loads : Stands(load'[l], load[l])
BY DEF Stands

(* The server stores or deletes a row: a held row keeps its owner.         *)
LEMMA MineExecute ==
  ASSUME SyncInv, MineInv, NEW k \in Keys, NEW row \in Row \cup {None}, Execute(k, row),
         table[k] # None /\ row # None => row.owner = table[k].owner,
         UNCHANGED <<session, storeVars>>
  PROVE  MineInv'
<1>1. /\ table' = [table EXCEPT ![k] = row]
      /\ mine' = IF row = None THEN mine \ {k} ELSE mine
      /\ load' = [l \in Loads |-> [load[l] EXCEPT !.quiet = FALSE]]
      /\ table \in Rows
  BY DEF Execute, SyncInv, ServerInv
<1>2. \A j \in mine' : /\ table'[j] # None
                       /\ table'[j].owner = session => table[j].owner = session
  BY <1>1 DEF MineInv, Rows
<1>3. mine' \subseteq mine
  BY <1>1
<1>4. QED
  BY <1>1, <1>2, <1>3, QuietStands, MineKept DEF SyncInv, storeVars

(* A step that touches neither the rows nor the lists.                     *)
LEMMA MineSame ==
  ASSUME MineInv,
         UNCHANGED <<table, session, generation, revision, confirmed, committedAt, mine>>,
         \A l \in Loads : Stands(load'[l], load[l])
  PROVE  MineInv'
BY MineKept DEF MineInv

(* A list that has just been sent was sent after every commit.             *)
LEMMA MineLoadModel ==
  ASSUME SyncInv, MineInv, NEW l \in Loads, LoadModel(l) PROVE MineInv'
<1>1. /\ load'[l].phase = "sent" /\ load'[l].revision = revision
      /\ \A m \in Loads \ {l} : load'[m] = load[m]
  <2>1. NoLoad \in Load /\ l \in Loads /\ load \in [Loads -> Load]
    BY NoRequests DEF SyncInv, LoadInv
  <2>2. QED
    BY <2>1 DEF LoadModel, Load
<1>2. UNCHANGED <<table, session, generation, revision, confirmed, committedAt, mine>>
  BY DEF LoadModel, serverVars, storeVars, ghosts
<1>3. revision \in Nat
  BY DEF SyncInv, StoreInv
<1>4. QED
  BY <1>1, <1>2, <1>3 DEF MineInv, Drops, OwnedBy

LEMMA MineListRows ==
  ASSUME SyncInv, MineInv, NEW l \in Loads, ListRows(l) PROVE MineInv'
<1>1. load[l] \in Load /\ load \in [Loads -> Load]
  BY DEF SyncInv, LoadInv
<1>2. /\ load[l].phase = "sent"
      /\ load'[l].generation = load[l].generation /\ load'[l].revision = load[l].revision
      /\ load'[l].phase = "answered" => load'[l].full
      /\ \A m \in Loads \ {l} : load'[m] = load[m]
  BY <1>1 DEF ListRows, Load
<1>3. \A m \in Loads : Stands(load'[m], load[m])
  BY <1>2 DEF Stands
<1>4. QED
  BY <1>3, MineSame DEF ListRows, serverVars, storeVars, ghosts

(* A list that reads its keys now has every row of its account.            *)
LEMMA MineListKeys ==
  ASSUME SyncInv, MineInv, NEW l \in Loads, ListKeys(l) PROVE MineInv'
<1>1. load[l] \in Load /\ load \in [Loads -> Load] /\ LoadOK(load[l], generation, session)
  BY DEF SyncInv, LoadInv
<1>2. /\ load[l].phase = "listed"
      /\ load'[l].generation = load[l].generation /\ load'[l].revision = load[l].revision
      /\ load'[l].keys = OwnedBy(load[l].session)
      /\ \A m \in Loads \ {l} : load'[m] = load[m]
  BY <1>1 DEF ListKeys, Load
<1>3. load[l].generation = generation => load[l].session = session
  BY <1>1, <1>2 DEF LoadOK
<1>4. UNCHANGED <<table, session, generation, revision, confirmed, committedAt, mine>>
  BY DEF ListKeys, serverVars, storeVars, ghosts
<1>5. \A k \in OwnedBy(session) : ~Drops(load'[l], k, generation)
  BY <1>2, <1>3 DEF Drops
<1>6. QED
  BY <1>2, <1>4, <1>5 DEF MineInv, Drops, OwnedBy

LEMMA MineDropList ==
  ASSUME SyncInv, MineInv, NEW l \in Loads, DropList(l) PROVE MineInv'
<1>1. \A m \in Loads : Stands(load'[m], load[m])
  BY NoRequests DEF DropList, Stands, SyncInv, LoadInv
<1>2. QED
  BY <1>1, MineSame DEF DropList, serverVars, storeVars, ghosts

(* A full list replaces everything; a delta drops nothing that is mine.    *)
LEMMA MineReceiveList ==
  ASSUME SyncInv, MineInv, NEW l \in Loads, ReceiveList(l) PROVE MineInv'
<1> DEFINE me == load[l]
           upserted(k) == IF me.rows[k] # None THEN me.rows[k] ELSE Seed(me)[k]
<1>1. /\ me.phase = "answered" /\ me.generation = generation
      /\ UNCHANGED <<table, session, revision, generation>>
      /\ mine' = IF me.full THEN {} ELSE mine
      /\ load' = [load EXCEPT ![l] = NoLoad]
  BY DEF ReceiveList, serverVars
<1>2. \A m \in Loads : Stands(load'[m], load[m])
  BY <1>1, NoRequests DEF Stands, SyncInv, LoadInv
<1>3. CASE me.full
  BY <1>1, <1>2, <1>3 DEF MineInv, Stands
<1>4. CASE ~me.full
  <2>1. ASSUME NEW k \in mine \cap OwnedBy(session)
        PROVE  confirmed'[k] # None /\ committedAt'[k] = committedAt[k]
    <3>1. k \in Keys /\ confirmed[k] # None /\ (Drops(me, k, generation) => me.revision < committedAt[k])
      BY DEF MineInv
    <3>2. me \in Load /\ committedAt[k] \in Nat
      BY <3>1 DEF SyncInv, LoadInv, StoreInv
    <3>3. ~Pruned(k, me)
      BY <1>1, <3>1, <3>2 DEF Pruned, Drops, Load
    <3>4. upserted(k) # None
      BY <3>1 DEF Seed
    <3>5. QED
      BY <1>4, <3>1, <3>3, <3>4 DEF ReceiveList
  <2>2. mine' = mine
    BY <1>1, <1>4
  <2>3. \A k \in mine : \A m \in Loads : Drops(load'[m], k, generation) =>
          Drops(load[m], k, generation) /\ load'[m].revision = load[m].revision
    BY <1>1, <1>2 DEF Drops, Stands
  <2>4. \A m \in Loads : load'[m].phase # "idle" /\ load'[m].generation = generation
                         => load'[m].revision <= revision
    BY <1>2 DEF MineInv, Stands
  <2>5. OwnedBy(session)' = OwnedBy(session)
    BY <1>1 DEF OwnedBy
  <2>6. QED
    BY <1>1, <2>1, <2>2, <2>3, <2>4, <2>5 DEF MineInv
<1>5. QED
  BY <1>3, <1>4

(* A commit is later than every list that is on its way.                   *)
LEMMA MineCommit ==
  ASSUME SyncInv, MineInv, NEW w \in Writes, Commit(w) PROVE MineInv'
<1> DEFINE key == write[w].key
           row == write[w].row
<1>1. /\ revision' = revision + 1 /\ confirmed' = [confirmed EXCEPT ![key] = row]
      /\ committedAt' = [committedAt EXCEPT ![key] = IF row = None THEN 0 ELSE revision + 1]
      /\ mine' = IF row # None /\ ~Free(key) THEN mine \cup {key} ELSE mine \ {key}
      /\ UNCHANGED <<table, session, generation>>
      /\ load' = [l \in Loads |-> [load[l] EXCEPT !.quiet = FALSE]]
  BY DEF Commit, CommitLayer, Disturb, serverVars
<1>2. /\ key \in Keys /\ revision \in Nat /\ confirmed \in Rows
      /\ committedAt \in [Keys -> 0..revision]
  BY DEF Commit, SyncInv, WriteInv, WriteOK, StoreInv
<1> HIDE DEF key, row
<1>3. \A l \in Loads : Stands(load'[l], load[l])
  BY <1>1, QuietStands DEF SyncInv
<1>4. mine' \subseteq Keys /\ (\A k \in mine' : table'[k] # None)
  BY <1>1, <1>2 DEF MineInv, Free
<1>5. ASSUME NEW l \in Loads, load'[l].phase # "idle", load'[l].generation = generation
      PROVE  load'[l].revision = load[l].revision /\ load[l].revision <= revision
  BY <1>3, <1>5 DEF MineInv, Stands
<1>6. \A l \in Loads : load[l].revision \in Nat
  BY DEF SyncInv, LoadInv, Load
<1>7. ASSUME NEW k \in mine', k \in OwnedBy(session)', k = key
      PROVE  /\ confirmed'[k] # None
             /\ \A l \in Loads : Drops(load'[l], k, generation) => load'[l].revision < committedAt'[k]
  <2>1. row # None
    BY <1>1, <1>7
  <2>2. confirmed'[k] # None /\ committedAt'[k] = revision + 1
    BY <1>1, <1>2, <1>7, <2>1 DEF Rows
  <2>3. revision \in Nat
    BY <1>2
  <2>4. QED
    BY <1>5, <1>6, <2>2, <2>3 DEF Drops
<1>8. ASSUME NEW k \in mine', k \in OwnedBy(session)', k # key
      PROVE  /\ confirmed'[k] # None
             /\ \A l \in Loads : Drops(load'[l], k, generation) => load'[l].revision < committedAt'[k]
  <2>1. k \in mine \cap OwnedBy(session) /\ k \in Keys
    BY <1>1, <1>8 DEF OwnedBy
  <2>2. confirmed'[k] = confirmed[k] /\ committedAt'[k] = committedAt[k]
    BY <1>1, <1>2, <1>8, <2>1 DEF Rows
  <2>3. QED
    BY <1>1, <1>3, <2>1, <2>2 DEF MineInv, Drops, Stands
<1>9. \A l \in Loads : load'[l].phase # "idle" /\ load'[l].generation = generation'
                       => load'[l].revision <= revision'
  <2>1. revision' = revision + 1 /\ generation' = generation /\ revision \in Nat
    BY <1>1, <1>2
  <2>2. QED
    BY <1>5, <1>6, <2>1
<1>10. ASSUME NEW k \in mine' \cap OwnedBy(session)'
       PROVE  /\ confirmed'[k] # None
              /\ \A l \in Loads : Drops(load'[l], k, generation') =>
                   load'[l].revision < committedAt'[k]
  BY <1>1, <1>7, <1>8
<1>11. QED
  BY <1>4, <1>9, <1>10 DEF MineInv

(* A change of the session empties the record of what is mine.             *)
LEMMA MineSession ==
  ASSUME SyncInv, MineInv, NEW a \in Accounts, SwitchSession(a) \/ Reload(a) PROVE MineInv'
<1>1. mine' = {} /\ generation' = generation + 1
  BY DEF SwitchSession, Reload, EmptyStore
<1>2. ASSUME NEW l \in Loads
      PROVE  load'[l].phase = "idle" \/ load'[l].generation # generation'
  <2>1. CASE Reload(a)
    BY <2>1, NoRequests DEF Reload
  <2>2. CASE SwitchSession(a)
    <3>1. load[l] \in Load /\ LoadOK(load[l], generation, session)
      BY DEF SyncInv, LoadInv
    <3>2. load'[l].phase = load[l].phase /\ load'[l].generation = load[l].generation
      BY <2>2, <3>1 DEF SwitchSession, Load
    <3>3. generation \in Nat /\ load[l].generation \in Nat
      BY <3>1 DEF SyncInv, SessionInv, Load
    <3>4. QED
      BY <1>1, <3>1, <3>2, <3>3 DEF LoadOK
  <2>3. QED
    BY <2>1, <2>2
<1>3. QED
  BY <1>1, <1>2 DEF MineInv

LEMMA MineNext == SyncInv /\ MineInv /\ [Next]_vars => MineInv'
<1> SUFFICES ASSUME SyncInv, MineInv, [Next]_vars PROVE MineInv'
  OBVIOUS
<1>1. CASE Tick
  BY <1>1, SameStands, MineSame DEF Tick, storeVars, ghosts
<1>2. ASSUME NEW a \in Accounts, NEW k \in Keys, NEW row \in {None, Stamped(a, a)},
             OtherWrites(a, k, row)
      PROVE  MineInv'
  <2>1. row \in Row \cup {None} /\ (row # None => row.owner = a)
    BY StampedRow DEF SyncInv
  <2>2. table[k] # None => table[k].owner = a
    BY <1>2 DEF OtherWrites, OwnedBy, Free
  <2>3. QED
    BY <1>2, <2>1, <2>2, MineExecute DEF OtherWrites
<1>3. ASSUME NEW l \in Loads,
             LoadModel(l) \/ ListRows(l) \/ ListKeys(l) \/ ReceiveList(l) \/ DropList(l)
      PROVE  MineInv'
  BY <1>3, MineLoadModel, MineListRows, MineListKeys, MineReceiveList, MineDropList
<1>4. ASSUME NEW w \in Writes, NEW online \in BOOLEAN,
             NEW op \in {"insert", "update", "delete"}, NEW k \in Keys, Mutate(w, op, k, online)
      PROVE  MineInv'
  BY <1>4, QuietStands, MineSame DEF Mutate, Disturb, SyncInv, serverVars
<1>5. ASSUME NEW w \in Writes, NEW online \in BOOLEAN, RetryWrite(w, online)
      PROVE  MineInv'
  BY <1>5, SameStands, MineSame DEF RetryWrite, serverVars, storeVars, ghosts
<1>6. ASSUME NEW w \in Writes, ExecuteWrite(w) PROVE MineInv'
  <2> DEFINE me == write[w]
             row == IF me.op = "delete" THEN None ELSE Stamped(me.session, me.author)
  <2>1. /\ Execute(me.key, row) /\ UNCHANGED <<session, storeVars>>
        /\ table[me.key] # None => table[me.key].owner = me.session
    BY <1>6 DEF ExecuteWrite, Free, OwnedBy
  <2>2. me.key \in Keys /\ me.session \in Accounts /\ me.author \in Accounts
    BY <1>6 DEF ExecuteWrite, SyncInv, WriteInv, WriteOK
  <2> HIDE DEF me
  <2>3. row \in Row \cup {None} /\ (row # None => row.owner = me.session)
    BY <2>2, StampedRow DEF SyncInv
  <2> HIDE DEF row
  <2>4. QED
    BY <2>1, <2>2, <2>3, MineExecute
<1>7. ASSUME NEW w \in Writes, RefuseWrite(w) \/ Send(w) \/ FinishLate(w) PROVE MineInv'
  BY <1>7, SameStands, MineSame DEF RefuseWrite, Send, FinishLate, serverVars, storeVars, ghosts
<1>8. ASSUME NEW w \in Writes, Commit(w) PROVE MineInv'
  BY <1>8, MineCommit
<1>9. ASSUME NEW w \in Writes, RollBack(w) PROVE MineInv'
  BY <1>9, QuietStands, MineSame DEF RollBack, Disturb, SyncInv, serverVars
<1>10. ASSUME NEW a \in Accounts, SwitchSession(a) \/ Reload(a) PROVE MineInv'
  BY <1>10, MineSession
<1>11. CASE UNCHANGED vars
  BY <1>11, SameStands, MineSame DEF vars, serverVars, storeVars, ghosts
<1>12. QED
  BY <1>1, <1>2, <1>3, <1>4, <1>5, <1>6, <1>7, <1>8, <1>9, <1>10, <1>11 DEF Next

(* No delta drops a row this client wrote and the server holds for the     *)
(* account, whichever lists were in flight when it was confirmed.          *)
THEOREM WritesSurvive == Spec => []ConfirmedWritesSurvive
<1>1. Init => MineInv
  BY NoRequests DEF Init, MineInv
<1>2. MineInv => ConfirmedWritesSurvive
  BY DEF MineInv, ConfirmedWritesSurvive
<1>3. QED
  BY <1>1, <1>2, MineNext, Inductive, PTL DEF Spec
=============================================================================
