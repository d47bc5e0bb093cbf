------------------------------ MODULE OptimisticRows ------------------------------
(***************************************************************************)
(* What a store of optimistic mutations promises the page that shows it,   *)
(* without lists, cursors, generations or retries: the rows are of the     *)
(* account signed in; a mutation shows from its start until it is          *)
(* confirmed, undone, or abandoned with the account; confirmed, it leaves  *)
(* the row as it showed it, undone, the rows as they were; abandoned, it   *)
(* changes nothing any more; and a refresh ends no mutation and drops no   *)
(* row that a confirmed one left, for as long as the row lives.            *)
(***************************************************************************)
CONSTANTS Keys, Mutations, Accounts, Nobody

VARIABLES
  user,   \* the account signed in
  rows,   \* per key: the owner of the row the store has confirmed, or Nobody
  shown,  \* the mutations the page shows
  late,   \* the mutations still running that were abandoned
  wish,   \* per running mutation: its key, and whether it deletes the row
  own     \* the keys of rows a mutation confirmed, alive and not replaced

rowVars == <<user, rows, shown, late, wish, own>>

Rows == [Keys -> {Nobody, user}]
Wish == [key : Keys, deletes : BOOLEAN]

RowsInit ==
  /\ user \in Accounts
  /\ rows = [k \in Keys |-> Nobody]
  /\ shown = {}
  /\ late = {}
  /\ wish = [m \in Mutations |-> Nobody]
  /\ own = {}

-----------------------------------------------------------------------------
Begin(m) ==
  /\ m \notin shown \cup late
  /\ shown' = shown \cup {m}
  /\ \E w \in Wish : wish' = [wish EXCEPT ![m] = w]
  /\ UNCHANGED <<user, rows, late, own>>

Over(m) == wish' = [wish EXCEPT ![m] = Nobody]

(* The row may be gone again by the time its mutation is confirmed: then   *)
(* the next refresh may drop it.                                           *)
Confirm(m) ==
  LET key == wish[m].key
  IN /\ m \in shown
     /\ shown' = shown \ {m}
     /\ rows' = [rows EXCEPT ![key] = IF wish[m].deletes THEN Nobody ELSE user]
     /\ own' \in {own \ {key}} \cup (IF wish[m].deletes THEN {} ELSE {own \cup {key}})
     /\ Over(m)
     /\ UNCHANGED <<user, late>>

Undo(m) ==
  /\ m \in shown
  /\ shown' = shown \ {m}
  /\ Over(m)
  /\ UNCHANGED <<user, rows, late, own>>

(* An abandoned mutation ends, whatever the server made of it.             *)
EndLate(m) ==
  /\ m \in late
  /\ late' = late \ {m}
  /\ Over(m)
  /\ UNCHANGED <<user, rows, shown, own>>

-----------------------------------------------------------------------------
(* The changes since the latest refresh.                                   *)
Refresh ==
  /\ rows' \in Rows
  /\ \A k \in own : rows'[k] = user
  /\ UNCHANGED <<user, shown, late, wish, own>>

(* All rows of the account.                                                *)
Replace ==
  /\ rows' \in Rows
  /\ own' = {}
  /\ UNCHANGED <<user, shown, late, wish>>

(* Somebody deletes the row.                                               *)
Vanish(k) ==
  /\ own' = own \ {k}
  /\ UNCHANGED <<user, rows, shown, late, wish>>

-----------------------------------------------------------------------------
Empty(a) ==
  /\ user' = a
  /\ rows' = [k \in Keys |-> Nobody]
  /\ shown' = {}
  /\ own' = {}

Switch(a) == Empty(a) /\ late' = late \cup shown /\ UNCHANGED wish

Restart(a) == Empty(a) /\ late' = {} /\ wish' = [m \in Mutations |-> Nobody]

RowsNext ==
  \/ \E m \in Mutations : Begin(m) \/ Confirm(m) \/ Undo(m) \/ EndLate(m)
  \/ Refresh \/ Replace
  \/ \E k \in Keys : Vanish(k)
  \/ \E a \in Accounts : Switch(a) \/ Restart(a)

RowsSpec == RowsInit /\ [][RowsNext]_rowVars
=============================================================================
