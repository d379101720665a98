------------------------------ MODULE RoomStore ------------------------------
(***************************************************************************)
(* The SQLite store behind one room, as the services use it: the rows of   *)
(* queue_items, the room's current_index, and the locks and snapshots of   *)
(* the database file.  Videos are abstracted to the id of their row.       *)
(***************************************************************************)
EXTENDS SQLite, FiniteSets, Sequences

CONSTANTS
    Items,      \* the ids uuid.New() can hand out for this room's rows
    NoItem      \* no row (sql.ErrNoRows)

ASSUME StoreAssumption ==
    /\ IsFiniteSet(Items)
    /\ NoItem \notin Items

VARIABLES
    pos,        \* queue_items: a function from the ids of the rows to their position
    used,       \* every id a row was ever inserted with
    curIdx,     \* room_config.current_index
    behind      \* what changed in the room and no broadcast has announced since

storeVars == <<pos, used, curIdx, snap, writer, behind>>

Rows == DOMAIN pos

\* What a broadcast makes the admin pages refetch: queue:updated or config:updated.
Notices == {"queue", "config"}

StoreTypeOK ==
    /\ Rows \subseteq used
    /\ pos \in [Rows -> Nat]
    /\ used \subseteq Items
    /\ curIdx \in Nat
    /\ LocksTypeOK
    /\ behind \subseteq Notices

StoreInit ==
    /\ pos = [i \in {} |-> 0]
    /\ used = {}
    /\ curIdx = 0
    /\ LocksInit
    /\ behind = {}

-----------------------------------------------------------------------------
(* Queries.                                                                *)

\* GetQueueItemAtPosition returns one of these: positions are not unique, and
\* the query has no ORDER BY.
ItemsAt(n) == {i \in Rows : pos[i] = n}

\* The possible results of the query, sql.ErrNoRows among them.
FetchedAt(n) == IF ItemsAt(n) = {} THEN {NoItem} ELSE ItemsAt(n)

QueueItemCount == Cardinality(Rows)

-----------------------------------------------------------------------------
(* Statements that write: the rows they leave behind.                      *)

WithRow(i, n) == [j \in Rows \cup {i} |-> IF j = i THEN n ELSE pos[j]]

WithoutRow(i) == [j \in Rows \ {i} |-> pos[j]]

\* order is the list of row ids a client sends; Slot is where it puts row i.
Listed(order) == {order[k] : k \in DOMAIN order}
Slot(order, i) == CHOOSE k \in DOMAIN order : order[k] = i

\* Mutant: positions counted from 1.
Reordered_FromOne(order) ==
    [j \in Rows |-> IF j \in Listed(order) THEN Slot(order, j) ELSE pos[j]]

\* UpdateQueueItemPosition for every id of the list, in turn; ids without a
\* row match nothing.
Reordered(order) ==
    [j \in Rows |-> IF j \in Listed(order) THEN Slot(order, j) - 1 ELSE pos[j]]

=============================================================================
