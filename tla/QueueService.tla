---------------------------- MODULE QueueService ----------------------------
(***************************************************************************)
(* services/queue.go: the goroutines that serve the queue requests of one  *)
(* room.  A request is idle between requests and steps from one statement  *)
(* or broadcast to the next; the record qreq[q] holds the locals that live *)
(* across them.  Requests the handlers refuse before the service is called *)
(* (bad ids, tokens, URLs, texts, an empty order) change nothing and are   *)
(* left out.                                                               *)
(***************************************************************************)
EXTENDS RoomStore

CONSTANTS
    QCommands,      \* the queue requests the clients of a run send
    ReadError       \* a query that failed with anything but sql.ErrNoRows

ASSUME QueueAssumption ==
    /\ QCommands \subseteq {"add", "delete", "marquee", "reorder"}
    /\ ReadError \notin Items
    /\ ReadError # NoItem

VARIABLE qreq           \* what each queue goroutine is doing

queueVars == <<qreq>>

\* The lists a client can send to Reorder: an admin page sends, in some order,
\* the distinct ids of a queue it once read, so some may be gone by now and
\* some rows may be missing.
Orders ==
    {order \in UNION {[1..n -> used] : n \in 1..Cardinality(used)} :
        \A j, k \in DOMAIN order : order[j] = order[k] => j = k}

Fetched == Items \cup {NoItem, ReadError}

QueueRequests ==
         [at : {"idle", "notifyQueue", "notifyBoth", "notifyConfig"}]
    \cup [at : {"insert"}, count : Nat]
    \cup [at : {"reorder", "commit"}, order : Seq(Items), index : Nat, item : Fetched]
    \cup [at : {"marquee"}, item : Items]

QueueTypeOK == qreq \in [TxReq -> QueueRequests]

QIdle == [at |-> "idle"]

QueueInit == qreq = [q \in TxReq |-> QIdle]

\* A request arrives at an idle goroutine.
QAccept(q, command) == command \in QCommands /\ qreq[q].at = "idle"

QGoto(q, state) == qreq' = [qreq EXCEPT ![q] = state]

-----------------------------------------------------------------------------
(* Add: the count and the insert are two statements, not one transaction.  *)

AddCount(q) ==
    /\ QAccept(q, "add")
    /\ QGoto(q, [at |-> "insert", count |-> QueueItemCount])
    /\ UNCHANGED storeVars

AddInsert(q) ==
    /\ qreq[q].at = "insert"
    /\ WriteLockFree
    /\ \E i \in Items \ used :
          /\ pos' = WithRow(i, qreq[q].count)
          /\ used' = used \cup {i}
    /\ snap' = Outdated
    /\ behind' = behind \cup {"queue"}
    /\ QGoto(q, [at |-> "notifyQueue"])
    /\ UNCHANGED <<curIdx, writer>>

-----------------------------------------------------------------------------
(* Delete: neither the other positions nor current_index are touched.  A   *)
(* DELETE that matches no row commits nothing.                             *)

\* Mutant: no broadcast after the DELETE.
DeleteItem_Silent(q) ==
    /\ QAccept(q, "delete")
    /\ WriteLockFree
    /\ \E i \in Rows : pos' = WithoutRow(i)
    /\ snap' = Outdated
    /\ behind' = behind \cup {"queue"}
    /\ UNCHANGED <<used, curIdx, writer, qreq>>

DeleteItem(q) ==
    /\ QAccept(q, "delete")
    /\ WriteLockFree
    /\ \E i \in used :
          /\ pos' = WithoutRow(i)
          /\ snap' = IF i \in Rows THEN Outdated ELSE snap
          /\ behind' = IF i \in Rows THEN behind \cup {"queue"} ELSE behind
    /\ QGoto(q, [at |-> "notifyQueue"])
    /\ UNCHANGED <<used, curIdx, writer>>

-----------------------------------------------------------------------------
(* UpdateMarqueeText: the check and the update are two statements; the row *)
(* can be gone in between, and then the update matches nothing.            *)

MarqueeCheck(q) ==
    /\ QAccept(q, "marquee")
    /\ \E i \in Rows : QGoto(q, [at |-> "marquee", item |-> i])
    /\ UNCHANGED storeVars

MarqueeUpdate(q) ==
    /\ qreq[q].at = "marquee"
    /\ WriteLockFree
    /\ snap' = IF qreq[q].item \in Rows THEN Outdated ELSE snap
    /\ behind' = IF qreq[q].item \in Rows THEN behind \cup {"queue"} ELSE behind
    /\ QGoto(q, [at |-> "notifyQueue"])
    /\ UNCHANGED <<pos, used, curIdx, writer>>

-----------------------------------------------------------------------------
(* Reorder: one transaction.  Both reads see the same snapshot.  An error  *)
(* of the second one is ignored, sql.ErrNoRows or not.                     *)

ReorderRead(q) ==
    /\ QAccept(q, "reorder")
    /\ \E order \in Orders, found \in FetchedAt(curIdx) \cup {ReadError} :
          QGoto(q, [at |-> "reorder", order |-> order, index |-> curIdx, item |-> found])
    /\ snap' = TxOpened(q)
    /\ UNCHANGED <<pos, used, curIdx, writer, behind>>

\* The first UpdateQueueItemPosition takes the write lock or fails.
ReorderLock(q) ==
    /\ qreq[q].at = "reorder"
    /\ TxMayWrite(q)
    /\ writer' = q
    /\ QGoto(q, [qreq[q] EXCEPT !.at = "commit"])
    /\ UNCHANGED <<pos, used, curIdx, snap, behind>>

\* Mutant: the index stays.
FollowedIndex_NotFollowed(order, index, item) == index

\* currentIndex after the loop that looks for the current item in the list.
FollowedIndex(order, index, item) ==
    IF item \in Listed(order) THEN Slot(order, item) - 1 ELSE index

\* The UPDATEs that are left, and the commit that makes all of them visible.
\* current_index is written only when it differs from what was read.
ReorderCommit(q) ==
    LET req == qreq[q]
        index == FollowedIndex(req.order, req.index, req.item)
    IN  /\ req.at = "commit"
        /\ pos' = Reordered(req.order)
        /\ curIdx' = IF index # req.index THEN index ELSE curIdx
        /\ snap' = IF Listed(req.order) \cap Rows = {} THEN TxClosed(q)
                                        ELSE [Outdated EXCEPT ![q] = "none"]
        /\ writer' = NoReq
        /\ behind' = IF Listed(req.order) \cap Rows = {} THEN behind
                     ELSE behind \cup {"queue"} \cup
                            (IF index # req.index THEN {"config"} ELSE {})
        /\ QGoto(q, [at |-> "notifyBoth"])
        /\ UNCHANGED used

-----------------------------------------------------------------------------
(* broadcastQueueUpdated and broadcastConfigUpdated.                       *)

NotifyQueue(q) ==
    /\ qreq[q].at \in {"notifyQueue", "notifyBoth"}
    /\ behind' = behind \ {"queue"}
    /\ QGoto(q, IF qreq[q].at = "notifyBoth" THEN [at |-> "notifyConfig"] ELSE QIdle)
    /\ UNCHANGED <<pos, used, curIdx, snap, writer>>

NotifyConfig(q) ==
    /\ qreq[q].at = "notifyConfig"
    /\ behind' = behind \ {"config"}
    /\ QGoto(q, QIdle)
    /\ UNCHANGED <<pos, used, curIdx, snap, writer>>

\* Mutant: no Rollback, the transaction keeps its lock.
RequestFails_NoRollback(q) ==
    /\ qreq[q].at \in {"insert", "marquee", "reorder", "commit"}
    /\ QGoto(q, QIdle)
    /\ UNCHANGED storeVars

\* Any statement may fail: the lock was not free in time, the client went away
\* and its context is cancelled, the snapshot is stale.  The deferred Rollback
\* ends the transaction; the handler answers with an error.
RequestFails(q) ==
    /\ qreq[q].at \in {"insert", "marquee", "reorder", "commit"}
    /\ snap' = TxClosed(q)
    /\ writer' = IF writer = q THEN NoReq ELSE writer
    /\ QGoto(q, QIdle)
    /\ UNCHANGED <<pos, used, curIdx, behind>>

-----------------------------------------------------------------------------

\* What a request does once it has started.
QProceed(q) ==
    \/ AddInsert(q)
    \/ MarqueeUpdate(q)
    \/ ReorderLock(q)
    \/ ReorderCommit(q)
    \/ NotifyQueue(q)
    \/ NotifyConfig(q)
    \/ RequestFails(q)

QNext ==
    \E q \in TxReq :
        \/ AddCount(q)
        \/ DeleteItem(q)
        \/ MarqueeCheck(q)
        \/ ReorderRead(q)
        \/ QProceed(q)

=============================================================================
