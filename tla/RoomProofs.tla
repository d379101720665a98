------------------------------ MODULE RoomProofs ------------------------------
(***************************************************************************)
(* Theorems about one room, for any number of rows, goroutines and clock   *)
(* ticks.                                                                  *)
(***************************************************************************)
EXTENDS Room, ViewerSync, FiniteSetTheorems, SequenceTheorems, TLAPS

\* GetQueueItemCount returns a number.
LEMMA CountIsNat ==
    ASSUME StoreTypeOK
    PROVE  QueueItemCount \in Nat
<1>1. IsFiniteSet(Items)
  BY StoreAssumption
<1>2. Rows \subseteq Items
  BY DEF StoreTypeOK
<1>3. IsFiniteSet(Rows)
  BY <1>1, <1>2, FS_Subset
<1> QED
  BY <1>3, FS_CardinalityType DEF QueueItemCount

\* A list a client sends is a sequence of ids.
LEMMA OrdersAreSequences ==
    ASSUME StoreTypeOK, NEW order \in Orders
    PROVE  order \in Seq(Items)
<1>1. PICK n \in 1..Cardinality(used) : order \in [1..n -> used]
  BY DEF Orders
<1>2. IsFiniteSet(used)
  BY StoreAssumption, FS_Subset DEF StoreTypeOK
<1>3. n \in Nat
  BY <1>1, <1>2, FS_CardinalityType
<1>4. order \in [1..n -> Items]
  BY <1>1 DEF StoreTypeOK
<1> QED
  BY <1>3, <1>4, SeqDef

\* A listed id has a slot in the list.
LEMMA SlotIsIndex ==
    ASSUME NEW order \in Seq(Items), NEW i \in Listed(order)
    PROVE  /\ Slot(order, i) \in DOMAIN order
           /\ order[Slot(order, i)] = i
           /\ Slot(order, i) - 1 \in Nat
<1>1. \E k \in DOMAIN order : order[k] = i
  BY DEF Listed
<1>2. Slot(order, i) \in DOMAIN order /\ order[Slot(order, i)] = i
  BY <1>1, Zenon DEF Slot
<1>3. DOMAIN order = 1..Len(order) /\ Len(order) \in Nat
  BY LenProperties
<1> QED
  BY <1>2, <1>3

LEMMA ReorderedType ==
    ASSUME StoreTypeOK, NEW order \in Seq(Items)
    PROVE  /\ Reordered(order) \in [Rows -> Nat]
           /\ DOMAIN Reordered(order) = Rows
<1>1. ASSUME NEW j \in Rows
      PROVE  (IF j \in Listed(order) THEN Slot(order, j) - 1 ELSE pos[j]) \in Nat
  BY SlotIsIndex DEF StoreTypeOK
<1> QED
  BY <1>1 DEF Reordered

LEMMA FollowedIndexType ==
    ASSUME NEW order \in Seq(Items), NEW index \in Nat, NEW item
    PROVE  FollowedIndex(order, index, item) \in Nat
  BY SlotIsIndex DEF FollowedIndex

-----------------------------------------------------------------------------
(* Types                                                                   *)

LEMMA InitTypes == Init => RoomTypeOK
<1> SUFFICES ASSUME Init PROVE RoomTypeOK
  OBVIOUS
<1> USE DEF Init
<1>1. StoreTypeOK
  BY DEF StoreInit, LocksInit, StoreTypeOK, LocksTypeOK, SnapStates, Notices, Rows
<1>2. QueueTypeOK
  BY DEF QueueInit, QueueTypeOK, QueueRequests, QIdle
<1>3. PlaybackTypeOK
  BY DEF PlaybackInit, PlaybackTypeOK, PlaybackRequests, PIdle, Never
<1> QED
  BY <1>1, <1>2, <1>3 DEF RoomTypeOK

LEMMA QueueStepTypes ==
    ASSUME RoomTypeOK, NEW q \in TxReq,
           \/ AddCount(q) \/ DeleteItem(q) \/ MarqueeCheck(q) \/ ReorderRead(q)
           \/ QProceed(q)
    PROVE  StoreTypeOK' /\ QueueTypeOK'
<1> USE DEF RoomTypeOK
<1> DEFINE Req == qreq[q]
<1>r. Req \in QueueRequests
  BY DEF QueueTypeOK
<1>g. ASSUME NEW state \in QueueRequests, QGoto(q, state)
      PROVE  QueueTypeOK'
  BY <1>g DEF QueueTypeOK, QGoto
<1>i. QIdle \in QueueRequests
  BY DEF QIdle, QueueRequests
<1>o. Outdated \in [TxReq -> SnapStates] /\ TxClosed(q) \in [TxReq -> SnapStates]
      /\ [Outdated EXCEPT ![q] = "none"] \in [TxReq -> SnapStates]
  BY DEF Outdated, TxClosed, SnapStates, StoreTypeOK, LocksTypeOK
<1>1. CASE AddCount(q)
  <2>1. [at |-> "insert", count |-> QueueItemCount] \in QueueRequests
    BY CountIsNat DEF QueueRequests
  <2> QED
    BY <1>1, <1>g, <2>1 DEF AddCount, storeVars, StoreTypeOK, LocksTypeOK, Rows
<1>2. CASE DeleteItem(q)
  <2>1. [at |-> "notifyQueue"] \in QueueRequests
    BY DEF QueueRequests
  <2>2. StoreTypeOK'
    BY <1>2, <1>o DEF DeleteItem, StoreTypeOK, LocksTypeOK, Rows, WithoutRow, Notices
  <2> QED
    BY <1>2, <1>g, <2>1, <2>2 DEF DeleteItem
<1>3. CASE MarqueeCheck(q)
  <2>1. PICK i \in Rows : QGoto(q, [at |-> "marquee", item |-> i])
    BY <1>3 DEF MarqueeCheck
  <2>2. [at |-> "marquee", item |-> i] \in QueueRequests
    BY DEF StoreTypeOK, QueueRequests
  <2> QED
    BY <1>3, <1>g, <2>1, <2>2 DEF MarqueeCheck, storeVars, StoreTypeOK, LocksTypeOK, Rows
<1>4. CASE ReorderRead(q)
  <2>1. PICK order \in Orders, found \in FetchedAt(curIdx) \cup {ReadError} :
            QGoto(q, [at |-> "reorder", order |-> order, index |-> curIdx, item |-> found])
    BY <1>4 DEF ReorderRead
  <2>2. found \in Fetched
    BY DEF FetchedAt, ItemsAt, Fetched, StoreTypeOK
  <2>3. [at |-> "reorder", order |-> order, index |-> curIdx, item |-> found] \in QueueRequests
    BY <2>2, OrdersAreSequences DEF QueueRequests, StoreTypeOK
  <2>4. StoreTypeOK'
    BY <1>4 DEF ReorderRead, TxOpened, StoreTypeOK, LocksTypeOK, Rows, SnapStates
  <2> QED
    BY <1>g, <2>1, <2>3, <2>4
<1>5. CASE AddInsert(q)
  <2>1. Req.count \in Nat
    BY <1>5, <1>r DEF AddInsert, QueueRequests
  <2>2. [at |-> "notifyQueue"] \in QueueRequests
    BY DEF QueueRequests
  <2>3. StoreTypeOK'
    <3>1. PICK i \in Items \ used : pos' = WithRow(i, Req.count) /\ used' = used \cup {i}
      BY <1>5 DEF AddInsert
    <3>2. Rows' = Rows \cup {i}
      BY <3>1 DEF WithRow, Rows
    <3>3. pos' \in [Rows' -> Nat]
      BY <3>1, <3>2, <2>1 DEF WithRow, StoreTypeOK
    <3> QED
      BY <1>5, <1>o, <3>1, <3>2, <3>3 DEF AddInsert, StoreTypeOK, LocksTypeOK, Notices
  <2> QED
    BY <1>5, <1>g, <2>2, <2>3 DEF AddInsert
<1>6. CASE MarqueeUpdate(q)
  <2>1. [at |-> "notifyQueue"] \in QueueRequests
    BY DEF QueueRequests
  <2>2. StoreTypeOK'
    BY <1>6, <1>o DEF MarqueeUpdate, StoreTypeOK, LocksTypeOK, Rows, Notices
  <2> QED
    BY <1>6, <1>g, <2>1, <2>2 DEF MarqueeUpdate
<1>7. CASE ReorderLock(q)
  <2>1. [Req EXCEPT !.at = "commit"] \in QueueRequests
    BY <1>7, <1>r DEF ReorderLock, QueueRequests
  <2>2. StoreTypeOK'
    BY <1>7 DEF ReorderLock, StoreTypeOK, LocksTypeOK, Rows
  <2> QED
    BY <1>7, <1>g, <2>1, <2>2 DEF ReorderLock
<1>8. CASE ReorderCommit(q)
  <2> DEFINE next == FollowedIndex(Req.order, Req.index, Req.item)
  <2>1. Req.order \in Seq(Items) /\ Req.index \in Nat
    BY <1>8, <1>r DEF ReorderCommit, QueueRequests
  <2>2. next \in Nat
    BY <2>1, FollowedIndexType
  <2>3. pos' \in [Rows' -> Nat] /\ Rows' = Rows
    BY <1>8, <2>1, ReorderedType DEF ReorderCommit, Rows
  <2>4. curIdx' \in Nat
    BY <1>8, <2>2 DEF ReorderCommit, StoreTypeOK
  <2>5. StoreTypeOK'
    BY <1>8, <1>o, <2>3, <2>4 DEF ReorderCommit, StoreTypeOK, LocksTypeOK, Notices
  <2>6. [at |-> "notifyBoth"] \in QueueRequests
    BY DEF QueueRequests
  <2> QED
    BY <1>8, <1>g, <2>5, <2>6 DEF ReorderCommit
<1>9. CASE NotifyQueue(q)
  <2>1. [at |-> "notifyConfig"] \in QueueRequests
    BY DEF QueueRequests
  <2>2. StoreTypeOK'
    BY <1>9 DEF NotifyQueue, StoreTypeOK, LocksTypeOK, Rows
  <2> QED
    BY <1>9, <1>g, <1>i, <2>1, <2>2 DEF NotifyQueue
<1>10. CASE NotifyConfig(q)
  <2>1. StoreTypeOK'
    BY <1>10 DEF NotifyConfig, StoreTypeOK, LocksTypeOK, Rows
  <2> QED
    BY <1>10, <1>g, <1>i, <2>1 DEF NotifyConfig
<1>11. CASE RequestFails(q)
  <2>1. StoreTypeOK'
    BY <1>11, <1>o DEF RequestFails, StoreTypeOK, LocksTypeOK, Rows
  <2> QED
    BY <1>11, <1>g, <1>i, <2>1 DEF RequestFails
<1> QED
  BY <1>1, <1>2, <1>3, <1>4, <1>5, <1>6, <1>7, <1>8, <1>9, <1>10, <1>11 DEF QProceed

LEMMA PlaybackStepTypes ==
    ASSUME StoreTypeOK, PlaybackTypeOK, PNext
    PROVE  StoreTypeOK' /\ PlaybackTypeOK'
<1>g. ASSUME NEW p \in PReq, NEW state \in PlaybackRequests, PGoto(p, state)
      PROVE  preq' \in [PReq -> PlaybackRequests]
  BY <1>g DEF PlaybackTypeOK, PGoto
<1>i. PIdle \in PlaybackRequests
  BY DEF PIdle, PlaybackRequests
<1>u. UNCHANGED storeVars => StoreTypeOK'
  BY DEF storeVars, StoreTypeOK, LocksTypeOK, Rows
<1>o. Outdated \in [TxReq -> SnapStates]
  BY DEF Outdated, SnapStates, StoreTypeOK, LocksTypeOK
<1>m. \A n \in Int : AtLeastZero(n) \in Nat
  BY DEF AtLeastZero
<1>a. ASSUME NEW p \in PReq, NEW delta \in {1, -1}, Advance(p, delta)
      PROVE  StoreTypeOK' /\ PlaybackTypeOK'
  <2>1. [at |-> "lookup", target |-> AtLeastZero(curIdx + delta)] \in PlaybackRequests
    BY <1>m DEF StoreTypeOK, PlaybackRequests
  <2> QED
    BY <1>a, <1>g, <1>u, <2>1 DEF Advance, PlaybackTypeOK
<1>1. ASSUME NEW p \in PReq, Ended(p) PROVE StoreTypeOK' /\ PlaybackTypeOK'
  <2>1. [at |-> "lock"] \in PlaybackRequests
    BY DEF PlaybackRequests
  <2> QED
    BY <1>1, <1>g, <1>u, <2>1 DEF Ended, PlaybackTypeOK
<1>2. ASSUME NEW p \in PReq, NextOrPrev(p) PROVE StoreTypeOK' /\ PlaybackTypeOK'
  BY <1>2, <1>a DEF NextOrPrev
<1>3. ASSUME NEW p \in PReq, PlayRead(p) PROVE StoreTypeOK' /\ PlaybackTypeOK'
  <2>1. [at |-> "playLookup", target |-> curIdx] \in PlaybackRequests
    BY DEF StoreTypeOK, PlaybackRequests
  <2> QED
    BY <1>3, <1>g, <1>u, <2>1 DEF PlayRead, PlaybackTypeOK
<1>5. ASSUME NEW p \in PReq, EndedLock(p) PROVE StoreTypeOK' /\ PlaybackTypeOK'
  <2>1. [at |-> "check"] \in PlaybackRequests
    BY DEF PlaybackRequests
  <2> QED
    BY <1>5, <1>g, <1>u, <2>1 DEF EndedLock, Lock, PlaybackTypeOK
<1>6. ASSUME NEW p \in PReq, EndedCheck(p) PROVE StoreTypeOK' /\ PlaybackTypeOK'
  <2>1. [at |-> "stamp", now |-> clock] \in PlaybackRequests
    BY DEF PlaybackRequests, PlaybackTypeOK
  <2> QED
    BY <1>6, <1>g, <1>i, <1>u, <2>1 DEF EndedCheck, PlaybackTypeOK
<1>7. ASSUME NEW p \in PReq, EndedStamp(p) PROVE StoreTypeOK' /\ PlaybackTypeOK'
  <2>1. [at |-> "advance"] \in PlaybackRequests
    BY DEF PlaybackRequests
  <2>2. preq[p].now \in Nat
    BY <1>7 DEF EndedStamp, PlaybackTypeOK, PlaybackRequests
  <2> QED
    BY <1>7, <1>g, <1>u, <2>1, <2>2 DEF EndedStamp, PlaybackTypeOK
<1>8. ASSUME NEW p \in PReq, EndedAdvance(p) PROVE StoreTypeOK' /\ PlaybackTypeOK'
  BY <1>8, <1>a DEF EndedAdvance
<1>9. ASSUME NEW p \in PReq, AdvanceLookup(p) PROVE StoreTypeOK' /\ PlaybackTypeOK'
  <2>1. PICK found \in FetchedAt(preq[p].target) :
            PGoto(p, IF found = NoItem THEN PIdle
                     ELSE [at |-> "update", target |-> preq[p].target, item |-> found])
    BY <1>9 DEF AdvanceLookup
  <2>2. found \in Items \cup {NoItem}
    BY DEF FetchedAt, ItemsAt, StoreTypeOK
  <2>3. preq[p].target \in Nat
    BY <1>9 DEF AdvanceLookup, PlaybackTypeOK, PlaybackRequests
  <2>4. found # NoItem =>
            [at |-> "update", target |-> preq[p].target, item |-> found] \in PlaybackRequests
    BY <2>2, <2>3 DEF PlaybackRequests
  <2>5. preq' \in [PReq -> PlaybackRequests]
    BY <1>g, <1>i, <2>1, <2>4
  <2> QED
    BY <1>9, <1>u, <2>1, <2>5 DEF AdvanceLookup, PlaybackTypeOK
<1>10. ASSUME NEW p \in PReq, AdvanceUpdate(p) PROVE StoreTypeOK' /\ PlaybackTypeOK'
  <2>1. preq[p].target \in Nat /\ preq[p].item \in Items
    BY <1>10 DEF AdvanceUpdate, PlaybackTypeOK, PlaybackRequests
  <2>2. [at |-> "load", item |-> preq[p].item] \in PlaybackRequests
    BY <2>1 DEF PlaybackRequests
  <2>3. StoreTypeOK'
    BY <1>10, <1>o, <2>1 DEF AdvanceUpdate, StoreTypeOK, LocksTypeOK, Rows, Notices
  <2> QED
    BY <1>10, <1>g, <2>2, <2>3 DEF AdvanceUpdate, PlaybackTypeOK
<1>11. ASSUME NEW p \in PReq, Load(p) PROVE StoreTypeOK' /\ PlaybackTypeOK'
  <2>1. [at |-> "notifyBoth"] \in PlaybackRequests
    BY DEF PlaybackRequests
  <2>2. preq[p].item \in Items
    BY <1>11 DEF Load, PlaybackTypeOK, PlaybackRequests
  <2> QED
    BY <1>11, <1>g, <1>u, <2>1, <2>2 DEF Load, PlaybackTypeOK
<1>12. ASSUME NEW p \in PReq, PlayLookup(p) PROVE StoreTypeOK' /\ PlaybackTypeOK'
  <2>1. PICK found \in FetchedAt(preq[p].target) :
            PGoto(p, IF found = NoItem THEN PIdle ELSE [at |-> "load", item |-> found])
    BY <1>12 DEF PlayLookup
  <2>2. found \in Items \cup {NoItem}
    BY DEF FetchedAt, ItemsAt, StoreTypeOK
  <2>3. found # NoItem => [at |-> "load", item |-> found] \in PlaybackRequests
    BY <2>2 DEF PlaybackRequests
  <2>4. preq' \in [PReq -> PlaybackRequests]
    BY <1>g, <1>i, <2>1, <2>3
  <2> QED
    BY <1>12, <1>u, <2>1, <2>4 DEF PlayLookup, PlaybackTypeOK
<1>13. ASSUME NEW p \in PReq, PNotifyQueue(p) PROVE StoreTypeOK' /\ PlaybackTypeOK'
  <2>1. [at |-> "notifyConfig"] \in PlaybackRequests
    BY DEF PlaybackRequests
  <2>2. StoreTypeOK'
    BY <1>13 DEF PNotifyQueue, StoreTypeOK, LocksTypeOK, Rows
  <2> QED
    BY <1>13, <1>g, <2>1, <2>2 DEF PNotifyQueue, PlaybackTypeOK
<1>14. ASSUME NEW p \in PReq, PNotifyConfig(p) PROVE StoreTypeOK' /\ PlaybackTypeOK'
  <2>1. StoreTypeOK'
    BY <1>14 DEF PNotifyConfig, StoreTypeOK, LocksTypeOK, Rows
  <2> QED
    BY <1>14, <1>g, <1>i, <2>1 DEF PNotifyConfig, PlaybackTypeOK
<1>15. ASSUME NEW p \in PReq, PlaybackFails(p) PROVE StoreTypeOK' /\ PlaybackTypeOK'
  BY <1>15, <1>g, <1>i, <1>u DEF PlaybackFails, PlaybackTypeOK
<1>16. ASSUME Tick PROVE StoreTypeOK' /\ PlaybackTypeOK'
  BY <1>16, <1>u DEF Tick, PlaybackTypeOK
<1> QED
  BY <1>1, <1>2, <1>3, <1>5, <1>6, <1>7, <1>8, <1>9, <1>10, <1>11, <1>12,
     <1>13, <1>14, <1>15, <1>16 DEF PNext, PProceed

LEMMA StepTypes == RoomTypeOK /\ [Next]_vars => RoomTypeOK'
<1> SUFFICES ASSUME RoomTypeOK, [Next]_vars PROVE RoomTypeOK'
  OBVIOUS
<1>1. CASE QNext /\ UNCHANGED playbackVars
  <2>1. PlaybackTypeOK'
    BY <1>1 DEF playbackVars, PlaybackTypeOK, RoomTypeOK
  <2> QED
    BY <1>1, <2>1, QueueStepTypes DEF QNext, RoomTypeOK
<1>2. CASE PNext /\ UNCHANGED queueVars
  <2>1. QueueTypeOK'
    BY <1>2 DEF queueVars, QueueTypeOK, QueueRequests, Fetched, RoomTypeOK
  <2> QED
    BY <1>2, <2>1, PlaybackStepTypes DEF RoomTypeOK
<1>3. CASE Restart
  BY <1>3 DEF Restart, QIdle, PIdle, Never, SnapStates, RoomTypeOK, StoreTypeOK,
              LocksTypeOK, Rows, QueueTypeOK, QueueRequests, PlaybackTypeOK, PlaybackRequests
<1>4. CASE UNCHANGED vars
  BY <1>4 DEF vars, storeVars, queueVars, playbackVars, RoomTypeOK, StoreTypeOK, LocksTypeOK, Rows,
              QueueTypeOK, PlaybackTypeOK, QueueRequests, Fetched
<1> QED
  BY <1>1, <1>2, <1>3, <1>4 DEF Next

\* Every variable of the room keeps its type: the rows are ids with natural
\* positions, current_index never goes below zero (playback.go:130-133), and a
\* goroutine's locals are what its next statement expects.
THEOREM RoomTypes == Spec => []RoomTypeOK
  BY InitTypes, StepTypes, PTL DEF Spec

-----------------------------------------------------------------------------
(* Changes are announced                                                   *)

LEMMA QueueStepAnnounces ==
    ASSUME RoomTypeOK, ChangesAreAnnounced, UNCHANGED playbackVars, NEW q \in TxReq,
           \/ AddCount(q) \/ DeleteItem(q) \/ MarqueeCheck(q) \/ ReorderRead(q)
           \/ QProceed(q)
    PROVE  ChangesAreAnnounced'
<1>t. DOMAIN qreq = TxReq
  BY DEF RoomTypeOK, QueueTypeOK
<1>g. ASSUME NEW state, QGoto(q, state)
      PROVE  /\ qreq'[q] = state
             /\ \A r \in TxReq : r # q => qreq'[r] = qreq[r]
  BY <1>g, <1>t DEF QGoto
<1>u. preq' = preq
  BY DEF playbackVars
<1> USE DEF ChangesAreAnnounced
<1>1. CASE AddCount(q)
  BY <1>1, <1>g, <1>u DEF AddCount, QAccept, storeVars
<1>2. CASE DeleteItem(q)
  BY <1>2, <1>g, <1>u DEF DeleteItem, QAccept
<1>3. CASE MarqueeCheck(q)
  BY <1>3, <1>g, <1>u DEF MarqueeCheck, QAccept, storeVars
<1>4. CASE ReorderRead(q)
  BY <1>4, <1>g, <1>u DEF ReorderRead, QAccept
<1>5. CASE AddInsert(q)
  BY <1>5, <1>g, <1>u DEF AddInsert
<1>6. CASE MarqueeUpdate(q)
  BY <1>6, <1>g, <1>u DEF MarqueeUpdate
<1>7. CASE ReorderLock(q)
  <2>1. qreq'[q].at = "commit" /\ \A r \in TxReq : r # q => qreq'[r] = qreq[r]
    BY <1>7, <1>t DEF ReorderLock, QGoto, RoomTypeOK, QueueTypeOK, QueueRequests
  <2> QED
    BY <1>7, <2>1, <1>u DEF ReorderLock
<1>8. CASE ReorderCommit(q)
  BY <1>8, <1>g, <1>u DEF ReorderCommit
<1>9. CASE NotifyQueue(q)
  BY <1>9, <1>g, <1>u DEF NotifyQueue, QIdle
<1>10. CASE NotifyConfig(q)
  BY <1>10, <1>g, <1>u DEF NotifyConfig, QIdle
<1>11. CASE RequestFails(q)
  BY <1>11, <1>g, <1>u DEF RequestFails, QIdle
<1> QED
  BY <1>1, <1>2, <1>3, <1>4, <1>5, <1>6, <1>7, <1>8, <1>9, <1>10, <1>11 DEF QProceed

LEMMA PlaybackStepAnnounces ==
    ASSUME RoomTypeOK, ChangesAreAnnounced, UNCHANGED queueVars, PNext
    PROVE  ChangesAreAnnounced'
<1>t. DOMAIN preq = PReq
  BY DEF RoomTypeOK, PlaybackTypeOK
<1>g. ASSUME NEW p \in PReq, NEW state, PGoto(p, state)
      PROVE  /\ preq'[p] = state
             /\ \A r \in PReq : r # p => preq'[r] = preq[r]
  BY <1>g, <1>t DEF PGoto
<1>u. qreq' = qreq
  BY DEF queueVars
<1> USE DEF ChangesAreAnnounced
<1>a. ASSUME NEW p \in PReq, NEW delta, Advance(p, delta), preq[p].at \in {"idle", "advance"}
      PROVE  ChangesAreAnnounced'
  BY <1>a, <1>g, <1>u DEF Advance, storeVars
<1>1. ASSUME NEW p \in PReq, Ended(p) PROVE ChangesAreAnnounced'
  BY <1>1, <1>g, <1>u DEF Ended, PAccept, storeVars
<1>2. ASSUME NEW p \in PReq, NextOrPrev(p) PROVE ChangesAreAnnounced'
  BY <1>2, <1>a DEF NextOrPrev, PAccept
<1>3. ASSUME NEW p \in PReq, PlayRead(p) PROVE ChangesAreAnnounced'
  BY <1>3, <1>g, <1>u DEF PlayRead, PAccept, storeVars
<1>5. ASSUME NEW p \in PReq, EndedLock(p) PROVE ChangesAreAnnounced'
  BY <1>5, <1>g, <1>u DEF EndedLock, storeVars
<1>6. ASSUME NEW p \in PReq, EndedCheck(p) PROVE ChangesAreAnnounced'
  BY <1>6, <1>g, <1>u DEF EndedCheck, PIdle, storeVars
<1>7. ASSUME NEW p \in PReq, EndedStamp(p) PROVE ChangesAreAnnounced'
  BY <1>7, <1>g, <1>u DEF EndedStamp, storeVars
<1>8. ASSUME NEW p \in PReq, EndedAdvance(p) PROVE ChangesAreAnnounced'
  BY <1>8, <1>a DEF EndedAdvance
<1>9. ASSUME NEW p \in PReq, AdvanceLookup(p) PROVE ChangesAreAnnounced'
  <2>1. /\ preq'[p].at \in {"idle", "update"}
        /\ \A r \in PReq : r # p => preq'[r] = preq[r]
    BY <1>9, <1>g DEF AdvanceLookup, PIdle
  <2> QED
    BY <1>9, <2>1, <1>u DEF AdvanceLookup, storeVars
<1>10. ASSUME NEW p \in PReq, AdvanceUpdate(p) PROVE ChangesAreAnnounced'
  BY <1>10, <1>g, <1>u DEF AdvanceUpdate
<1>11. ASSUME NEW p \in PReq, Load(p) PROVE ChangesAreAnnounced'
  BY <1>11, <1>g, <1>u DEF Load, storeVars
<1>12. ASSUME NEW p \in PReq, PlayLookup(p) PROVE ChangesAreAnnounced'
  <2>1. /\ preq'[p].at \in {"idle", "load"}
        /\ \A r \in PReq : r # p => preq'[r] = preq[r]
    BY <1>12, <1>g DEF PlayLookup, PIdle
  <2> QED
    BY <1>12, <2>1, <1>u DEF PlayLookup, storeVars
<1>13. ASSUME NEW p \in PReq, PNotifyQueue(p) PROVE ChangesAreAnnounced'
  BY <1>13, <1>g, <1>u DEF PNotifyQueue
<1>14. ASSUME NEW p \in PReq, PNotifyConfig(p) PROVE ChangesAreAnnounced'
  BY <1>14, <1>g, <1>u DEF PNotifyConfig, PIdle
<1>15. ASSUME NEW p \in PReq, PlaybackFails(p) PROVE ChangesAreAnnounced'
  BY <1>15, <1>g, <1>u DEF PlaybackFails, PIdle, storeVars
<1>16. ASSUME Tick PROVE ChangesAreAnnounced'
  BY <1>16, <1>u DEF Tick, storeVars
<1> QED
  BY <1>1, <1>2, <1>3, <1>5, <1>6, <1>7, <1>8, <1>9, <1>10, <1>11, <1>12,
     <1>13, <1>14, <1>15, <1>16 DEF PNext, PProceed

\* However many requests overlap and fail, what changed in the room has been
\* announced or is going to be (queue.go, playback.go: every broadcast follows its
\* commit and nothing that can fail stands between them).
THEOREM Announced == Spec => []ChangesAreAnnounced
<1>1. Init => ChangesAreAnnounced
  BY DEF Init, StoreInit, LocksInit, ChangesAreAnnounced
<1>2. RoomTypeOK /\ ChangesAreAnnounced /\ [Next]_vars => ChangesAreAnnounced'
  <2> SUFFICES ASSUME RoomTypeOK, ChangesAreAnnounced, [Next]_vars
               PROVE  ChangesAreAnnounced'
    OBVIOUS
  <2>1. CASE QNext /\ UNCHANGED playbackVars
    BY <2>1, QueueStepAnnounces DEF QNext
  <2>2. CASE PNext /\ UNCHANGED queueVars
    BY <2>2, PlaybackStepAnnounces
  <2>3. CASE Restart
    BY <2>3 DEF Restart, ChangesAreAnnounced
  <2>4. CASE UNCHANGED vars
    BY <2>4 DEF vars, storeVars, queueVars, playbackVars, ChangesAreAnnounced
  <2> QED
    BY <2>1, <2>2, <2>3, <2>4 DEF Next
<1> QED
  BY <1>1, <1>2, RoomTypes, PTL DEF Spec

-----------------------------------------------------------------------------
(* The snapshot of a reorder                                               *)

\* A commit outside any transaction needs the write lock, so no reorder is
\* committing, and it leaves no snapshot fresh.
LEMMA AutocommitOutdates ==
    ASSUME SnapshotHolds, RoomTypeOK, WriteLockFree, snap' = Outdated,
           NEW r \in TxReq, qreq[r].at = qreq'[r].at, UNCHANGED writer
    PROVE  /\ snap'[r] # "none" <=> InTransaction(r)'
           /\ writer' = r <=> qreq'[r].at = "commit"
           /\ qreq'[r].at # "commit"
           /\ snap'[r] # "fresh"
<1>1. writer # r
  BY SQLiteAssumption DEF WriteLockFree
<1>2. qreq[r].at # "commit"
  BY <1>1 DEF SnapshotHolds
<1> QED
  BY <1>1, <1>2 DEF SnapshotHolds, Outdated, InTransaction

\* A reorder that lists no row changes nothing.
LEMMA EmptyReorder ==
    ASSUME SnapshotHolds, RoomTypeOK, NEW q \in TxReq, ReorderCommit(q),
           Listed(qreq[q].order) \cap Rows = {}
    PROVE  pos' = pos /\ curIdx' = curIdx
<1>1. /\ qreq[q].order \in Seq(Items)
      /\ qreq[q].item \in FetchedAt(curIdx) \cup {ReadError}
  BY DEF ReorderCommit, SnapshotHolds, RoomTypeOK, QueueTypeOK, QueueRequests
<1>2. Listed(qreq[q].order) \subseteq Items
  <2>1. \A k \in DOMAIN qreq[q].order : qreq[q].order[k] \in Items
    BY <1>1, ElementOfSeq, LenProperties
  <2> QED
    BY <2>1 DEF Listed
<1>3. qreq[q].item \notin Listed(qreq[q].order)
  BY <1>1, <1>2, StoreAssumption, QueueAssumption DEF FetchedAt, ItemsAt
<1>4. pos' = [j \in Rows |-> pos[j]]
  BY DEF ReorderCommit, Reordered
<1> QED
  BY <1>3, <1>4 DEF ReorderCommit, FollowedIndex, RoomTypeOK, StoreTypeOK

LEMMA QueueStepSnapshots ==
    ASSUME RoomTypeOK, SnapshotHolds, NEW q \in TxReq,
           \/ AddCount(q) \/ DeleteItem(q) \/ MarqueeCheck(q) \/ ReorderRead(q)
           \/ QProceed(q)
    PROVE  SnapshotHolds'
<1>t. DOMAIN qreq = TxReq /\ DOMAIN snap = TxReq
  BY DEF RoomTypeOK, QueueTypeOK, StoreTypeOK, LocksTypeOK
<1>g. ASSUME NEW state, QGoto(q, state)
      PROVE  /\ qreq'[q] = state
             /\ \A r \in TxReq : r # q => qreq'[r] = qreq[r]
  BY <1>g, <1>t DEF QGoto
<1>n. NoReq # q
  BY SQLiteAssumption
\* A request outside a transaction that changes nothing of the store.
<1>s. ASSUME NEW state, QGoto(q, state), UNCHANGED storeVars,
             ~ InTransaction(q), state.at \notin {"reorder", "commit"}
      PROVE  SnapshotHolds'
  BY <1>s, <1>g DEF SnapshotHolds, InTransaction, storeVars, FetchedAt, ItemsAt, Rows
\* The same for a statement that commits by itself.
<1>c. ASSUME NEW state, QGoto(q, state), WriteLockFree, snap' = Outdated, UNCHANGED writer,
             ~ InTransaction(q), state.at \notin {"reorder", "commit"}
      PROVE  SnapshotHolds'
  <2>1. ASSUME NEW r \in TxReq, r # q
        PROVE  /\ snap'[r] # "none" <=> InTransaction(r)'
               /\ writer' = r <=> qreq'[r].at = "commit"
               /\ qreq'[r].at # "commit"
               /\ snap'[r] # "fresh"
    BY <1>c, <1>g, <2>1, AutocommitOutdates
  <2>2. /\ snap'[q] = "none"
        /\ ~ InTransaction(q)'
        /\ writer' # q
        /\ qreq'[q].at # "commit"
    BY <1>c, <1>g, <1>n DEF SnapshotHolds, InTransaction, Outdated, WriteLockFree
  <2> QED
    BY <2>1, <2>2 DEF SnapshotHolds
\* A broadcast.
<1>b. ASSUME NEW state, QGoto(q, state), UNCHANGED <<pos, used, curIdx, snap, writer>>,
             ~ InTransaction(q), state.at \notin {"reorder", "commit"}
      PROVE  SnapshotHolds'
  BY <1>b, <1>g DEF SnapshotHolds, InTransaction, FetchedAt, ItemsAt, Rows
<1>1. CASE AddCount(q)
  BY <1>1, <1>s DEF AddCount, QAccept, InTransaction
<1>2. CASE DeleteItem(q)
  <2>1. PICK i \in used :
          /\ pos' = WithoutRow(i)
          /\ snap' = IF i \in Rows THEN Outdated ELSE snap
    BY <1>2 DEF DeleteItem
  <2>2. CASE i \in Rows
    BY <1>2, <1>c, <2>1, <2>2 DEF DeleteItem, QAccept, InTransaction
  <2>3. CASE i \notin Rows
    <3>1. pos' = pos
      BY <2>1, <2>3 DEF WithoutRow, RoomTypeOK, StoreTypeOK, Rows
    <3> QED
      BY <1>2, <1>g, <2>1, <2>3, <3>1
         DEF DeleteItem, QAccept, SnapshotHolds, InTransaction, FetchedAt, ItemsAt, Rows
  <2> QED
    BY <2>2, <2>3
<1>3. CASE MarqueeCheck(q)
  BY <1>3, <1>s DEF MarqueeCheck, QAccept, InTransaction
<1>4. CASE ReorderRead(q)
  <2>1. PICK order \in Orders, found \in FetchedAt(curIdx) \cup {ReadError} :
            QGoto(q, [at |-> "reorder", order |-> order, index |-> curIdx, item |-> found])
    BY <1>4 DEF ReorderRead
  <2>2. writer # q
    BY <1>4 DEF ReorderRead, TxOpened, QAccept, SnapshotHolds
  <2> QED
    BY <1>4, <1>t, <1>g, <2>1, <2>2
       DEF ReorderRead, TxOpened, QAccept, SnapshotHolds, InTransaction, FetchedAt, ItemsAt, Rows
<1>5. CASE AddInsert(q)
  BY <1>5, <1>c DEF AddInsert, InTransaction
<1>6. CASE MarqueeUpdate(q)
  <2>1. CASE qreq[q].item \in Rows
    BY <1>6, <1>c, <2>1 DEF MarqueeUpdate, InTransaction
  <2>2. CASE qreq[q].item \notin Rows
    BY <1>6, <1>b, <2>2 DEF MarqueeUpdate, InTransaction
  <2> QED
    BY <2>1, <2>2
<1>7. CASE ReorderLock(q)
  <2>1. /\ qreq'[q] = [qreq[q] EXCEPT !.at = "commit"]
        /\ \A r \in TxReq : r # q => qreq'[r] = qreq[r]
    BY <1>7, <1>t DEF ReorderLock, QGoto
  <2>2. /\ qreq'[q].at = "commit"
        /\ qreq'[q].index = qreq[q].index
        /\ qreq'[q].item = qreq[q].item
    BY <1>7, <2>1 DEF ReorderLock, RoomTypeOK, QueueTypeOK, QueueRequests
  <2>3. ASSUME NEW r \in TxReq, r # q PROVE qreq[r].at # "commit" /\ writer' # r
    BY <1>7, <2>3, SQLiteAssumption DEF ReorderLock, TxMayWrite, WriteLockFree, SnapshotHolds
  <2>4. /\ UNCHANGED <<pos, curIdx, snap>>
        /\ writer' = q
        /\ snap[q] = "fresh"
        /\ qreq[q].at = "reorder"
    BY <1>7 DEF ReorderLock, TxMayWrite
  <2>5. \A r \in TxReq : r # q => qreq'[r] = qreq[r]
    BY <2>1
  <2> QED
    BY <2>2, <2>3, <2>4, <2>5
       DEF SnapshotHolds, InTransaction, FetchedAt, ItemsAt, Rows
<1>8. CASE ReorderCommit(q)
  <2>0. qreq[q].at = "commit" /\ writer = q /\ writer' = NoReq
    BY <1>8 DEF ReorderCommit, SnapshotHolds
  <2>1. qreq'[q] = [at |-> "notifyBoth"] /\ \A r \in TxReq : r # q => qreq'[r] = qreq[r]
    BY <1>8, <1>g DEF ReorderCommit
  <2>2. snap'[q] = "none"
    BY <1>8, <1>t DEF ReorderCommit, TxClosed, Outdated
  <2>3. ASSUME NEW r \in TxReq, r # q PROVE qreq[r].at # "commit" /\ writer' # r
    BY <2>0, <2>3, SQLiteAssumption DEF SnapshotHolds
  <2>4. CASE Listed(qreq[q].order) \cap Rows = {}
    <3>1. pos' = pos /\ curIdx' = curIdx
      BY <1>8, <2>4, EmptyReorder
    <3>2. \A r \in TxReq : r # q => snap'[r] = snap[r]
      BY <1>8, <1>t, <2>4 DEF ReorderCommit, TxClosed
    <3> QED
      BY <1>n, <2>0, <2>1, <2>2, <2>3, <3>1, <3>2
         DEF SnapshotHolds, InTransaction, FetchedAt, ItemsAt, Rows
  <2>5. CASE Listed(qreq[q].order) \cap Rows # {}
    <3>1. \A r \in TxReq : r # q => /\ snap'[r] # "fresh"
                                    /\ snap'[r] # "none" <=> snap[r] # "none"
      BY <1>8, <1>t, <2>5 DEF ReorderCommit, Outdated
    <3> QED
      BY <1>n, <2>0, <2>1, <2>2, <2>3, <3>1 DEF SnapshotHolds, InTransaction
  <2> QED
    BY <2>4, <2>5
<1>9. CASE NotifyQueue(q)
  BY <1>9, <1>b DEF NotifyQueue, InTransaction, QIdle
<1>10. CASE NotifyConfig(q)
  BY <1>10, <1>b DEF NotifyConfig, InTransaction, QIdle
<1>11. CASE RequestFails(q)
  <2>1. qreq'[q].at = "idle" /\ \A r \in TxReq : r # q => qreq'[r] = qreq[r]
    BY <1>11, <1>g DEF RequestFails, QIdle
  <2>2. snap'[q] = "none" /\ \A r \in TxReq : r # q => snap'[r] = snap[r]
    BY <1>11, <1>t DEF RequestFails, TxClosed
  <2>3. writer' # q /\ \A r \in TxReq : r # q => (writer' = r <=> writer = r)
    BY <1>11, <1>n, SQLiteAssumption DEF RequestFails
  <2> QED
    BY <1>11, <2>1, <2>2, <2>3
       DEF RequestFails, SnapshotHolds, InTransaction, FetchedAt, ItemsAt, Rows
<1> QED
  BY <1>1, <1>2, <1>3, <1>4, <1>5, <1>6, <1>7, <1>8, <1>9, <1>10, <1>11 DEF QProceed

LEMMA PlaybackStepSnapshots ==
    ASSUME RoomTypeOK, SnapshotHolds, UNCHANGED queueVars, PNext
    PROVE  SnapshotHolds'
<1>u. qreq' = qreq
  BY DEF queueVars
<1>1. UNCHANGED <<pos, used, curIdx, snap, writer>> => SnapshotHolds'
  BY <1>u DEF SnapshotHolds, InTransaction, FetchedAt, ItemsAt, Rows
<1>2. ASSUME NEW p \in PReq, AdvanceUpdate(p) PROVE SnapshotHolds'
  <2>1. ASSUME NEW r \in TxReq
        PROVE  /\ snap'[r] # "none" <=> InTransaction(r)'
               /\ writer' = r <=> qreq'[r].at = "commit"
               /\ qreq'[r].at # "commit"
               /\ snap'[r] # "fresh"
    BY <1>u, <1>2, AutocommitOutdates DEF AdvanceUpdate
  <2> QED
    BY <2>1 DEF SnapshotHolds
<1>3. ASSUME NEW p \in PReq, NEW delta, Advance(p, delta) PROVE SnapshotHolds'
  BY <1>1, <1>3 DEF Advance, storeVars
<1> QED
  BY <1>1, <1>2, <1>3
     DEF PNext, PProceed, storeVars, Ended, NextOrPrev, PlayRead, EndedLock, EndedCheck,
         EndedStamp, EndedAdvance, AdvanceLookup, Load, PlayLookup, PNotifyQueue, PNotifyConfig,
         PlaybackFails, Tick

LEMMA StepSnapshots == RoomTypeOK /\ SnapshotHolds /\ [Next]_vars => SnapshotHolds'
<1> SUFFICES ASSUME RoomTypeOK, SnapshotHolds, [Next]_vars PROVE SnapshotHolds'
  OBVIOUS
<1>1. CASE QNext /\ UNCHANGED playbackVars
  BY <1>1, QueueStepSnapshots DEF QNext
<1>2. CASE PNext /\ UNCHANGED queueVars
  BY <1>2, PlaybackStepSnapshots
<1>3. CASE Restart
  BY <1>3, SQLiteAssumption DEF Restart, QIdle, SnapshotHolds, InTransaction
<1>4. CASE UNCHANGED vars
  BY <1>4 DEF vars, storeVars, queueVars, SnapshotHolds, InTransaction, FetchedAt, ItemsAt, Rows
<1> QED
  BY <1>1, <1>2, <1>3, <1>4 DEF Next

\* What a reorder read is still true while its snapshot is not outdated, and no
\* lock or snapshot outlives its request (queue.go:117-131).
THEOREM Snapshots == Spec => []SnapshotHolds
<1>1. Init => SnapshotHolds
  BY SQLiteAssumption DEF Init, StoreInit, LocksInit, QueueInit, QIdle, SnapshotHolds, InTransaction
<1> QED
  BY <1>1, StepSnapshots, RoomTypes, PTL DEF Spec

\* The step in which the transaction of q commits is the action ReorderCommit.
LEMMA CommittingIsCommit ==
    ASSUME RoomTypeOK, [Next]_vars, NEW q \in TxReq, Committing(q)
    PROVE  ReorderCommit(q)
<1>t. DOMAIN qreq = TxReq
  BY DEF RoomTypeOK, QueueTypeOK
<1>1. qreq'[q].at # qreq[q].at
  BY DEF Committing
<1>2. QNext
  BY <1>1 DEF Next, Restart, QIdle, Committing, vars, queueVars
<1>3. PICK r \in TxReq :
          \/ AddCount(r) \/ DeleteItem(r) \/ MarqueeCheck(r) \/ ReorderRead(r) \/ QProceed(r)
  BY <1>2 DEF QNext
<1>4. PICK state : QGoto(r, state)
  BY <1>3 DEF AddCount, DeleteItem, MarqueeCheck, ReorderRead, QProceed, AddInsert, MarqueeUpdate,
              ReorderLock, ReorderCommit, NotifyQueue, NotifyConfig, RequestFails
<1>5. r = q
  BY <1>1, <1>4 DEF QGoto
<1>6. qreq[r].at = "commit" /\ qreq'[r].at = "notifyBoth"
  BY <1>5 DEF Committing
<1>7. ~ RequestFails(r)
  BY <1>6, <1>t DEF RequestFails, QGoto, QIdle
<1>8. ~ (AddCount(r) \/ DeleteItem(r) \/ MarqueeCheck(r) \/ ReorderRead(r) \/ AddInsert(r)
         \/ MarqueeUpdate(r) \/ NotifyQueue(r) \/ NotifyConfig(r))
  BY <1>6 DEF AddCount, DeleteItem, MarqueeCheck, ReorderRead, QAccept, AddInsert, MarqueeUpdate,
              NotifyQueue, NotifyConfig
<1>9. ~ ReorderLock(r)
  BY <1>6 DEF ReorderLock
<1> QED
  BY <1>3, <1>5, <1>7, <1>8, <1>9 DEF QProceed

\* A reorder that lists the current item takes current_index along, whatever
\* overlaps with it (queue.go:125-138,151-169).
THEOREM ReorderKeeps == Spec => ReorderKeepsCurrent
<1>1. ASSUME RoomTypeOK, SnapshotHolds, [Next]_vars, NEW q \in TxReq, NEW i \in Items,
             Committing(q), ItemsAt(curIdx) = {i}, i \in Listed(qreq[q].order),
             qreq[q].item # ReadError
      PROVE  i \in Rows' /\ pos'[i] = curIdx'
  <2> DEFINE order == qreq[q].order
  <2>1. ReorderCommit(q)
    BY <1>1, CommittingIsCommit
  <2>2. order \in Seq(Items) /\ qreq[q].index \in Nat
    BY <1>1 DEF Committing, RoomTypeOK, QueueTypeOK, QueueRequests
  <2>3. qreq[q].item = i /\ qreq[q].index = curIdx
    BY <1>1 DEF Committing, SnapshotHolds, FetchedAt
  <2>4. i \in Rows
    BY <1>1 DEF ItemsAt
  <2>5. i \in Rows' /\ pos'[i] = Slot(order, i) - 1
    BY <1>1, <2>1, <2>4 DEF ReorderCommit, Reordered, Rows
  <2>6. curIdx' = Slot(order, i) - 1
    BY <1>1, <2>1, <2>3 DEF ReorderCommit, FollowedIndex
  <2> QED
    BY <2>5, <2>6
<1>2. RoomTypeOK /\ SnapshotHolds /\ [Next]_vars =>
        \A q \in TxReq : \A i \in Items :
          (/\ Committing(q)
           /\ ItemsAt(curIdx) = {i}
           /\ i \in Listed(qreq[q].order)
           /\ qreq[q].item # ReadError)
          => i \in Rows' /\ pos'[i] = curIdx'
  BY <1>1
<1>3. Spec => [][/\ RoomTypeOK
                 /\ SnapshotHolds
                 /\ [Next]_vars]_vars
  BY RoomTypes, Snapshots, PTL DEF Spec
<1> QED
  BY <1>2, <1>3, PTL DEF ReorderKeepsCurrent

-----------------------------------------------------------------------------
(* The debounce                                                            *)

\* s.mu is held from the lock to the stamp; a goroutine that is about to stamp
\* found the last stamp old enough, and it is still the one it found.
DebounceHolds ==
    /\ \A p \in PReq : mu = p <=> preq[p].at \in {"check", "stamp"}
    /\ \A p \in PReq : preq[p].at = "stamp" =>
          lastAdvance = Never \/ preq[p].now - lastAdvance >= DebounceDur

LEMMA PlaybackStepDebounce ==
    ASSUME PlaybackTypeOK, DebounceHolds, PNext
    PROVE  DebounceHolds'
<1>t. DOMAIN preq = PReq
  BY DEF PlaybackTypeOK
<1>g. ASSUME NEW p \in PReq, NEW state, PGoto(p, state)
      PROVE  /\ preq'[p] = state
             /\ \A r \in PReq : r # p => preq'[r] = preq[r]
  BY <1>g, <1>t DEF PGoto
<1>n. NoReq \notin PReq
  BY PlaybackAssumption
<1> USE DEF DebounceHolds
<1>a. ASSUME NEW p \in PReq, preq'[p].at \notin {"check", "stamp"},
             \A r \in PReq : r # p => preq'[r] = preq[r],
             preq[p].at \notin {"check", "stamp"}, UNCHANGED <<mu, lastAdvance>>
      PROVE  DebounceHolds'
  BY <1>a
<1>b. ASSUME NEW p \in PReq, NEW delta, Advance(p, delta), preq[p].at \in {"idle", "advance"}
      PROVE  DebounceHolds'
  BY <1>b, <1>g DEF Advance
<1>1. ASSUME NEW p \in PReq, Ended(p) PROVE DebounceHolds'
  BY <1>1, <1>g DEF Ended, PAccept
<1>2. ASSUME NEW p \in PReq, NextOrPrev(p) PROVE DebounceHolds'
  BY <1>2, <1>b DEF NextOrPrev, PAccept
<1>3. ASSUME NEW p \in PReq, PlayRead(p) PROVE DebounceHolds'
  BY <1>3, <1>g DEF PlayRead, PAccept
<1>5. ASSUME NEW p \in PReq, EndedLock(p) PROVE DebounceHolds'
  BY <1>5, <1>g, <1>n DEF EndedLock, Lock
<1>6. ASSUME NEW p \in PReq, EndedCheck(p) PROVE DebounceHolds'
  <2>1. mu = p
    BY <1>6 DEF EndedCheck
  <2>2. CASE Debounced
    BY <1>6, <1>g, <1>n, <2>1, <2>2 DEF EndedCheck, PIdle
  <2>3. CASE ~ Debounced
    <3>1. /\ preq'[p] = [at |-> "stamp", now |-> clock]
          /\ \A r \in PReq : r # p => preq'[r] = preq[r]
          /\ UNCHANGED <<mu, lastAdvance>>
      BY <1>6, <1>g, <2>3 DEF EndedCheck
    <3>2. lastAdvance = Never \/ clock - lastAdvance >= DebounceDur
      BY <2>3, PlaybackAssumption DEF Debounced, PlaybackTypeOK, Never
    <3> QED
      BY <2>1, <3>1, <3>2
  <2> QED
    BY <2>2, <2>3
<1>7. ASSUME NEW p \in PReq, EndedStamp(p) PROVE DebounceHolds'
  BY <1>7, <1>g, <1>n DEF EndedStamp
<1>8. ASSUME NEW p \in PReq, EndedAdvance(p) PROVE DebounceHolds'
  BY <1>8, <1>b DEF EndedAdvance
<1>9. ASSUME NEW p \in PReq, AdvanceLookup(p) PROVE DebounceHolds'
  <2>1. /\ preq'[p].at \in {"idle", "update"}
        /\ \A r \in PReq : r # p => preq'[r] = preq[r]
    BY <1>9, <1>g DEF AdvanceLookup, PIdle
  <2> QED
    BY <1>9, <1>a, <2>1 DEF AdvanceLookup
<1>10. ASSUME NEW p \in PReq, AdvanceUpdate(p) PROVE DebounceHolds'
  BY <1>10, <1>g DEF AdvanceUpdate
<1>11. ASSUME NEW p \in PReq, Load(p) PROVE DebounceHolds'
  BY <1>11, <1>g DEF Load
<1>12. ASSUME NEW p \in PReq, PlayLookup(p) PROVE DebounceHolds'
  <2>1. /\ preq'[p].at \in {"idle", "load"}
        /\ \A r \in PReq : r # p => preq'[r] = preq[r]
    BY <1>12, <1>g DEF PlayLookup, PIdle
  <2> QED
    BY <1>12, <1>a, <2>1 DEF PlayLookup
<1>13. ASSUME NEW p \in PReq, PNotifyQueue(p) PROVE DebounceHolds'
  BY <1>13, <1>g DEF PNotifyQueue
<1>14. ASSUME NEW p \in PReq, PNotifyConfig(p) PROVE DebounceHolds'
  BY <1>14, <1>g DEF PNotifyConfig, PIdle
<1>15. ASSUME NEW p \in PReq, PlaybackFails(p) PROVE DebounceHolds'
  BY <1>15, <1>g DEF PlaybackFails, PIdle
<1>16. ASSUME Tick PROVE DebounceHolds'
  BY <1>16 DEF Tick
<1> QED
  BY <1>1, <1>2, <1>3, <1>5, <1>6, <1>7, <1>8, <1>9, <1>10, <1>11, <1>12,
     <1>13, <1>14, <1>15, <1>16 DEF PNext, PProceed

\* Two video-ended signals are never accepted within the debounce interval
\* (playback.go:71-84).
THEOREM Spacing == Spec => AutoAdvanceSpacing
<1>1. Init => DebounceHolds
  BY SQLiteAssumption, PlaybackAssumption DEF Init, PlaybackInit, PIdle, DebounceHolds
<1>2. RoomTypeOK /\ DebounceHolds /\ [Next]_vars => DebounceHolds'
  <2> SUFFICES ASSUME RoomTypeOK, DebounceHolds, [Next]_vars PROVE DebounceHolds'
    OBVIOUS
  <2>1. CASE UNCHANGED playbackVars
    BY <2>1 DEF playbackVars, DebounceHolds
  <2>2. CASE PNext
    BY <2>2, PlaybackStepDebounce DEF RoomTypeOK
  <2>3. CASE Restart
    BY <2>3, PlaybackAssumption DEF Restart, PIdle, DebounceHolds
  <2> QED
    BY <2>1, <2>2, <2>3 DEF Next, vars, playbackVars
<1>3. DebounceHolds =>
        \A p \in PReq :
          preq[p].at = "stamp" /\ preq'[p].at = "advance"
          => lastAdvance = Never \/ preq[p].now - lastAdvance >= DebounceDur
  BY DEF DebounceHolds
<1>4. Spec => []DebounceHolds
  BY <1>1, <1>2, RoomTypes, PTL DEF Spec
<1> QED
  BY <1>3, <1>4, PTL DEF AutoAdvanceSpacing

-----------------------------------------------------------------------------
(* Positions                                                               *)

\* A reorder keeps the list of distinct ids it was sent.
OrdersInjective ==
    \A q \in TxReq : qreq[q].at \in {"reorder", "commit"} => IsInjective(qreq[q].order)

\* A step of the queue gives one goroutine a new state; its list comes from
\* Orders or was there before.
LEMMA StepOrders == RoomTypeOK /\ OrdersInjective /\ [Next]_vars => OrdersInjective'
<1> SUFFICES ASSUME RoomTypeOK, OrdersInjective, [Next]_vars PROVE OrdersInjective'
  OBVIOUS
<1>t. DOMAIN qreq = TxReq
  BY DEF RoomTypeOK, QueueTypeOK
<1>g. ASSUME NEW q \in TxReq, NEW state, QGoto(q, state),
             state.at \in {"reorder", "commit"} => IsInjective(state.order)
      PROVE  OrdersInjective'
  BY <1>g, <1>t DEF QGoto, OrdersInjective, IsInjective
<1>1. CASE UNCHANGED qreq
  BY <1>1 DEF OrdersInjective, IsInjective
<1>2. ASSUME NEW q \in TxReq, ReorderRead(q) PROVE OrdersInjective'
  <2>1. PICK order \in Orders, found \in FetchedAt(curIdx) \cup {ReadError} :
            QGoto(q, [at |-> "reorder", order |-> order, index |-> curIdx, item |-> found])
    BY <1>2 DEF ReorderRead
  <2>2. IsInjective(order)
    BY DEF Orders, IsInjective
  <2> QED
    BY <1>g, <2>1, <2>2
<1>3. ASSUME NEW q \in TxReq, ReorderLock(q) PROVE OrdersInjective'
  <2> DEFINE state == [qreq[q] EXCEPT !.at = "commit"]
  <2>1. state.order = qreq[q].order
    BY <1>3 DEF ReorderLock, RoomTypeOK, QueueTypeOK, QueueRequests
  <2>2. IsInjective(state.order)
    BY <1>3, <2>1 DEF ReorderLock, OrdersInjective, IsInjective
  <2> QED
    BY <1>3, <1>g, <2>2 DEF ReorderLock
<1>4. ASSUME NEW q \in TxReq,
             \/ AddCount(q) \/ DeleteItem(q) \/ MarqueeCheck(q) \/ AddInsert(q)
             \/ MarqueeUpdate(q) \/ ReorderCommit(q) \/ NotifyQueue(q) \/ NotifyConfig(q)
             \/ RequestFails(q)
      PROVE  OrdersInjective'
  <2>g. ASSUME NEW state, QGoto(q, state), state.at \notin {"reorder", "commit"}
        PROVE  OrdersInjective'
    BY <1>g, <2>g
  <2>1. CASE AddCount(q) \/ DeleteItem(q) \/ AddInsert(q)
    BY <2>1, <2>g DEF AddCount, DeleteItem, AddInsert
  <2>2. CASE MarqueeCheck(q)
    BY <2>2, <2>g DEF MarqueeCheck
  <2>3. CASE MarqueeUpdate(q) \/ ReorderCommit(q)
    BY <2>3, <2>g DEF MarqueeUpdate, ReorderCommit
  <2>4. CASE NotifyQueue(q) \/ NotifyConfig(q) \/ RequestFails(q)
    BY <2>4, <2>g DEF NotifyQueue, NotifyConfig, RequestFails, QIdle
  <2> QED
    BY <1>4, <2>1, <2>2, <2>3, <2>4
<1>5. CASE Restart
  BY <1>5 DEF Restart, QIdle, OrdersInjective
<1> QED
  BY <1>1, <1>2, <1>3, <1>4, <1>5 DEF Next, QNext, QProceed, vars, queueVars

\* An Add whose count is still right puts its row behind the others.
LEMMA AddAppends ==
    ASSUME RoomTypeOK, Contiguous, NEW q \in TxReq, AddInsert(q), ~ Overtaken(q)
    PROVE  Contiguous'
<1>1. PICK i \in Items \ used : pos' = WithRow(i, qreq[q].count)
  BY DEF AddInsert
<1>2. i \notin Rows
  BY <1>1 DEF RoomTypeOK, StoreTypeOK
<1>3. qreq[q].count = Cardinality(Rows)
  BY DEF AddInsert, Overtaken, QueueItemCount
<1>4. IsFiniteSet(Rows)
  BY StoreAssumption, FS_Subset DEF RoomTypeOK, StoreTypeOK
<1>5. Cardinality(Rows) \in Nat
  BY <1>4, FS_CardinalityType
<1>6. Rows' = Rows \cup {i}
  BY <1>1 DEF WithRow, Rows
<1>7. Cardinality(Rows') = Cardinality(Rows) + 1
  BY <1>2, <1>4, <1>6, FS_AddElement
<1>8. \A j \in Rows' : pos'[j] = IF j = i THEN Cardinality(Rows) ELSE pos[j]
  BY <1>1, <1>3, <1>6 DEF WithRow
<1>9. \A j \in Rows : pos[j] \in Nat /\ pos[j] < Cardinality(Rows)
  BY DEF RoomTypeOK, StoreTypeOK, Contiguous
<1>10. \A j \in Rows' : pos'[j] < Cardinality(Rows')
  BY <1>5, <1>6, <1>7, <1>8, <1>9
<1>11. \A j, k \in Rows' : pos'[j] = pos'[k] => j = k
  BY <1>5, <1>6, <1>8, <1>9 DEF Contiguous
<1> QED
  BY <1>10, <1>11 DEF Contiguous

\* A reorder that lists the rows there are numbers them from 0.
LEMMA CompleteReorderNumbers ==
    ASSUME RoomTypeOK, OrdersInjective, NEW q \in TxReq, ReorderCommit(q), ~ Partial(q)
    PROVE  Contiguous'
<1> DEFINE order == qreq[q].order
<1>1. qreq[q].at = "commit" /\ pos' = Reordered(order)
  BY DEF ReorderCommit
<1>2. order \in Seq(Items)
  BY <1>1 DEF RoomTypeOK, QueueTypeOK, QueueRequests
<1>3. Listed(order) = Rows
  BY <1>1 DEF Partial
<1>4. IsInjective(order)
  BY <1>1 DEF OrdersInjective
<1>5. DOMAIN order = 1..Len(order) /\ Len(order) \in Nat
  BY <1>2, LenProperties
<1>6. Cardinality(Rows) = Len(order)
  <2>1. order \in Surjection(1..Len(order), Rows)
    <3>1. order \in [1..Len(order) -> Rows]
      BY <1>2, <1>3, <1>5 DEF Listed
    <3> QED
      BY <1>3, <1>5, <3>1 DEF Surjection, Listed
  <2>2. order \in Injection(1..Len(order), Rows)
    BY <1>4, <1>5, <2>1 DEF Injection, Surjection, IsInjective
  <2>3. IsFiniteSet(1..Len(order)) /\ Cardinality(1..Len(order)) = Len(order)
    <3> DEFINE n == Len(order)
    <3>1. n \in Nat
      BY <1>5
    <3> HIDE DEF n
    <3>2. IsFiniteSet(1..n) /\ Cardinality(1..n) = n
      BY <3>1, FS_Interval
    <3> QED
      BY <3>2 DEF n
  <2> QED
    BY <2>1, <2>2, <2>3, FS_Surjection
<1>7. Rows' = Rows
  BY <1>1 DEF Reordered, Rows
<1>8. \A j \in Rows : pos'[j] = Slot(order, j) - 1
  BY <1>1, <1>3 DEF Reordered
<1>9. \A j \in Rows : Slot(order, j) \in 1..Len(order) /\ order[Slot(order, j)] = j
  BY <1>2, <1>3, <1>5, SlotIsIndex
<1>10. \A j \in Rows' : pos'[j] < Cardinality(Rows')
  BY <1>5, <1>6, <1>7, <1>8, <1>9
<1>11. \A j, k \in Rows' : pos'[j] = pos'[k] => j = k
  <2> SUFFICES ASSUME NEW j \in Rows, NEW k \in Rows, pos'[j] = pos'[k] PROVE j = k
    BY <1>7
  <2>1. Slot(order, j) = Slot(order, k)
    BY <1>5, <1>8, <1>9
  <2> QED
    BY <1>9, <2>1
<1> QED
  BY <1>10, <1>11 DEF Contiguous

\* Positions stay 0 .. n-1 whatever overlaps, unless a row is deleted, an Add
\* inserts at a count that is out of date, or a reorder lists other rows than there
\* are (queue.go:46-49,110-115).
THEOREM PositionsKept == Spec => ContiguityKept
<1>1. ASSUME RoomTypeOK, OrdersInjective, [Next]_vars, Contiguous, ~ BreaksContiguity
      PROVE  Contiguous'
  <2>1. CASE UNCHANGED pos
    BY <1>1, <2>1 DEF Contiguous, Rows
  <2>2. ASSUME NEW q \in TxReq, AddInsert(q) PROVE Contiguous'
    <3>1. qreq'[q].at = "notifyQueue"
      BY <1>1, <2>2 DEF AddInsert, QGoto, RoomTypeOK, QueueTypeOK
    <3>2. ~ Overtaken(q)
      BY <1>1, <3>1 DEF BreaksContiguity
    <3> QED
      BY <1>1, <2>2, <3>2, AddAppends
  <2>3. ASSUME NEW q \in TxReq, ReorderCommit(q) PROVE Contiguous'
    <3>1. qreq'[q].at = "notifyBoth"
      BY <1>1, <2>3 DEF ReorderCommit, QGoto, RoomTypeOK, QueueTypeOK
    <3>2. ~ Partial(q)
      BY <1>1, <3>1 DEF BreaksContiguity
    <3> QED
      BY <1>1, <2>3, <3>2, CompleteReorderNumbers
  <2>4. ASSUME NEW q \in TxReq, DeleteItem(q) PROVE Contiguous'
    <3>1. PICK i \in used : pos' = WithoutRow(i)
      BY <2>4 DEF DeleteItem
    <3>2. i \notin Rows
      BY <1>1, <3>1 DEF BreaksContiguity, WithoutRow, Rows
    <3>3. pos' = pos
      BY <1>1, <3>1, <3>2 DEF WithoutRow, RoomTypeOK, StoreTypeOK, Rows
    <3> QED
      BY <2>1, <3>3
  <2>5. CASE QNext
    BY <2>1, <2>2, <2>3, <2>4, <2>5
       DEF QNext, QProceed, AddCount, MarqueeCheck, ReorderRead, MarqueeUpdate, ReorderLock,
           NotifyQueue, NotifyConfig, RequestFails, storeVars
  <2>6. CASE PNext
    BY <2>1, <2>6
       DEF PNext, PProceed, Ended, NextOrPrev, PlayRead, EndedLock, EndedCheck, EndedStamp,
           EndedAdvance, Advance, AdvanceLookup, AdvanceUpdate, Load, PlayLookup, PNotifyQueue,
           PNotifyConfig, PlaybackFails, Tick, storeVars
  <2> QED
    BY <1>1, <2>1, <2>5, <2>6 DEF Next, Restart, vars, storeVars
<1>2. Init => OrdersInjective
  BY DEF Init, QueueInit, QIdle, OrdersInjective
<1>3. Spec => [][/\ RoomTypeOK
                 /\ OrdersInjective
                 /\ [Next]_vars]_vars
  BY <1>2, RoomTypes, StepOrders, PTL DEF Spec
<1>4. RoomTypeOK /\ OrdersInjective /\ [Next]_vars =>
        (Contiguous /\ ~ BreaksContiguity => Contiguous')
  BY <1>1
<1> QED
  BY <1>3, <1>4, PTL DEF ContiguityKept

-----------------------------------------------------------------------------
(* The room implements a playlist                                          *)

\* A list of distinct ids has as many slots as ids.
LEMMA ListedCount ==
    ASSUME NEW order \in Seq(Items), IsInjective(order)
    PROVE  IsFiniteSet(Listed(order)) /\ Cardinality(Listed(order)) = Len(order)
<1> DEFINE S == Listed(order)
<1>1. DOMAIN order = 1..Len(order) /\ Len(order) \in Nat
  BY LenProperties
<1>2. order \in Surjection(1..Len(order), S)
  <2>1. order \in [1..Len(order) -> S]
    <3>1. \A k \in 1..Len(order) : order[k] \in S
      BY <1>1 DEF Listed
    <3>2. order = [k \in 1..Len(order) |-> order[k]]
      BY <1>1, ElementOfSeq, SeqDef
    <3> QED
      BY <3>1, <3>2
  <2> QED
    BY <1>1, <2>1 DEF Surjection, Listed
<1>3. order \in Injection(1..Len(order), S)
  BY <1>1, <1>2 DEF Injection, Surjection, IsInjective
<1>4. IsFiniteSet(1..Len(order)) /\ Cardinality(1..Len(order)) = Len(order)
  <2> DEFINE n == Len(order)
  <2>1. n \in Nat
    BY <1>1
  <2> HIDE DEF n
  <2>2. IsFiniteSet(1..n) /\ Cardinality(1..n) = n
    BY <2>1, FS_Interval
  <2> QED
    BY <2>2 DEF n
<1> QED
  BY <1>2, <1>3, <1>4, FS_Surjection

\* The playlist counts as the room does.
LEMMA SameCount == \A S : PL!Cardinality(S) = Cardinality(S)
BY DEF PL!Cardinality, Cardinality

\* The places a list gives the rows it names.
LEMMA OrderPlaces ==
    ASSUME StoreTypeOK, NEW order \in Orders
    PROVE  /\ Listed(order) \subseteq Items
           /\ [i \in Listed(order) |-> Slot(order, i) - 1] \in PL!Places(Listed(order))
<1> DEFINE S == Listed(order)
           place == [i \in S |-> Slot(order, i) - 1]
<1>1. order \in Seq(Items)
  BY OrdersAreSequences
<1>2. DOMAIN order = 1..Len(order) /\ Len(order) \in Nat
  BY <1>1, LenProperties
<1>3. IsInjective(order)
  BY DEF Orders, IsInjective
<1>4. Cardinality(S) = Len(order)
  BY <1>1, <1>3, ListedCount
<1>5. S \subseteq Items
  <2>1. \A k \in DOMAIN order : order[k] \in Items
    BY <1>1, <1>2, ElementOfSeq
  <2> QED
    BY <2>1 DEF Listed
<1>6. \A i \in S : Slot(order, i) \in 1..Len(order) /\ order[Slot(order, i)] = i
  BY <1>1, <1>2, SlotIsIndex
<1>7. place \in [S -> 0..(Cardinality(S) - 1)]
  <2>1. \A i \in S : Slot(order, i) - 1 \in 0..(Len(order) - 1)
    BY <1>2, <1>6
  <2> QED
    BY <1>4, <2>1
<1>8. \A i, j \in S : place[i] = place[j] => i = j
  <2> SUFFICES ASSUME NEW i \in S, NEW j \in S, place[i] = place[j] PROVE i = j
    OBVIOUS
  <2>1. Slot(order, i) = Slot(order, j)
    BY <1>2, <1>6
  <2> QED
    BY <1>6, <2>1
<1> HIDE DEF place, S
<1>9. place \in PL!Places(S)
  BY <1>7, <1>8, SameCount DEF PL!Places
<1> QED
  BY <1>5, <1>9 DEF place, S

\* A goroutine that goes from one state to another changes what it is shown as, and
\* nothing else.
LEMMA EditsGoto ==
    ASSUME RoomTypeOK, NEW q \in TxReq, NEW state, QGoto(q, state)
    PROVE  Edits' = [Edits EXCEPT ![q] = Edit(state)] /\ Edits[q] = Edit(qreq[q])
BY DEF RoomTypeOK, QueueTypeOK, QGoto, Edits

LEMMA MovesGoto ==
    ASSUME RoomTypeOK, NEW p \in PReq, NEW state, PGoto(p, state)
    PROVE  Moves' = [Moves EXCEPT ![p] = Move(state)] /\ Moves[p] = Move(preq[p])
BY DEF RoomTypeOK, PlaybackTypeOK, PGoto, Moves

LEMMA RoomReadsAreCurrent ==
    /\ PL!Rows = Rows
    /\ PL!Current = FetchedAt(curIdx)
    /\ \A n : PL!At(n) = ItemsAt(n)
BY DEF PL!Rows, PL!Current, PL!At, Rows, ItemsAt, FetchedAt

LEMMA QueueStepPlaylist ==
    ASSUME RoomTypeOK, SnapshotHolds, NEW q \in TxReq, UNCHANGED playbackVars,
           \/ AddCount(q) \/ DeleteItem(q) \/ MarqueeCheck(q) \/ ReorderRead(q)
           \/ QProceed(q)
    PROVE  [PL!Next]_(PL!vars)
<1>m. UNCHANGED Moves
  BY DEF playbackVars, Moves
<1>i. Edit(QIdle) = PL!None
  BY DEF Edit, QIdle, PL!None
<1>v. Edits[q] = Edit(qreq[q])
  BY DEF Edits
<1>n. qreq[q].at \in {"idle", "marquee"} => Edits[q] = PL!None
  BY <1>v DEF Edit, PL!None
<1>d. ASSUME NEW state, QGoto(q, state), state.at \in {"notifyQueue", "notifyBoth"}
      PROVE  PL!Effect(q)
  <2>1. Edit(state) = PL!Done
    BY <1>d DEF Edit, PL!Done
  <2> QED
    BY <1>d, <1>m, <2>1, EditsGoto DEF PL!Effect
<1>e. ASSUME NEW state, QGoto(q, state), Edit(state) = PL!None, UNCHANGED <<pos, used, curIdx>>
      PROVE  PL!Next
  <2>1. Edits' = [Edits EXCEPT ![q] = PL!None]
    BY <1>e, EditsGoto
  <2>2. Edits' = [r \in TxReq |-> IF r \in {q} THEN PL!None ELSE Edits[r]]
    BY <2>1 DEF Edits
  <2>3. Moves' = [p \in PReq |-> IF p \in {} THEN PL!None ELSE Moves[p]]
    BY <1>m DEF Moves
  <2>4. PL!End({q}, {})
    BY <1>e, <2>2, <2>3 DEF PL!End
  <2> QED
    BY <2>4 DEF PL!Next
<1>s. ASSUME NEW state, QGoto(q, state), Edit(state) = Edit(qreq[q]),
             UNCHANGED <<pos, used, curIdx>>
      PROVE  UNCHANGED PL!vars
  <2>1. Edits' = [Edits EXCEPT ![q] = Edits[q]]
    BY <1>s, EditsGoto
  <2>2. Edits' = Edits
    BY <2>1 DEF Edits
  <2> QED
    BY <1>m, <1>s, <2>2 DEF PL!vars
<1>1. CASE AddCount(q)
  <2>1. QGoto(q, [at |-> "insert", count |-> Cardinality(PL!Rows)])
    BY <1>1, RoomReadsAreCurrent DEF AddCount, QueueItemCount
  <2>2. Edits[q] = PL!None
    BY <1>1, <1>n DEF AddCount, QAccept
  <2>3. Edit([at |-> "insert", count |-> Cardinality(PL!Rows)])
           = [op |-> "add", at |-> Cardinality(PL!Rows)]
    BY DEF Edit
  <2>4. Edits' = [Edits EXCEPT ![q] = [op |-> "add", at |-> Cardinality(PL!Rows)]]
    BY <2>1, <2>3, EditsGoto
  <2>5. UNCHANGED <<pos, used, curIdx>>
    BY <1>1 DEF AddCount, storeVars
  <2>6. PL!Asks(q, [op |-> "add", at |-> Cardinality(PL!Rows)])
    BY <1>m, <2>2, <2>4, <2>5 DEF PL!Asks
  <2>7. PL!AskAdd(q)
    BY <2>6, SameCount DEF PL!AskAdd
  <2> QED
    BY <2>7 DEF PL!Next
<1>2. CASE AddInsert(q)
  <2>1. qreq[q].at = "insert" /\ QGoto(q, [at |-> "notifyQueue"])
    BY <1>2 DEF AddInsert
  <2>2. Edits[q] = [op |-> "add", at |-> qreq[q].count]
    BY <1>v, <2>1 DEF Edit
  <2>3. PL!Effect(q)
    BY <1>d, <2>1
  <2>4. PL!Add(q)
    BY <1>2, <2>2, <2>3, RoomReadsAreCurrent DEF AddInsert, WithRow, PL!Add
  <2> QED
    BY <2>4 DEF PL!Next
<1>3. CASE DeleteItem(q)
  <2>1. qreq[q].at = "idle" /\ QGoto(q, [at |-> "notifyQueue"])
    BY <1>3 DEF DeleteItem, QAccept
  <2>2. Edits[q] = PL!None
    BY <1>n, <2>1
  <2>3. PL!Effect(q)
    BY <1>d, <2>1
  <2>4. PL!Delete(q)
    BY <1>3, <2>2, <2>3, RoomReadsAreCurrent DEF DeleteItem, WithoutRow, PL!Delete
  <2> QED
    BY <2>4 DEF PL!Next
<1>4. CASE MarqueeCheck(q)
  <2>1. PICK i \in Rows : QGoto(q, [at |-> "marquee", item |-> i])
    BY <1>4 DEF MarqueeCheck
  <2>2. Edit([at |-> "marquee", item |-> i]) = Edit(qreq[q])
    BY <1>4 DEF MarqueeCheck, QAccept, Edit
  <2> QED
    BY <1>4, <1>s, <2>1, <2>2 DEF MarqueeCheck, storeVars
<1>5. CASE MarqueeUpdate(q)
  <2>1. qreq[q].at = "marquee" /\ QGoto(q, [at |-> "notifyQueue"])
    BY <1>5 DEF MarqueeUpdate
  <2>2. Edits[q] = PL!None
    BY <1>n, <2>1
  <2>3. PL!Effect(q)
    BY <1>d, <2>1
  <2>4. PL!Label(q)
    BY <1>5, <2>2, <2>3 DEF MarqueeUpdate, PL!Label
  <2> QED
    BY <2>4 DEF PL!Next
<1>6. CASE ReorderRead(q)
  <2>1. PICK order \in Orders, found \in FetchedAt(curIdx) \cup {ReadError} :
          QGoto(q, [at |-> "reorder", order |-> order, index |-> curIdx, item |-> found])
    BY <1>6 DEF ReorderRead
  <2> DEFINE place == [i \in Listed(order) |-> Slot(order, i) - 1]
             follows == found # ReadError
  <2>2. Edits[q] = PL!None
    BY <1>6, <1>n DEF ReorderRead, QAccept
  <2>3. Edits' = [Edits EXCEPT ![q] = [op |-> "reorder", place |-> place, follows |-> follows]]
    <3>1. Edit([at |-> "reorder", order |-> order, index |-> curIdx, item |-> found])
             = [op |-> "reorder", place |-> place, follows |-> follows]
      BY DEF Edit
    <3> QED
      BY <2>1, <3>1, EditsGoto
  <2> DEFINE S == Listed(order)
  <2>4. S \in SUBSET Items /\ place \in PL!Places(S) /\ follows \in BOOLEAN
    BY OrderPlaces DEF RoomTypeOK
  <2>5. PL!AskReorder(q)
    <3> HIDE DEF place, follows, S
    <3> QED
      BY <1>6, <1>m, <2>2, <2>3, <2>4 DEF ReorderRead, PL!AskReorder, PL!Asks
  <2> QED
    BY <2>5 DEF PL!Next
<1>7. CASE ReorderLock(q)
  <2>1. qreq[q].at = "reorder" /\ QGoto(q, [qreq[q] EXCEPT !.at = "commit"])
    BY <1>7 DEF ReorderLock
  <2>2. qreq[q] \in [at : {"reorder", "commit"}, order : Seq(Items), index : Nat, item : Fetched]
    BY <2>1 DEF RoomTypeOK, QueueTypeOK, QueueRequests
  <2>3. Edit([qreq[q] EXCEPT !.at = "commit"]) = Edit(qreq[q])
    BY <2>1, <2>2 DEF Edit
  <2> QED
    BY <1>7, <1>s, <2>1, <2>3 DEF ReorderLock
<1>8. CASE ReorderCommit(q)
  <2> DEFINE order == qreq[q].order
             place == [i \in Listed(order) |-> Slot(order, i) - 1]
  <2>1. qreq[q].at = "commit" /\ QGoto(q, [at |-> "notifyBoth"])
    BY <1>8 DEF ReorderCommit
  <2>2. order \in Seq(Items) /\ qreq[q].index \in Nat
    BY <2>1 DEF RoomTypeOK, QueueTypeOK, QueueRequests
  <2>3. Edits[q] = [op |-> "reorder", place |-> place, follows |-> qreq[q].item # ReadError]
    BY <1>v, <2>1 DEF Edit
  <2>4. PL!Effect(q)
    BY <1>d, <2>1
  <2>5. /\ qreq[q].index = curIdx
        /\ qreq[q].item # ReadError => qreq[q].item \in FetchedAt(curIdx)
    BY <2>1 DEF SnapshotHolds
  <2>6. curIdx' = IF qreq[q].item \in Listed(order) THEN Slot(order, qreq[q].item) - 1
                  ELSE curIdx
    BY <1>8, <2>5 DEF ReorderCommit, FollowedIndex
  <2>7. ReadError \notin Listed(order)
    <3>1. \A k \in DOMAIN order : order[k] \in Items
      BY <2>2, ElementOfSeq, LenProperties
    <3> QED
      BY <3>1, QueueAssumption DEF Listed
  <2>8. pos' = [j \in Rows |-> IF j \in DOMAIN place THEN place[j] ELSE pos[j]]
    BY <1>8 DEF ReorderCommit, Reordered
  <2>9. IF qreq[q].item # ReadError
          THEN \E i \in FetchedAt(curIdx) :
                  curIdx' = IF i \in DOMAIN place THEN place[i] ELSE curIdx
          ELSE UNCHANGED curIdx
    BY <2>5, <2>6, <2>7
  <2>10. PL!Rearrange(q)
    <3> HIDE DEF place
    <3>1. /\ Edits[q].op = "reorder"
          /\ Edits[q].place = place
          /\ Edits[q].follows = (qreq[q].item # ReadError)
      BY <2>3
    <3>2. UNCHANGED used
      BY <1>8 DEF ReorderCommit
    <3>3. /\ pos' = [j \in PL!Rows |->
                        IF j \in DOMAIN Edits[q].place THEN Edits[q].place[j] ELSE pos[j]]
          /\ IF Edits[q].follows
               THEN \E i \in PL!Current :
                  curIdx' = IF i \in DOMAIN Edits[q].place THEN Edits[q].place[i] ELSE curIdx
               ELSE UNCHANGED curIdx
      BY <2>8, <2>9, <3>1, RoomReadsAreCurrent
    <3> QED
      BY <2>4, <3>1, <3>2, <3>3, Zenon DEF PL!Rearrange
  <2> QED
    BY <2>10 DEF PL!Next
<1>9. CASE NotifyQueue(q)
  <2>1. CASE qreq[q].at = "notifyBoth"
    <3>1. Edit([at |-> "notifyConfig"]) = Edit(qreq[q])
      BY <2>1 DEF Edit
    <3> QED
      BY <1>9, <1>s, <2>1, <3>1 DEF NotifyQueue
  <2>2. CASE qreq[q].at = "notifyQueue"
    BY <1>9, <1>e, <1>i, <2>2 DEF NotifyQueue
  <2> QED
    BY <1>9, <2>1, <2>2 DEF NotifyQueue
<1>10. CASE NotifyConfig(q)
  BY <1>10, <1>e, <1>i DEF NotifyConfig
<1>11. CASE RequestFails(q)
  BY <1>11, <1>e, <1>i DEF RequestFails
<1> QED
  BY <1>1, <1>2, <1>3, <1>4, <1>5, <1>6, <1>7, <1>8, <1>9, <1>10, <1>11 DEF QProceed

LEMMA PlaybackStepPlaylist ==
    ASSUME RoomTypeOK, PNext, UNCHANGED queueVars
    PROVE  [PL!Next]_(PL!vars)
<1>m. UNCHANGED Edits
  BY DEF queueVars, Edits
<1>i. Move(PIdle) = PL!None
  BY DEF Move, PIdle, PL!None
<1>v. ASSUME NEW p \in PReq
      PROVE  Moves[p] = Move(preq[p])
  BY DEF Moves
<1>d. \A i : Move([at |-> "load", item |-> i]) = PL!Done
  BY DEF Move, PL!Done
<1>g. \A n, i : Move([at |-> "update", target |-> n, item |-> i]) = [op |-> "go", to |-> n]
  BY DEF Move
<1>e. ASSUME NEW p \in PReq, NEW state, PGoto(p, state), Move(state) = PL!None,
             UNCHANGED <<pos, used, curIdx>>
      PROVE  PL!Next
  <2>1. Moves' = [Moves EXCEPT ![p] = PL!None]
    BY <1>e, MovesGoto
  <2>2. Moves' = [r \in PReq |-> IF r \in {p} THEN PL!None ELSE Moves[r]]
    BY <2>1 DEF Moves
  <2>3. Edits' = [q \in TxReq |-> IF q \in {} THEN PL!None ELSE Edits[q]]
    BY <1>m DEF Edits
  <2>4. PL!End({}, {p})
    BY <1>e, <2>2, <2>3 DEF PL!End
  <2> QED
    BY <2>4 DEF PL!Next
<1>s. ASSUME NEW p \in PReq, NEW state, PGoto(p, state), Move(state) = Move(preq[p]),
             UNCHANGED <<pos, used, curIdx>>
      PROVE  UNCHANGED PL!vars
  <2>1. Moves' = [Moves EXCEPT ![p] = Moves[p]]
    BY <1>s, MovesGoto
  <2>2. Moves' = Moves
    BY <2>1 DEF Moves
  <2> QED
    BY <1>m, <1>s, <2>2 DEF PL!vars
<1>a. ASSUME NEW p \in PReq, preq[p].at \in {"idle", "advance"},
             Advance(p, 1) \/ Advance(p, -1)
      PROVE  PL!Next
  <2>1. curIdx \in Nat
    BY DEF RoomTypeOK, StoreTypeOK
  <2>2. PICK n \in {curIdx + 1, IF curIdx = 0 THEN 0 ELSE curIdx - 1} :
          PGoto(p, [at |-> "lookup", target |-> n])
    BY <1>a, <2>1 DEF Advance, AtLeastZero
  <2>3. Move([at |-> "lookup", target |-> n]) = [op |-> "look", to |-> n]
    BY DEF Move
  <2>4. Moves[p] = PL!None
    BY <1>a, <1>v DEF Move, PL!None
  <2>5. PL!AskMove(p)
    BY <1>a, <1>m, <2>2, <2>3, <2>4, MovesGoto DEF Advance, PL!AskMove, PL!Move, storeVars
  <2> QED
    BY <2>5 DEF PL!Next
<1>1. ASSUME NEW p \in PReq, Ended(p) \/ PlayRead(p) PROVE UNCHANGED PL!vars
  <2>1. PICK state \in [at : {"lock"}] \cup [at : {"playLookup"}, target : {curIdx}] :
          PGoto(p, state)
    BY <1>1 DEF Ended, PlayRead
  <2>2. Move(state) = Move(preq[p])
    BY <1>1 DEF Ended, PlayRead, PAccept, Move
  <2> QED
    BY <1>1, <1>s, <2>1, <2>2 DEF Ended, PlayRead, storeVars
<1>2. ASSUME NEW p \in PReq, NextOrPrev(p) PROVE PL!Next
  BY <1>2, <1>a DEF NextOrPrev, PAccept
<1>3. ASSUME NEW p \in PReq, EndedLock(p) \/ EndedStamp(p) \/ EndedCheck(p)
      PROVE  UNCHANGED PL!vars
  <2>1. PICK state \in [at : {"idle", "check", "advance"}] \cup [at : {"stamp"}, now : {clock}] :
          PGoto(p, state)
    BY <1>3 DEF EndedLock, EndedStamp, EndedCheck, PIdle
  <2>2. Move(state) = Move(preq[p])
    BY <1>3 DEF EndedLock, EndedStamp, EndedCheck, Move
  <2> QED
    BY <1>3, <1>s, <2>1, <2>2 DEF EndedLock, EndedStamp, EndedCheck, storeVars
<1>4. ASSUME NEW p \in PReq, EndedAdvance(p) PROVE PL!Next
  BY <1>4, <1>a DEF EndedAdvance
<1>5. ASSUME NEW p \in PReq, AdvanceLookup(p) PROVE PL!Next
  <2>1. PICK found \in FetchedAt(preq[p].target) :
          PGoto(p, IF found = NoItem THEN PIdle
                   ELSE [at |-> "update", target |-> preq[p].target, item |-> found])
    BY <1>5 DEF AdvanceLookup
  <2>2. CASE found = NoItem
    BY <1>5, <1>e, <1>i, <2>1, <2>2 DEF AdvanceLookup, storeVars
  <2>3. CASE found # NoItem
    <3>1. PGoto(p, [at |-> "update", target |-> preq[p].target, item |-> found])
      BY <2>1, <2>3
    <3>2. Moves[p] = [op |-> "look", to |-> preq[p].target]
      BY <1>5, <1>v DEF AdvanceLookup, Move
    <3>3. Moves' = [Moves EXCEPT ![p] = [op |-> "go", to |-> preq[p].target]]
      <4>1. Move([at |-> "update", target |-> preq[p].target, item |-> found])
               = [op |-> "go", to |-> preq[p].target]
        BY <1>g
      <4> QED
        BY <3>1, <4>1, MovesGoto
    <3>4. PL!At(preq[p].target) # {}
      BY <2>3, RoomReadsAreCurrent DEF FetchedAt
    <3>5. [Moves[p] EXCEPT !.op = "go"] = [op |-> "go", to |-> preq[p].target]
      BY <3>2
    <3>6. PL!Move(p, Moves[p], [Moves[p] EXCEPT !.op = "go"]) /\ UNCHANGED curIdx
      BY <1>5, <1>m, <3>3, <3>5 DEF AdvanceLookup, PL!Move, storeVars
    <3>7. Moves[p].op = "look" /\ PL!At(Moves[p].to) # {}
      BY <3>2, <3>4
    <3>8. PL!Finds(p)
      BY <3>6, <3>7 DEF PL!Finds
    <3> QED
      BY <3>8 DEF PL!Next
  <2> QED
    BY <2>2, <2>3
<1>6. ASSUME NEW p \in PReq, AdvanceUpdate(p) PROVE PL!Next
  <2>1. preq[p].at = "update" /\ PGoto(p, [at |-> "load", item |-> preq[p].item])
    BY <1>6 DEF AdvanceUpdate
  <2>2. Moves[p] = [op |-> "go", to |-> preq[p].target]
    BY <1>v, <2>1 DEF Move
  <2>3. Moves' = [Moves EXCEPT ![p] = PL!Done]
    BY <1>d, <2>1, MovesGoto
  <2>4. PL!Go(p)
    BY <1>6, <1>m, <2>2, <2>3 DEF AdvanceUpdate, PL!Go, PL!Move
  <2> QED
    BY <2>4 DEF PL!Next
<1>7. ASSUME NEW p \in PReq, Load(p) \/ PNotifyQueue(p) PROVE UNCHANGED PL!vars
  <2>1. PICK state \in [at : {"notifyBoth", "notifyConfig"}] : PGoto(p, state)
    BY <1>7 DEF Load, PNotifyQueue
  <2>2. Move(state) = Move(preq[p])
    BY <1>7 DEF Load, PNotifyQueue, Move
  <2> QED
    BY <1>7, <1>s, <2>1, <2>2 DEF Load, PNotifyQueue, storeVars
<1>8. ASSUME NEW p \in PReq, PlayLookup(p) PROVE PL!Next
  <2>1. PICK found \in FetchedAt(preq[p].target) :
          PGoto(p, IF found = NoItem THEN PIdle ELSE [at |-> "load", item |-> found])
    BY <1>8 DEF PlayLookup
  <2>2. CASE found = NoItem
    BY <1>8, <1>e, <1>i, <2>1, <2>2 DEF PlayLookup, storeVars
  <2>3. CASE found # NoItem
    <3>1. PGoto(p, [at |-> "load", item |-> found])
      BY <2>1, <2>3
    <3>2. Moves' = [Moves EXCEPT ![p] = PL!Done]
      BY <1>d, <3>1, MovesGoto
    <3>3. Moves[p] = PL!None
      BY <1>8, <1>v DEF PlayLookup, Move, PL!None
    <3>4. PL!Reload(p)
      BY <1>8, <1>m, <3>2, <3>3 DEF PlayLookup, PL!Reload, PL!Move, storeVars
    <3> QED
      BY <3>4 DEF PL!Next
  <2> QED
    BY <2>2, <2>3
<1>9. ASSUME NEW p \in PReq, PNotifyConfig(p) \/ PlaybackFails(p) PROVE PL!Next
  BY <1>9, <1>e, <1>i DEF PNotifyConfig, PlaybackFails, storeVars
<1>10. CASE Tick
  BY <1>10, <1>m DEF Tick, Moves, PL!vars, storeVars
<1> QED
  BY <1>1, <1>2, <1>3, <1>4, <1>5, <1>6, <1>7, <1>8, <1>9, <1>10 DEF PNext, PProceed

\* Whatever overlaps, each request takes effect in one step or not at all, and a reorder
\* as if it had read the queue just then: a commit is the abstract step, the statements
\* before it ask, an answer, a failure and a restart end it (queue.go:99-180,
\* playback.go:119-172).
THEOREM RoomIsPlaylist == Spec => KeepsPlaylist
<1>1. Init => PL!Init
  BY DEF Init, StoreInit, QueueInit, PlaybackInit, Edits, Moves, Edit, Move, QIdle, PIdle,
         PL!Init, PL!None
<1>2. RoomTypeOK /\ SnapshotHolds /\ [Next]_vars => [PL!Next]_(PL!vars)
  <2> SUFFICES ASSUME RoomTypeOK, SnapshotHolds, [Next]_vars PROVE [PL!Next]_(PL!vars)
    OBVIOUS
  <2>1. CASE QNext /\ UNCHANGED playbackVars
    BY <2>1, QueueStepPlaylist DEF QNext
  <2>2. CASE PNext /\ UNCHANGED queueVars
    BY <2>2, PlaybackStepPlaylist
  <2>3. CASE Restart
    <3>1. Edits' = [q \in TxReq |-> IF q \in TxReq THEN PL!None ELSE Edits[q]]
      BY <2>3 DEF Restart, Edits, Edit, QIdle, PL!None
    <3>2. Moves' = [p \in PReq |-> IF p \in PReq THEN PL!None ELSE Moves[p]]
      BY <2>3 DEF Restart, Moves, Move, PIdle, PL!None
    <3>3. PL!End(TxReq, PReq)
      BY <2>3, <3>1, <3>2 DEF Restart, PL!End
    <3> QED
      BY <3>3 DEF PL!Next
  <2>4. CASE UNCHANGED vars
    BY <2>4 DEF vars, storeVars, queueVars, playbackVars, Edits, Moves, PL!vars
  <2> QED
    BY <2>1, <2>2, <2>3, <2>4 DEF Next
<1> QED
  BY <1>1, <1>2, RoomTypes, Snapshots, PTL DEF Spec, PL!Spec, KeepsPlaylist

-----------------------------------------------------------------------------
(* The viewers' screens                                                    *)

\* A row that is about to become current is at the position it will be found at.
TargetInv ==
    \A p \in PReq : preq[p].at = "update" => preq[p].item \in ItemsAt(preq[p].target)

IsLast(v, k) == k \in Loads(v) /\ \A j \in Loads(v) : j <= k

\* The last load in the channel of a viewer that missed none, or else what the catch-up
\* has read, or else the page, is of the current video, or its load is about to follow.
CaughtUp(v) ==
    /\ Loads(v) # {} => \E k \in Loads(v) : IsLast(v, k)
    /\ stream[v].at = "away" => chan[v] = <<>> /\ v \notin missed
    /\ v \notin missed =>
          /\ \A k \in Loads(v) : IsLast(v, k) =>
                chan[v][k].video \in ItemsAt(curIdx) \/ Coming
          /\ stream[v].at = "catchup" /\ Loads(v) = {} =>
                stream[v].index = curIdx \/ Coming
          /\ stream[v].at = "live" /\ Loads(v) = {} =>
                page[v].video \in ItemsAt(curIdx) \/ Coming

CatchUpInv == \A v \in Viewers : CaughtUp(v)

\* Between a stamp and its load the interval is open, or the room is disturbed; no two
\* goroutines move an undisturbed room at a time.
WindowInv ==
    /\ \A p \in PReq : serves[p] # NoItem => preq[p].at \in {"lock", "check", "stamp", "advance"}
    /\ ~ disturbed =>
          /\ \A p \in PReq :
                /\ preq[p].at = "stamp" => preq[p].now = clock
                /\ preq[p].at \in {"advance", "lookup", "update", "load"} => Debounced
                /\ preq[p].at # "playLookup"
          /\ \A p, q \in PReq : Moving(p) /\ Moving(q) => p = q

\* In an undisturbed room all are agreed when the interval is over, and a signal that was
\* accepted is about the current video until it is acted on.
SignalInv ==
    ~ disturbed =>
        /\ ~ Debounced => Agreed
        /\ \A p \in PReq : preq[p].at = "advance" =>
              serves[p] \in FetchedAt(curIdx) \cup {NoItem, Unheard}

LEMMA InitViewerTypes == ViewerInit => ViewerTypeOK
<1> SUFFICES ASSUME ViewerInit PROVE ViewerTypeOK
  OBVIOUS
<1> USE DEF ViewerInit
<1>1. pos \in [Items -> Nat]
  <2>1. PICK f \in [Items -> 0..(Cardinality(Items) - 1)] : pos = f
    OBVIOUS
  <2>2. Cardinality(Items) \in Nat
    BY StoreAssumption, FS_CardinalityType
  <2> QED
    BY <2>1, <2>2
<1>2. StoreTypeOK
  BY <1>1 DEF LocksInit, StoreTypeOK, LocksTypeOK, SnapStates, Rows
<1>3. PlaybackTypeOK
  BY DEF PlaybackInit, PlaybackTypeOK, PlaybackRequests, PIdle, Never
<1>4. stream \in [Viewers -> Streams] /\ page \in [Viewers -> Pages]
  BY DEF Streams, Pages
<1>5. chan \in [Viewers -> Seq(Events)] /\ \A v \in Viewers : Len(chan[v]) <= Cap
  BY ViewerAssumption, EmptySeq
<1> QED
  BY <1>2, <1>3, <1>4, <1>5 DEF ViewerTypeOK

\* What is sent fills no channel beyond its capacity.
LEMMA SendTypes ==
    ASSUME ViewerTypeOK, NEW e \in Events, Send(e)
    PROVE  /\ chan' \in [Viewers -> Seq(Events)]
           /\ \A v \in Viewers : Len(chan'[v]) <= Cap
<1>1. ASSUME NEW v \in Viewers
      PROVE  chan'[v] \in Seq(Events) /\ Len(chan'[v]) <= Cap
  <2>1. chan[v] \in Seq(Events) /\ Len(chan[v]) <= Cap /\ Len(chan[v]) \in Nat /\ Cap \in Nat
    BY ViewerAssumption, LenProperties DEF ViewerTypeOK
  <2>2. Append(chan[v], e) \in Seq(Events) /\ Len(Append(chan[v], e)) = Len(chan[v]) + 1
    BY <2>1, AppendProperties
  <2> QED
    BY <2>1, <2>2 DEF Send, Full
<1> QED
  BY <1>1 DEF Send, ViewerTypeOK

LEMMA PlaybackStepIsPNext ==
    ASSUME NEW p \in PReq, PlaybackStep(p)
    PROVE  PNext
BY DEF PlaybackStep, LoadsVideo, LooksUp, Commands, OtherSteps, PNext, PProceed

LEMMA ReceivesTypes ==
    ASSUME ViewerTypeOK, NEW v \in Viewers, NEW e \in Events, Receives(v, e)
    PROVE  page' \in [Viewers -> Pages] /\ missed' \subseteq Viewers
<1>1. CASE e.type # "load"
  BY <1>1 DEF Receives, ViewerTypeOK
<1>2. CASE e.type = "load"
  <2>1. e.video \in Items
    BY <1>2 DEF Events
  <2>2. [video |-> e.video, fired |-> FALSE] \in Pages
    BY <2>1 DEF Pages
  <2>3. [page[v] EXCEPT !.fired = FALSE] \in Pages
    BY DEF ViewerTypeOK, Pages
  <2>4. \/ page' = [page EXCEPT ![v] = [video |-> e.video, fired |-> FALSE]] /\ UNCHANGED missed
        \/ page' = [page EXCEPT ![v].fired = FALSE] /\ missed' = missed \cup {v}
    BY <1>2 DEF Receives
  <2> QED
    BY <2>2, <2>3, <2>4 DEF ViewerTypeOK
<1> QED
  BY <1>1, <1>2

LEMMA StepViewerTypes == ViewerTypeOK /\ [ViewerNext]_viewerSyncVars => ViewerTypeOK'
<1> SUFFICES ASSUME ViewerTypeOK, [ViewerNext]_viewerSyncVars PROVE ViewerTypeOK'
  OBVIOUS
<1>s. StoreTypeOK /\ PlaybackTypeOK
  BY DEF ViewerTypeOK
<1>u. UNCHANGED storeVars => StoreTypeOK'
  BY <1>s DEF storeVars, StoreTypeOK, LocksTypeOK, Rows
<1>w. UNCHANGED playbackVars => PlaybackTypeOK'
  BY <1>s DEF playbackVars, PlaybackTypeOK
<1> DEFINE ChanOK == chan \in [Viewers -> Seq(Events)] /\ \A v \in Viewers : Len(chan[v]) <= Cap
<1>c. ChanOK /\ (UNCHANGED chan => ChanOK')
  BY DEF ViewerTypeOK
<1>1. ASSUME NEW p \in PReq, PlaybackStep(p) PROVE ViewerTypeOK'
  <2>1. StoreTypeOK' /\ PlaybackTypeOK'
    BY <1>1, <1>s, PlaybackStepIsPNext, PlaybackStepTypes
  <2>2. ChanOK' /\ missed' \subseteq Viewers /\ disturbed' \in BOOLEAN
    <3>1. CASE LoadsVideo(p)
      <4>1. preq[p].item \in Items
        BY <3>1, <1>s DEF LoadsVideo, Load, PlaybackTypeOK, PlaybackRequests
      <4>2. [type |-> "load", video |-> preq[p].item] \in Events
        BY <4>1 DEF Events
      <4> QED
        BY <3>1, <4>2, SendTypes DEF LoadsVideo, Subscribers, ViewerTypeOK
    <3>2. CASE LooksUp(p)
      <4>1. [type |-> "queue:ended"] \in Events
        BY DEF Events
      <4> QED
        BY <3>2, <4>1, <1>c, SendTypes DEF LooksUp, history, ViewerTypeOK
    <3>3. CASE Commands(p) \/ OtherSteps(p)
      BY <3>3, <1>c DEF Commands, OtherSteps, history, ViewerTypeOK
    <3> QED
      BY <1>1, <3>1, <3>2, <3>3 DEF PlaybackStep
  <2>3. serves' \in [PReq -> Items \cup {NoItem, Unheard}]
    BY <1>1 DEF PlaybackStep, ViewerTypeOK
  <2> QED
    BY <1>1, <2>1, <2>2, <2>3 DEF PlaybackStep, ViewerTypeOK
<1>2. ASSUME NEW p \in PReq, SignalArrives(p) PROVE ViewerTypeOK'
  <2>1. StoreTypeOK' /\ PlaybackTypeOK'
    BY <1>2, <1>s, PlaybackStepTypes DEF SignalArrives, PNext
  <2>2. PICK v \in Viewers :
          /\ signal' = [signal EXCEPT ![v] = NoItem]
          /\ serves' = [serves EXCEPT ![p] = signal[v]]
    BY <1>2 DEF SignalArrives
  <2>3. /\ signal' \in [Viewers -> Items \cup {NoItem, Unheard}]
        /\ serves' \in [PReq -> Items \cup {NoItem, Unheard}]
    BY <2>2 DEF ViewerTypeOK
  <2> QED
    BY <1>2, <2>1, <2>3 DEF SignalArrives, history, ViewerTypeOK
<1>g. ASSUME NEW v \in Viewers, NEW state \in Streams, SGoto(v, state)
      PROVE  stream' \in [Viewers -> Streams]
  BY <1>g DEF SGoto, ViewerTypeOK
<1>3. ASSUME NEW v \in Viewers, Subscribe(v) PROVE ViewerTypeOK'
  <2>1. [at |-> "subscribed"] \in Streams
    BY DEF Streams
  <2> QED
    BY <1>3, <1>g, <1>u, <1>w, <2>1 DEF Subscribe, history, ViewerTypeOK
<1>4. ASSUME NEW v \in Viewers, ReadIndex(v) PROVE ViewerTypeOK'
  <2>1. [at |-> "catchup", index |-> curIdx] \in Streams
    BY <1>s DEF Streams, StoreTypeOK
  <2> QED
    BY <1>4, <1>g, <1>u, <1>w, <2>1 DEF ReadIndex, history, ViewerTypeOK
<1>l. [at |-> "live"] \in Streams /\ [at |-> "away"] \in Streams
  BY DEF Streams
<1>5. ASSUME NEW v \in Viewers, CatchUp(v) PROVE ViewerTypeOK'
  <2>1. PICK i \in ItemsAt(stream[v].index) : Receives(v, [type |-> "load", video |-> i])
    BY <1>5 DEF CatchUp
  <2>2. i \in Items
    BY <1>s DEF ItemsAt, StoreTypeOK
  <2>3. [type |-> "load", video |-> i] \in Events
    BY <2>2 DEF Events
  <2>4. page' \in [Viewers -> Pages] /\ missed' \subseteq Viewers
    BY <2>1, <2>3, ReceivesTypes
  <2> QED
    BY <1>5, <1>g, <1>l, <1>u, <1>w, <2>4 DEF CatchUp, ViewerTypeOK
<1>6. ASSUME NEW v \in Viewers, CatchUpFails(v) PROVE ViewerTypeOK'
  BY <1>6, <1>g, <1>l, <1>u, <1>w DEF CatchUpFails, ViewerTypeOK
<1>7. ASSUME NEW v \in Viewers, Forward(v) PROVE ViewerTypeOK'
  <2>1. chan[v] \in Seq(Events) /\ chan[v] # <<>> /\ Len(chan[v]) <= Cap
    BY <1>7 DEF Forward, ViewerTypeOK
  <2>2. Head(chan[v]) \in Events /\ Tail(chan[v]) \in Seq(Events)
    BY <2>1, HeadTailProperties
  <2>3. Len(Tail(chan[v])) = Len(chan[v]) - 1 /\ Len(chan[v]) \in Nat
    BY <2>1
  <2>4. Len(Tail(chan[v])) <= Cap
    BY <2>1, <2>3, ViewerAssumption
  <2>5. page' \in [Viewers -> Pages] /\ missed' \subseteq Viewers
    BY <1>7, <2>2, ReceivesTypes DEF Forward
  <2>6. ChanOK'
    BY <1>7, <2>2, <2>4 DEF Forward, ViewerTypeOK
  <2> QED
    BY <1>7, <1>u, <1>w, <2>5, <2>6 DEF Forward, ViewerTypeOK
<1>8. ASSUME NEW v \in Viewers, Break(v) PROVE ViewerTypeOK'
  <2>1. <<>> \in Seq(Events) /\ Len(<<>>) <= Cap
    BY EmptySeq, ViewerAssumption
  <2> QED
    BY <1>8, <1>g, <1>l, <1>u, <1>w, <2>1 DEF Break, ViewerTypeOK
<1>9. ASSUME NEW v \in Viewers, VideoEnds(v) PROVE ViewerTypeOK'
  <2>1. page' \in [Viewers -> Pages]
    BY <1>9 DEF VideoEnds, ViewerTypeOK, Pages
  <2>2. signal' \in [Viewers -> Items \cup {NoItem, Unheard}]
    BY <1>9 DEF VideoEnds, ViewerTypeOK, Pages
  <2> QED
    BY <1>9, <1>u, <1>w, <2>1, <2>2 DEF VideoEnds, history, ViewerTypeOK
<1>10. ASSUME NEW v \in Viewers, SignalLost(v) PROVE ViewerTypeOK'
  BY <1>10, <1>u, <1>w DEF SignalLost, history, ViewerTypeOK
<1>11. CASE Time
  <2>1. disturbed' \in BOOLEAN
    BY <1>11 DEF Time
  <2> QED
    BY <1>11, <1>s, <2>1, PlaybackStepTypes DEF Time, PNext, viewerVars, ViewerTypeOK
<1>12. CASE ViewerRestart
  <2>1. StoreTypeOK'
    BY <1>12, <1>s DEF ViewerRestart, StoreTypeOK, LocksTypeOK, SnapStates, Rows
  <2>2. PlaybackTypeOK'
    BY <1>12, <1>s DEF ViewerRestart, PlaybackTypeOK, PlaybackRequests, PIdle, Never
  <2>3. ChanOK'
    BY <1>12, EmptySeq, ViewerAssumption DEF ViewerRestart
  <2> QED
    BY <1>12, <1>l, <2>1, <2>2, <2>3 DEF ViewerRestart, ViewerTypeOK
<1>13. CASE UNCHANGED viewerSyncVars
  BY <1>13, <1>u, <1>w DEF viewerSyncVars, viewerVars, history, ViewerTypeOK
<1> QED
  BY <1>1, <1>2, <1>3, <1>4, <1>5, <1>6, <1>7, <1>8, <1>9, <1>10, <1>11, <1>12, <1>13
     DEF ViewerNext

\* Every variable of the broker's streams, the pages and their signals keeps its type;
\* no channel holds more than its capacity (sse.go:29,83-88).
THEOREM ViewerTypes == ViewerSpec => []ViewerTypeOK
BY InitViewerTypes, StepViewerTypes, PTL DEF ViewerSpec

\* A playback step is one goroutine's and touches no row; nothing it does settles the room.
LEMMA PlaybackStepFrame ==
    ASSUME ViewerTypeOK, NEW p \in PReq, PlaybackStep(p) \/ SignalArrives(p)
    PROVE  /\ \A r \in PReq : r # p => preq'[r] = preq[r] /\ serves'[r] = serves[r]
           /\ pos' = pos /\ clock' = clock
           /\ disturbed => disturbed'
<1>t. DOMAIN preq = PReq /\ DOMAIN serves = PReq
  BY DEF ViewerTypeOK, PlaybackTypeOK
<1>1. ASSUME PlaybackStep(p)
      PROVE  /\ \E state : preq' = [preq EXCEPT ![p] = state]
             /\ pos' = pos /\ clock' = clock /\ (disturbed => disturbed')
  <2>1. CASE LoadsVideo(p)
    BY <2>1 DEF LoadsVideo, Load, PGoto, storeVars
  <2>2. CASE LooksUp(p)
    BY <2>2 DEF LooksUp, AdvanceLookup, PGoto, storeVars, history
  <2>3. CASE Commands(p)
    BY <2>3 DEF Commands, NextOrPrev, Advance, PlayRead, PGoto, storeVars
  <2>4. CASE OtherSteps(p)
    BY <2>4 DEF OtherSteps, AdvanceUpdate, PlayLookup, EndedLock, EndedCheck, EndedStamp,
                EndedAdvance, Advance, PNotifyQueue, PNotifyConfig, PlaybackFails, PGoto,
                storeVars, history
  <2> QED
    BY <1>1, <2>1, <2>2, <2>3, <2>4 DEF PlaybackStep
<1>2. CASE PlaybackStep(p)
  BY <1>1, <1>2, <1>t DEF PlaybackStep
<1>3. CASE SignalArrives(p)
  BY <1>3, <1>t DEF SignalArrives, Ended, PGoto, storeVars, history
<1> QED
  BY <1>2, <1>3

\* A step of viewer v's stream, page or player touches no other viewer, and no index.
LEMMA ViewerStepFrame ==
    ASSUME ViewerTypeOK, NEW v \in Viewers,
           \/ Subscribe(v) \/ ReadIndex(v) \/ CatchUp(v) \/ CatchUpFails(v)
           \/ Forward(v) \/ Break(v) \/ VideoEnds(v) \/ SignalLost(v)
    PROVE  /\ UNCHANGED <<pos, curIdx, preq, mu, lastAdvance, clock, serves, disturbed>>
           /\ \A w \in Viewers : w # v =>
                 /\ UNCHANGED <<stream[w], chan[w], page[w], signal[w]>>
                 /\ w \in missed' <=> w \in missed
<1>1. UNCHANGED <<pos, curIdx, preq, mu, lastAdvance, clock, serves, disturbed>>
  BY DEF Subscribe, ReadIndex, CatchUp, CatchUpFails, Forward, Break, VideoEnds, SignalLost,
         storeVars, playbackVars, history
<1>2. ASSUME NEW w \in Viewers, w # v
      PROVE  /\ UNCHANGED <<stream[w], chan[w], page[w], signal[w]>>
             /\ w \in missed' <=> w \in missed
  <2>1. CASE Subscribe(v) \/ ReadIndex(v) \/ CatchUpFails(v) \/ Break(v)
    BY <1>2, <2>1 DEF Subscribe, ReadIndex, CatchUpFails, Break, SGoto, history, ViewerTypeOK
  <2>2. CASE VideoEnds(v) \/ SignalLost(v)
    BY <1>2, <2>2 DEF VideoEnds, SignalLost, history, ViewerTypeOK
  <2>3. ASSUME NEW e, Receives(v, e)
        PROVE  page'[w] = page[w] /\ (w \in missed' <=> w \in missed)
    BY <1>2, <2>3 DEF Receives, ViewerTypeOK
  <2>4. CASE CatchUp(v)
    BY <1>2, <2>3, <2>4 DEF CatchUp, SGoto, ViewerTypeOK
  <2>5. CASE Forward(v)
    BY <1>2, <2>3, <2>5 DEF Forward, ViewerTypeOK
  <2> QED
    BY <2>1, <2>2, <2>4, <2>5
<1> QED
  BY <1>1, <1>2

\* What viewer v receives is on its page, or the viewer has missed it.
LEMMA ReceivesLoad ==
    ASSUME ViewerTypeOK, NEW v \in Viewers, NEW e, Receives(v, e)
    PROVE  /\ e.type = "load" => page'[v].video = e.video \/ v \in missed'
           /\ e.type # "load" => UNCHANGED <<page, missed>>
           /\ v \in missed => v \in missed'
BY DEF Receives, ViewerTypeOK, Pages

\* The debounce is the one of Spacing.
LEMMA StepViewerDebounce ==
    ViewerTypeOK /\ DebounceHolds /\ [ViewerNext]_viewerSyncVars => DebounceHolds'
<1> SUFFICES ASSUME ViewerTypeOK, DebounceHolds, [ViewerNext]_viewerSyncVars
             PROVE  DebounceHolds'
  OBVIOUS
<1>1. CASE PNext
  BY <1>1, PlaybackStepDebounce DEF ViewerTypeOK
<1>2. CASE UNCHANGED <<preq, mu, lastAdvance>>
  BY <1>2 DEF DebounceHolds
<1>3. CASE ViewerRestart
  BY <1>3, PlaybackAssumption DEF ViewerRestart, PIdle, DebounceHolds
<1>4. CASE \E p \in PReq : PlaybackStep(p) \/ SignalArrives(p)
  BY <1>1, <1>4, PlaybackStepIsPNext DEF SignalArrives, PNext
<1>5. CASE Time
  BY <1>1, <1>5 DEF Time, PNext
<1>6. CASE \E v \in Viewers :
              \/ Subscribe(v) \/ ReadIndex(v) \/ CatchUp(v) \/ CatchUpFails(v)
              \/ Forward(v) \/ Break(v) \/ VideoEnds(v) \/ SignalLost(v)
  BY <1>2, <1>6, ViewerStepFrame
<1> QED
  BY <1>2, <1>3, <1>4, <1>5, <1>6 DEF ViewerNext, viewerSyncVars, playbackVars

LEMMA StepTargets == ViewerTypeOK /\ TargetInv /\ [ViewerNext]_viewerSyncVars => TargetInv'
<1> SUFFICES ASSUME ViewerTypeOK, TargetInv, [ViewerNext]_viewerSyncVars, NEW q \in PReq,
                    preq'[q].at = "update"
             PROVE  (preq[q].item \in ItemsAt(preq[q].target))'
  BY DEF TargetInv
<1>t. DOMAIN preq = PReq
  BY DEF ViewerTypeOK, PlaybackTypeOK
<1>u. ASSUME UNCHANGED <<pos, preq[q]>>
      PROVE  (preq[q].item \in ItemsAt(preq[q].target))'
  BY <1>u DEF TargetInv, ItemsAt, Rows
<1>1. ASSUME NEW p \in PReq, PlaybackStep(p) \/ SignalArrives(p)
      PROVE  (preq[q].item \in ItemsAt(preq[q].target))'
  <2>f. (\A r \in PReq : r # p => preq'[r] = preq[r]) /\ pos' = pos
    BY <1>1, PlaybackStepFrame
  <2>1. CASE q # p
    BY <1>u, <2>1, <2>f
  <2>2. CASE q = p /\ AdvanceLookup(p)
    <3>1. PICK found \in FetchedAt(preq[p].target) :
            PGoto(p, IF found = NoItem THEN PIdle
                     ELSE [at |-> "update", target |-> preq[p].target, item |-> found])
      BY <2>2 DEF AdvanceLookup
    <3>2. /\ found # NoItem
          /\ preq'[p] = [at |-> "update", target |-> preq[p].target, item |-> found]
      BY <1>t, <2>2, <3>1 DEF PGoto, PIdle
    <3>3. found \in ItemsAt(preq[p].target)
      BY <3>1, <3>2 DEF FetchedAt
    <3> QED
      BY <2>2, <2>f, <3>2, <3>3 DEF ItemsAt, Rows
  <2>3. CASE q = p /\ ~ AdvanceLookup(p)
    <3>1. preq'[p].at # "update"
      BY <1>1, <1>t, <2>3
         DEF PlaybackStep, SignalArrives, Ended, LoadsVideo, Load, LooksUp, Commands, NextOrPrev,
             PlayRead, Advance, OtherSteps, AdvanceUpdate, PlayLookup, EndedLock, EndedCheck,
             EndedStamp, EndedAdvance, PNotifyQueue, PNotifyConfig, PlaybackFails, PGoto, PIdle
    <3> QED
      BY <2>3, <3>1
  <2> QED
    BY <2>1, <2>2, <2>3
<1>2. CASE \E v \in Viewers :
              \/ Subscribe(v) \/ ReadIndex(v) \/ CatchUp(v) \/ CatchUpFails(v)
              \/ Forward(v) \/ Break(v) \/ VideoEnds(v) \/ SignalLost(v)
  BY <1>2, <1>u, ViewerStepFrame
<1>3. CASE Time \/ UNCHANGED viewerSyncVars
  BY <1>3, <1>u DEF Time, Tick, viewerSyncVars, playbackVars, storeVars
<1>4. CASE ViewerRestart
  BY <1>4 DEF ViewerRestart, PIdle
<1> QED
  BY <1>1, <1>2, <1>3, <1>4 DEF ViewerNext

-----------------------------------------------------------------------------

\* The events of a channel, after one is sent and after one is received.
LEMMA AppendEvents ==
    ASSUME NEW c \in Seq(Events), NEW e \in Events
    PROVE  /\ DOMAIN c = 1..Len(c) /\ Len(c) \in Nat
           /\ DOMAIN Append(c, e) = 1..(Len(c) + 1)
           /\ \A k \in DOMAIN c : Append(c, e)[k] = c[k]
           /\ Append(c, e)[Len(c) + 1] = e
BY AppendProperties, LenProperties

LEMMA TailEvents ==
    ASSUME NEW c \in Seq(Events), c # <<>>
    PROVE  /\ DOMAIN c = 1..Len(c) /\ Len(c) \in Nat /\ Len(c) > 0
           /\ Head(c) = c[1]
           /\ DOMAIN Tail(c) = 1..(Len(c) - 1)
           /\ \A k \in DOMAIN Tail(c) : k + 1 \in DOMAIN c /\ Tail(c)[k] = c[k + 1]
BY HeadTailProperties, LenProperties, ElementOfSeq

\* The loads of a channel a load is sent to: the new one is the last.
LEMMA LoadSent ==
    ASSUME ViewerTypeOK, NEW v \in Viewers, NEW i \in Items,
           chan'[v] = Append(chan[v], [type |-> "load", video |-> i])
    PROVE  \E k \in Loads(v)' :
              /\ \A j \in Loads(v)' : j <= k
              /\ chan'[v][k].video = i
              /\ \A j \in Loads(v)' : j = k \/ (j \in Loads(v) /\ chan'[v][j] = chan[v][j])
<1> DEFINE e == [type |-> "load", video |-> i]
<1>1. chan[v] \in Seq(Events) /\ e \in Events
  BY DEF ViewerTypeOK, Events
<1>2. /\ DOMAIN chan[v] = 1..Len(chan[v]) /\ Len(chan[v]) \in Nat
      /\ DOMAIN chan'[v] = 1..(Len(chan[v]) + 1)
      /\ \A k \in DOMAIN chan[v] : chan'[v][k] = chan[v][k]
      /\ chan'[v][Len(chan[v]) + 1] = e
  BY <1>1, AppendEvents
<1> DEFINE n == Len(chan[v]) + 1
<1>3. n \in Loads(v)' /\ chan'[v][n].video = i
  BY <1>2 DEF Loads
<1>4. \A j \in Loads(v)' : j <= n
  BY <1>2 DEF Loads
<1>5. \A j \in Loads(v)' : j = n \/ (j \in Loads(v) /\ chan'[v][j] = chan[v][j])
  BY <1>2 DEF Loads
<1> HIDE DEF n
<1> QED
  BY <1>3, <1>4, <1>5

\* An event that is no load leaves the loads of a channel as they are.
LEMMA EndSent ==
    ASSUME ViewerTypeOK, NEW v \in Viewers,
           \/ chan'[v] = chan[v]
           \/ chan'[v] = Append(chan[v], [type |-> "queue:ended"])
    PROVE  /\ Loads(v)' = Loads(v)
           /\ \A k \in Loads(v) : chan'[v][k] = chan[v][k]
<1> DEFINE e == [type |-> "queue:ended"]
<1>1. chan[v] \in Seq(Events) /\ e \in Events
  BY DEF ViewerTypeOK, Events
<1>2. CASE chan'[v] = chan[v]
  BY <1>2 DEF Loads
<1>3. CASE chan'[v] = Append(chan[v], e)
  <2>1. /\ DOMAIN chan[v] = 1..Len(chan[v]) /\ Len(chan[v]) \in Nat
        /\ DOMAIN chan'[v] = 1..(Len(chan[v]) + 1)
        /\ \A k \in DOMAIN chan[v] : chan'[v][k] = chan[v][k]
        /\ chan'[v][Len(chan[v]) + 1] = e
    BY <1>1, <1>3, AppendEvents
  <2>2. Len(chan[v]) + 1 \notin Loads(v)'
    BY <2>1 DEF Loads
  <2> QED
    BY <2>1, <2>2 DEF Loads
<1> QED
  BY <1>2, <1>3

\* The loads of a channel whose first event is received move up by one.
LEMMA EventReceived ==
    ASSUME ViewerTypeOK, NEW v \in Viewers, chan[v] # <<>>, chan'[v] = Tail(chan[v])
    PROVE  /\ Head(chan[v]) \in Events
           /\ \A k \in Loads(v)' : k \in Nat \ {0} /\ k + 1 \in Loads(v) /\ chan'[v][k] = chan[v][k + 1]
           /\ \A k \in Loads(v) : k = 1 \/ (k \in Nat /\ k - 1 \in Loads(v)')
           /\ 1 \in Loads(v) <=> Head(chan[v]).type = "load"
           /\ Head(chan[v]) = chan[v][1]
<1>1. chan[v] \in Seq(Events)
  BY DEF ViewerTypeOK
<1>2. /\ DOMAIN chan[v] = 1..Len(chan[v]) /\ Len(chan[v]) \in Nat /\ Len(chan[v]) > 0
      /\ Head(chan[v]) = chan[v][1]
      /\ DOMAIN chan'[v] = 1..(Len(chan[v]) - 1)
      /\ \A k \in DOMAIN chan'[v] :
            k + 1 \in DOMAIN chan[v] /\ chan'[v][k] = chan[v][k + 1]
  BY <1>1, TailEvents
<1>3. Head(chan[v]) \in Events
  BY <1>1, HeadTailProperties
<1>4. ASSUME NEW k \in Loads(v)'
      PROVE  k \in Nat \ {0} /\ k + 1 \in Loads(v) /\ chan'[v][k] = chan[v][k + 1]
  BY <1>2, <1>4 DEF Loads
<1>5. ASSUME NEW k \in Loads(v), k # 1
      PROVE  k \in Nat /\ k - 1 \in Loads(v)'
  <2>1. k \in 1..Len(chan[v]) /\ chan[v][k].type = "load"
    BY <1>2 DEF Loads
  <2>2. k - 1 \in DOMAIN chan'[v] /\ (k - 1) + 1 = k
    BY <1>2, <1>5, <2>1
  <2> QED
    BY <1>2, <2>1, <2>2 DEF Loads
<1>6. 1 \in Loads(v) <=> Head(chan[v]).type = "load"
  BY <1>2 DEF Loads
<1> QED
  BY <1>2, <1>3, <1>4, <1>5, <1>6

LEMMA InitCatchUp == ViewerInit => CatchUpInv
BY DEF ViewerInit, CatchUpInv, CaughtUp, Loads

\* A subscriber's last load is current or the subscriber has missed it; what moves the
\* index leaves its load to come.
LEMMA PlaybackStepCatchUp ==
    ASSUME ViewerTypeOK, TargetInv, CatchUpInv, NEW p \in PReq, PlaybackStep(p)
    PROVE  CatchUpInv'
<1> SUFFICES ASSUME NEW v \in Viewers PROVE CaughtUp(v)'
  BY DEF CatchUpInv
<1>t. DOMAIN preq = PReq /\ DOMAIN chan = Viewers
  BY DEF ViewerTypeOK, PlaybackTypeOK
<1>c. CaughtUp(v)
  BY DEF CatchUpInv
<1>f. (\A r \in PReq : r # p => preq'[r] = preq[r]) /\ pos' = pos /\ UNCHANGED <<stream, page>>
  BY PlaybackStepFrame DEF PlaybackStep
<1>1. CASE LoadsVideo(p)
  <2>1. preq[p].item \in Items /\ curIdx' = curIdx
    BY <1>1 DEF LoadsVideo, Load, storeVars, ViewerTypeOK, PlaybackTypeOK, PlaybackRequests
  <2>2. CASE v \in Subscribers /\ ~ Full(v)
    <3>1. chan'[v] = Append(chan[v], [type |-> "load", video |-> preq[p].item])
      BY <1>1, <1>t, <2>2 DEF LoadsVideo, Send
    <3>2. PICK k \in Loads(v)' :
            (\A j \in Loads(v)' : j <= k) /\ chan'[v][k].video = preq[p].item
      BY <2>1, <3>1, LoadSent
    <3>3. \A j \in Loads(v)' : IsLast(v, j)' => j = k
      <4>1. chan'[v] \in Seq(Events)
        BY StepViewerTypes DEF ViewerNext, ViewerTypeOK
      <4>2. Loads(v)' \subseteq Nat
        BY <4>1, LenProperties DEF Loads
      <4> QED
        BY <3>2, <4>2 DEF IsLast
    <3>4. v \notin missed' => preq[p].item \in ItemsAt(curIdx)'
      BY <1>1, <1>f, <2>1, <2>2 DEF LoadsVideo, ItemsAt, Rows
    <3> QED
      BY <1>f, <2>2, <3>2, <3>3, <3>4 DEF CaughtUp, IsLast, Subscribers
  <2>3. CASE v \in Subscribers /\ Full(v)
    <3>1. chan'[v] = chan[v] /\ v \in missed'
      BY <1>1, <1>t, <2>3 DEF LoadsVideo, Send
    <3> QED
      BY <1>c, <1>f, <2>3, <3>1 DEF CaughtUp, IsLast, Loads, Subscribers
  <2>4. CASE v \notin Subscribers
    <3>1. chan'[v] = chan[v] /\ v \notin missed'
      BY <1>1, <1>t, <2>4 DEF LoadsVideo, Send
    <3>2. stream[v].at = "away" /\ chan[v] = <<>>
      BY <1>c, <2>4 DEF Subscribers, CaughtUp
    <3> QED
      BY <1>c, <1>f, <3>1, <3>2 DEF CaughtUp, Loads
  <2> QED
    BY <2>2, <2>3, <2>4
<1>2. CASE AdvanceUpdate(p) /\ UNCHANGED <<chan, history>>
  <2>1. /\ preq[p].at = "update" /\ curIdx' = preq[p].target
        /\ preq'[p] = [at |-> "load", item |-> preq[p].item]
    BY <1>2, <1>t DEF AdvanceUpdate, PGoto
  <2>2. preq'[p].item \in ItemsAt(curIdx)'
    BY <1>f, <2>1 DEF TargetInv, ItemsAt, Rows
  <2>3. Coming'
    BY <2>1, <2>2 DEF Coming
  <2> QED
    BY <1>2, <1>c, <1>f, <2>3 DEF CaughtUp, IsLast, Loads, history
<1>3. CASE LooksUp(p) \/ Commands(p) \/ (OtherSteps(p) /\ ~ AdvanceUpdate(p))
  <2>1. preq[p].at # "load" /\ curIdx' = curIdx
    BY <1>3 DEF LooksUp, AdvanceLookup, Commands, NextOrPrev, PlayRead, PAccept, Advance,
                OtherSteps, PlayLookup, EndedLock, EndedCheck, EndedStamp, EndedAdvance,
                PNotifyQueue, PNotifyConfig, PlaybackFails, storeVars
  <2>2. ItemsAt(curIdx)' = ItemsAt(curIdx)
    BY <1>f, <2>1 DEF ItemsAt, Rows
  <2>3. Coming => Coming'
    BY <1>f, <2>1, <2>2 DEF Coming
  <2>4. /\ \/ chan'[v] = chan[v]
           \/ v \in Subscribers /\ chan'[v] = Append(chan[v], [type |-> "queue:ended"])
        /\ v \in missed' <=> v \in missed
    <3>1. CASE UNCHANGED <<chan, missed>>
      BY <3>1
    <3>2. CASE Send([type |-> "queue:ended"]) /\ UNCHANGED missed
      BY <1>t, <3>2 DEF Send
    <3> QED
      BY <1>3, <3>1, <3>2 DEF LooksUp, Commands, OtherSteps, history
  <2>5. Loads(v)' = Loads(v) /\ \A k \in Loads(v) : chan'[v][k] = chan[v][k]
    BY <2>4, EndSent
  <2>6. \A k : IsLast(v, k)' <=> IsLast(v, k)
    BY <2>5 DEF IsLast
  <2>7. stream'[v].at = "away" => chan'[v] = <<>> /\ v \notin missed'
    BY <1>c, <1>f, <2>4 DEF CaughtUp, Subscribers
  <2> QED
    BY <1>c, <1>f, <2>1, <2>2, <2>3, <2>4, <2>5, <2>6, <2>7 DEF CaughtUp
<1> QED
  BY <1>1, <1>2, <1>3 DEF PlaybackStep, OtherSteps

LEMMA StepCatchUp ==
    ViewerTypeOK /\ TargetInv /\ CatchUpInv /\ [ViewerNext]_viewerSyncVars => CatchUpInv'
<1> SUFFICES ASSUME ViewerTypeOK, TargetInv, CatchUpInv, [ViewerNext]_viewerSyncVars
             PROVE  CatchUpInv'
  OBVIOUS
<1>t. /\ DOMAIN stream = Viewers /\ DOMAIN chan = Viewers /\ DOMAIN page = Viewers
      /\ DOMAIN preq = PReq
  BY DEF ViewerTypeOK, PlaybackTypeOK
<1>u. ASSUME UNCHANGED <<pos, curIdx, preq>>, NEW v \in Viewers,
             UNCHANGED <<stream[v], chan[v], page[v].video>>, v \in missed' <=> v \in missed
      PROVE  CaughtUp(v)'
  BY <1>u DEF CatchUpInv, CaughtUp, IsLast, Loads, Coming, ItemsAt, Rows
<1>1. CASE \E p \in PReq : PlaybackStep(p)
  BY <1>1, PlaybackStepCatchUp
<1>2. CASE \E p \in PReq : SignalArrives(p)
  <2>1. PICK p \in PReq : SignalArrives(p)
    BY <1>2
  <2>2. UNCHANGED <<pos, curIdx, stream, chan, page, missed>> /\ preq[p].at = "idle"
    BY <2>1 DEF SignalArrives, Ended, PAccept, storeVars, history
  <2>3. Coming => Coming'
    BY <2>1, <2>2, PlaybackStepFrame DEF Coming, ItemsAt, Rows
  <2> QED
    BY <2>2, <2>3 DEF CatchUpInv, CaughtUp, IsLast, Loads, ItemsAt, Rows
<1>3. ASSUME NEW v \in Viewers,
             \/ Subscribe(v) \/ ReadIndex(v) \/ CatchUp(v) \/ CatchUpFails(v)
             \/ Forward(v) \/ Break(v) \/ VideoEnds(v) \/ SignalLost(v)
      PROVE  CatchUpInv'
  <2>f. UNCHANGED <<pos, curIdx, preq>>
    BY <1>3, ViewerStepFrame
  <2>o. \A w \in Viewers : w # v => CaughtUp(w)'
    BY <1>3, <1>u, ViewerStepFrame
  <2>c. CaughtUp(v)
    BY DEF CatchUpInv
  <2> SUFFICES CaughtUp(v)'
    BY <2>o DEF CatchUpInv
  <2> USE DEF CaughtUp, IsLast, Coming
  <2>1. CASE Subscribe(v)
    <3>1. /\ stream[v].at = "away" /\ stream'[v].at = "subscribed"
          /\ UNCHANGED <<chan, missed>>
      BY <1>t, <2>1 DEF Subscribe, SGoto, history
    <3> QED
      BY <2>c, <2>f, <3>1 DEF Loads
  <2>2. CASE ReadIndex(v)
    <3>1. /\ stream[v].at = "subscribed" /\ stream'[v] = [at |-> "catchup", index |-> curIdx]
          /\ UNCHANGED <<chan, missed>>
      BY <1>t, <2>2 DEF ReadIndex, SGoto, history
    <3> QED
      BY <2>c, <2>f, <3>1 DEF Loads, ItemsAt, Rows
  <2>3. CASE CatchUp(v)
    <3>1. PICK i \in ItemsAt(stream[v].index) : Receives(v, [type |-> "load", video |-> i])
      BY <2>3 DEF CatchUp
    <3>2. stream[v].at = "catchup" /\ stream'[v].at = "live" /\ chan' = chan
      BY <1>t, <2>3 DEF CatchUp, SGoto
    <3>3. (page'[v].video = i \/ v \in missed') /\ (v \in missed => v \in missed')
      BY <3>1, ReceivesLoad
    <3> QED
      BY <2>c, <2>f, <3>1, <3>2, <3>3 DEF Loads, ItemsAt, Rows
  <2>4. CASE CatchUpFails(v)
    <3>1. stream[v].at # "away" /\ stream'[v].at = "live" /\ v \in missed' /\ chan' = chan
      BY <1>t, <2>4 DEF CatchUpFails, SGoto
    <3> QED
      BY <2>c, <2>f, <3>1 DEF Loads
  <2>5. CASE Forward(v)
    <3>1. /\ stream[v].at = "live" /\ stream' = stream
          /\ chan[v] # <<>> /\ chan'[v] = Tail(chan[v])
          /\ Receives(v, Head(chan[v]))
      BY <1>t, <2>5 DEF Forward
    <3>2. /\ \A k \in Loads(v)' :
                k \in Nat \ {0} /\ k + 1 \in Loads(v) /\ chan'[v][k] = chan[v][k + 1]
          /\ \A k \in Loads(v) : k = 1 \/ (k \in Nat /\ k - 1 \in Loads(v)')
          /\ 1 \in Loads(v) <=> Head(chan[v]).type = "load"
          /\ Head(chan[v]) = chan[v][1]
      BY <3>1, EventReceived
    <3>3. ASSUME Loads(v)' # {} PROVE \E k \in Loads(v)' : IsLast(v, k)'
      <4>1. PICK k \in Loads(v) : IsLast(v, k)
        BY <2>c, <3>2, <3>3
      <4>2. k # 1
        <5>1. PICK j \in Loads(v)' : TRUE
          BY <3>3
        <5>2. j \in Nat \ {0} /\ j + 1 <= k
          BY <3>2, <4>1, <5>1
        <5> QED
          BY <5>2
      <4> DEFINE m == k - 1
      <4>3. m \in Loads(v)' /\ k \in Nat
        BY <3>2, <4>2
      <4>4. ASSUME NEW j \in Loads(v)' PROVE j <= m
        <5>1. j \in Nat /\ j + 1 \in Loads(v)
          BY <3>2
        <5>2. j + 1 <= k
          BY <4>1, <5>1
        <5> QED
          BY <4>3, <5>1, <5>2
      <4> HIDE DEF m
      <4> QED
        BY <4>3, <4>4
    <3>4. ASSUME NEW k \in Loads(v)', IsLast(v, k)'
          PROVE  IsLast(v, k + 1) /\ chan'[v][k] = chan[v][k + 1]
      <4>1. k \in Nat /\ k + 1 \in Loads(v) /\ chan'[v][k] = chan[v][k + 1]
        BY <3>2
      <4>2. ASSUME NEW j \in Loads(v) PROVE j <= k + 1
        BY <3>2, <3>4, <4>1
      <4> QED
        BY <4>1, <4>2
    <3>5. ASSUME Loads(v)' = {}, Head(chan[v]).type = "load"
          PROVE  IsLast(v, 1)
      <4>1. \A j \in Loads(v) : j = 1
        BY <3>2, <3>5
      <4> QED
        BY <3>2, <3>5, <4>1
    <3>6. ASSUME Loads(v)' = {}, Head(chan[v]).type # "load"
          PROVE  Loads(v) = {}
      BY <3>2, <3>6
    <3>7. /\ Head(chan[v]).type = "load" => page'[v].video = chan[v][1].video \/ v \in missed'
          /\ Head(chan[v]).type # "load" => UNCHANGED <<page, missed>>
          /\ v \in missed => v \in missed'
      BY <3>1, <3>2, ReceivesLoad
    <3>8. ItemsAt(curIdx)' = ItemsAt(curIdx) /\ (Coming <=> Coming')
      BY <2>f DEF ItemsAt, Rows
    <3> QED
      BY <2>c, <3>1, <3>2, <3>3, <3>4, <3>5, <3>6, <3>7, <3>8
  <2>6. CASE Break(v)
    <3>1. stream'[v].at = "away" /\ chan'[v] = <<>> /\ v \notin missed'
      BY <1>t, <2>6 DEF Break, SGoto
    <3> QED
      BY <3>1 DEF Loads
  <2>7. CASE VideoEnds(v) \/ SignalLost(v)
    <3>1. UNCHANGED <<stream, chan, missed, page[v].video>>
      BY <1>t, <2>7 DEF VideoEnds, SignalLost, history, ViewerTypeOK, Pages
    <3> QED
      BY <1>u, <2>f, <3>1
  <2> QED
    BY <1>3, <2>1, <2>2, <2>3, <2>4, <2>5, <2>6, <2>7
<1>4. CASE Time
  <2>1. UNCHANGED <<pos, curIdx, preq, stream, chan, page, missed>>
    BY <1>4 DEF Time, Tick, storeVars, viewerVars
  <2> QED
    BY <1>u, <2>1 DEF CatchUpInv
<1>5. CASE ViewerRestart
  BY <1>5 DEF ViewerRestart, CatchUpInv, CaughtUp, Loads
<1>6. CASE UNCHANGED viewerSyncVars
  BY <1>u, <1>6 DEF viewerSyncVars, storeVars, playbackVars, viewerVars, history, CatchUpInv
<1> QED
  BY <1>1, <1>2, <1>3, <1>4, <1>5, <1>6 DEF ViewerNext

-----------------------------------------------------------------------------

\* How a goroutine comes to move the room: by an accepted signal, or by a command, which
\* disturbs it; nothing but a stamp opens an interval.
LEMMA PlaybackStepMoves ==
    ASSUME ViewerTypeOK, NEW p \in PReq, PlaybackStep(p), ~ disturbed'
    PROVE  /\ preq'[p].at = "stamp" =>
                preq[p].at = "check" /\ ~ Debounced /\ preq'[p].now = clock
           /\ preq'[p].at = "advance" => EndedStamp(p)
           /\ preq'[p].at = "lookup" => preq[p].at = "advance"
           /\ preq'[p].at = "update" => preq[p].at = "lookup"
           /\ preq'[p].at = "load" => preq[p].at \in {"update", "playLookup"}
           /\ preq'[p].at # "playLookup"
           /\ ~ EndedStamp(p) => lastAdvance' = lastAdvance
<1>t. DOMAIN preq = PReq
  BY DEF ViewerTypeOK, PlaybackTypeOK
<1>1. CASE EndedCheck(p)
  BY <1>1, <1>t DEF EndedCheck, PGoto, PIdle
<1>2. CASE LoadsVideo(p) \/ LooksUp(p)
  BY <1>2, <1>t DEF LoadsVideo, Load, LooksUp, AdvanceLookup, PGoto, PIdle
<1>3. CASE OtherSteps(p) /\ ~ EndedCheck(p)
  BY <1>3, <1>t
     DEF OtherSteps, AdvanceUpdate, PlayLookup, EndedLock, EndedStamp, EndedAdvance, Advance,
         PNotifyQueue, PNotifyConfig, PlaybackFails, PGoto, PIdle
<1> QED
  BY <1>1, <1>2, <1>3 DEF PlaybackStep, Commands

\* In an undisturbed room the interval begins with the stamp.
LEMMA StampOpensInterval ==
    ASSUME ViewerTypeOK, WindowInv, ~ disturbed, NEW p \in PReq, EndedStamp(p)
    PROVE  Debounced'
<1>1. lastAdvance' = clock /\ clock' = clock
  BY DEF EndedStamp, WindowInv
<1> QED
  BY <1>1, PlaybackAssumption DEF Debounced, Never, ViewerTypeOK, PlaybackTypeOK

\* A goroutine about to stamp an undisturbed room finds the interval over.
LEMMA StampFindsIntervalOver ==
    ASSUME ViewerTypeOK, DebounceHolds, WindowInv, ~ disturbed, NEW p \in PReq,
           preq[p].at = "stamp"
    PROVE  lastAdvance = Never \/ clock - lastAdvance >= DebounceDur
BY DEF WindowInv, DebounceHolds

LEMMA PlaybackStepWindow ==
    ASSUME ViewerTypeOK, DebounceHolds, WindowInv, NEW p \in PReq, PlaybackStep(p)
    PROVE  WindowInv'
<1>t. DOMAIN preq = PReq /\ DOMAIN serves = PReq
  BY DEF ViewerTypeOK, PlaybackTypeOK
<1>f. /\ \A r \in PReq : r # p => preq'[r] = preq[r] /\ serves'[r] = serves[r]
      /\ clock' = clock
      /\ disturbed => disturbed'
  BY PlaybackStepFrame
<1>1. \A q \in PReq : serves'[q] # NoItem => preq'[q].at \in {"lock", "check", "stamp", "advance"}
  BY <1>f, <1>t DEF PlaybackStep, WindowInv
<1> SUFFICES ASSUME ~ disturbed'
             PROVE  /\ \A q \in PReq :
                          /\ preq'[q].at = "stamp" => preq'[q].now = clock'
                          /\ preq'[q].at \in {"advance", "lookup", "update", "load"} => Debounced'
                          /\ preq'[q].at # "playLookup"
                    /\ \A q, r \in PReq : Moving(q)' /\ Moving(r)' => q = r
  BY <1>1 DEF WindowInv
<1>m. /\ preq'[p].at = "stamp" => preq[p].at = "check" /\ ~ Debounced /\ preq'[p].now = clock
      /\ preq'[p].at = "advance" => EndedStamp(p)
      /\ preq'[p].at = "lookup" => preq[p].at = "advance"
      /\ preq'[p].at = "update" => preq[p].at = "lookup"
      /\ preq'[p].at = "load" => preq[p].at \in {"update", "playLookup"}
      /\ preq'[p].at # "playLookup"
      /\ ~ EndedStamp(p) => lastAdvance' = lastAdvance
  BY PlaybackStepMoves
<1>w. /\ ~ disturbed
      /\ \A q \in PReq :
            /\ preq[q].at = "stamp" => preq[q].now = clock
            /\ preq[q].at \in {"advance", "lookup", "update", "load"} => Debounced
            /\ preq[q].at # "playLookup"
      /\ \A q, r \in PReq : Moving(q) /\ Moving(r) => q = r
  BY <1>f DEF WindowInv
<1>2. Debounced => Debounced'
  BY <1>f, <1>m, <1>w, StampOpensInterval DEF Debounced
<1>3. EndedStamp(p) => Debounced'
  BY <1>w, StampOpensInterval
<1>4. ASSUME NEW q \in PReq
      PROVE  /\ preq'[q].at = "stamp" => preq'[q].now = clock'
             /\ preq'[q].at \in {"advance", "lookup", "update", "load"} => Debounced'
             /\ preq'[q].at # "playLookup"
  BY <1>2, <1>3, <1>f, <1>m, <1>w
<1>5. Moving(p)' /\ ~ Moving(p) => \A q \in PReq : ~ Moving(q)
  <2> SUFFICES ASSUME Moving(p)', ~ Moving(p), NEW q \in PReq, Moving(q) PROVE FALSE
    OBVIOUS
  <2>1. preq[p].at = "check" /\ ~ Debounced
    BY <1>m DEF Moving, EndedStamp
  <2>2. preq[q].at = "stamp"
    BY <1>w, <2>1 DEF Moving
  <2> QED
    BY <2>1, <2>2 DEF DebounceHolds
<1>6. ASSUME NEW q \in PReq, NEW r \in PReq, Moving(q)', Moving(r)' PROVE q = r
  <2>1. \A s \in PReq : s # p => (Moving(s)' <=> Moving(s))
    BY <1>f DEF Moving
  <2> QED
    BY <1>5, <1>6, <1>w, <2>1
<1> QED
  BY <1>4, <1>6

LEMMA StepWindow ==
    ViewerTypeOK /\ DebounceHolds /\ WindowInv /\ [ViewerNext]_viewerSyncVars => WindowInv'
<1> SUFFICES ASSUME ViewerTypeOK, DebounceHolds, WindowInv, [ViewerNext]_viewerSyncVars
             PROVE  WindowInv'
  OBVIOUS
<1>u. UNCHANGED <<preq, lastAdvance, clock, serves, disturbed>> => WindowInv'
  BY DEF WindowInv, Moving, Debounced
<1>1. CASE \E p \in PReq : PlaybackStep(p)
  BY <1>1, PlaybackStepWindow
<1>2. ASSUME NEW p \in PReq, SignalArrives(p) PROVE WindowInv'
  <2>1. /\ preq'[p].at = "lock"
        /\ UNCHANGED <<lastAdvance, clock, disturbed>>
    BY <1>2 DEF SignalArrives, Ended, PGoto, history, ViewerTypeOK, PlaybackTypeOK
  <2>2. \A r \in PReq : r # p => preq'[r] = preq[r] /\ serves'[r] = serves[r]
    BY <1>2, PlaybackStepFrame
  <2> QED
    BY <2>1, <2>2 DEF WindowInv, Moving, Debounced
<1>3. CASE \E v \in Viewers :
              \/ Subscribe(v) \/ ReadIndex(v) \/ CatchUp(v) \/ CatchUpFails(v)
              \/ Forward(v) \/ Break(v) \/ VideoEnds(v) \/ SignalLost(v)
  BY <1>3, <1>u, ViewerStepFrame
<1>4. CASE Time
  <2>1. /\ UNCHANGED <<preq, lastAdvance, serves>> /\ clock' = clock + 1
        /\ disturbed' = (~ Settled /\ (disturbed \/ ~ Debounced'))
    BY <1>4 DEF Time, Tick
  <2>2. CASE disturbed'
    BY <2>1, <2>2 DEF WindowInv
  <2>3. CASE Settled
    BY <2>1, <2>3 DEF Settled, WindowInv, Moving
  <2>4. CASE ~ disturbed /\ Debounced'
    <3>1. lastAdvance # Never /\ (clock + 1) - lastAdvance < DebounceDur
      BY <2>1, <2>4 DEF Debounced
    <3>2. clock \in Nat /\ lastAdvance \in Nat \cup {Never} /\ DebounceDur \in Nat
      BY PlaybackAssumption DEF ViewerTypeOK, PlaybackTypeOK
    <3>3. \A p \in PReq : preq[p].at # "stamp"
      BY <2>4, <3>1, <3>2, StampFindsIntervalOver
    <3> QED
      BY <2>1, <2>4, <3>3 DEF WindowInv, Moving
  <2> QED
    BY <2>1, <2>2, <2>3, <2>4
<1>5. CASE ViewerRestart
  BY <1>5 DEF ViewerRestart, PIdle, WindowInv, Moving
<1>6. CASE UNCHANGED viewerSyncVars
  BY <1>6, <1>u DEF viewerSyncVars, playbackVars, history
<1> QED
  BY <1>1, <1>2, <1>3, <1>4, <1>5, <1>6 DEF ViewerNext

\* While the interval is over, nothing a playback step does in an undisturbed room is
\* broadcast or moves the index; the accepted signal's goroutine moves it alone.
LEMMA PlaybackStepSignals ==
    ASSUME ViewerTypeOK, DebounceHolds, WindowInv, SignalInv, NEW p \in PReq, PlaybackStep(p)
    PROVE  SignalInv'
<1> SUFFICES ASSUME ~ disturbed'
             PROVE  /\ ~ Debounced' => Agreed'
                    /\ \A q \in PReq : preq'[q].at = "advance" =>
                          serves'[q] \in FetchedAt(curIdx)' \cup {NoItem, Unheard}
  BY DEF SignalInv
<1>t. DOMAIN preq = PReq /\ DOMAIN serves = PReq
  BY DEF ViewerTypeOK, PlaybackTypeOK
<1>f. /\ \A r \in PReq : r # p => preq'[r] = preq[r] /\ serves'[r] = serves[r]
      /\ pos' = pos /\ clock' = clock
      /\ ~ disturbed
  BY PlaybackStepFrame
<1>m. /\ preq'[p].at = "advance" => EndedStamp(p)
      /\ ~ EndedStamp(p) => lastAdvance' = lastAdvance
  BY PlaybackStepMoves
<1>c. ~ Commands(p)
  BY DEF Commands
<1>i. curIdx' # curIdx => preq[p].at = "update"
  BY <1>c DEF PlaybackStep, LoadsVideo, Load, LooksUp, AdvanceLookup, OtherSteps, AdvanceUpdate,
              PlayLookup, EndedLock, EndedCheck, EndedStamp, EndedAdvance, Advance, PNotifyQueue,
              PNotifyConfig, PlaybackFails, storeVars
<1>a. curIdx' = curIdx => FetchedAt(curIdx)' = FetchedAt(curIdx)
  BY <1>f DEF FetchedAt, ItemsAt, Rows
<1>s. serves'[p] \in {serves[p], NoItem}
  BY <1>t DEF PlaybackStep
<1>1. ASSUME ~ Debounced' PROVE Agreed'
  <2>1. ~ EndedStamp(p)
    BY <1>1, <1>f, StampOpensInterval
  <2>2. ~ Debounced
    BY <1>1, <1>f, <1>m, <2>1 DEF Debounced
  <2>3. Agreed
    BY <1>f, <2>2 DEF SignalInv
  <2>4. preq[p].at \notin {"advance", "lookup", "update", "load", "playLookup"}
    BY <1>f, <2>2 DEF WindowInv
  <2>5. UNCHANGED <<chan, missed, curIdx>>
    BY <1>c, <1>i, <2>4
       DEF PlaybackStep, LoadsVideo, Load, LooksUp, AdvanceLookup, OtherSteps, history
  <2>6. UNCHANGED <<stream, page, signal>>
    BY DEF PlaybackStep
  <2>7. \A q \in PReq : serves'[q] \in {serves[q], NoItem}
    BY <1>f, <1>s
  <2> QED
    BY <1>a, <2>3, <2>5, <2>6, <2>7 DEF Agreed, Loads, UpToDate
<1>2. ASSUME NEW q \in PReq, preq'[q].at = "advance"
      PROVE  serves'[q] \in FetchedAt(curIdx)' \cup {NoItem, Unheard}
  <2>1. CASE q = p
    <3>1. EndedStamp(p) /\ preq[p].at = "stamp" /\ curIdx' = curIdx
      BY <1>2, <1>i, <1>m, <2>1 DEF EndedStamp
    <3>2. ~ Debounced
      BY <1>f, <3>1, StampFindsIntervalOver, PlaybackAssumption
         DEF Debounced, ViewerTypeOK, PlaybackTypeOK, Never
    <3>3. Agreed
      BY <1>f, <3>2 DEF SignalInv
    <3> QED
      BY <1>a, <1>s, <2>1, <3>1, <3>3 DEF Agreed
  <2>2. CASE q # p
    <3>1. preq[q].at = "advance" /\ serves'[q] = serves[q]
      BY <1>2, <1>f, <2>2
    <3>2. curIdx' = curIdx
      BY <1>f, <1>i, <2>2, <3>1 DEF WindowInv, Moving
    <3> QED
      BY <1>a, <1>f, <3>1, <3>2 DEF SignalInv
  <2> QED
    BY <2>1, <2>2
<1> QED
  BY <1>1, <1>2

\* Nothing a viewer does makes what its page shows, is sent and reports about another video.
LEMMA ViewerStepAgrees ==
    ASSUME ViewerTypeOK, Agreed, NEW v \in Viewers,
           \/ Subscribe(v) \/ ReadIndex(v) \/ CatchUp(v) \/ CatchUpFails(v)
           \/ Forward(v) \/ Break(v) \/ VideoEnds(v) \/ SignalLost(v)
    PROVE  Agreed'
<1> DEFINE about == FetchedAt(curIdx) \cup {NoItem, Unheard}
           AgreedOn(w) ==
               /\ signal[w] \in about
               /\ \A k \in Loads(w) : chan[w][k].video \in about
               /\ stream[w].at = "catchup" => stream[w].index = curIdx
               /\ UpToDate(w) => page[w].video \in about
<1>t. /\ DOMAIN stream = Viewers /\ DOMAIN chan = Viewers /\ DOMAIN page = Viewers
      /\ DOMAIN signal = Viewers
  BY DEF ViewerTypeOK
<1>f. UNCHANGED <<pos, curIdx, serves>>
  BY ViewerStepFrame
<1>a. about' = about
  BY <1>f DEF FetchedAt, ItemsAt, Rows
<1>h. AgreedOn(v) /\ \A w \in Viewers : AgreedOn(w)
  BY DEF Agreed
<1>o. \A w \in Viewers : w # v => AgreedOn(w)'
  BY <1>a, <1>f, <1>h, ViewerStepFrame DEF UpToDate, Loads
<1> SUFFICES AgreedOn(v)'
  BY <1>a, <1>f, <1>o DEF Agreed
<1> HIDE DEF about
<1>1. CASE Subscribe(v)
  BY <1>1, <1>a, <1>f, <1>h, <1>t DEF Subscribe, SGoto, history, Loads, UpToDate
<1>2. CASE ReadIndex(v)
  BY <1>2, <1>a, <1>f, <1>h, <1>t DEF ReadIndex, SGoto, history, Loads, UpToDate
<1>3. CASE CatchUp(v)
  <2>1. PICK i \in ItemsAt(stream[v].index) : Receives(v, [type |-> "load", video |-> i])
    BY <1>3 DEF CatchUp
  <2>2. /\ stream[v].at = "catchup" /\ stream'[v].at = "live"
        /\ UNCHANGED <<chan, signal>>
    BY <1>3, <1>t DEF CatchUp, SGoto
  <2>3. page'[v].video = i \/ v \in missed'
    BY <2>1, ReceivesLoad
  <2>4. i \in about
    BY <1>h, <2>1, <2>2 DEF about, FetchedAt
  <2> QED
    BY <1>a, <1>f, <1>h, <2>2, <2>3, <2>4 DEF Loads, UpToDate
<1>4. CASE CatchUpFails(v)
  BY <1>4, <1>a, <1>f, <1>h, <1>t DEF CatchUpFails, SGoto, Loads, UpToDate
<1>5. CASE Forward(v)
  <2>1. /\ UNCHANGED <<stream, signal>>
        /\ chan[v] # <<>> /\ chan'[v] = Tail(chan[v])
        /\ Receives(v, Head(chan[v]))
    BY <1>5, <1>t DEF Forward
  <2>2. /\ \A k \in Loads(v)' : k + 1 \in Loads(v) /\ chan'[v][k] = chan[v][k + 1]
        /\ 1 \in Loads(v) <=> Head(chan[v]).type = "load"
        /\ Head(chan[v]) = chan[v][1]
    BY <2>1, EventReceived
  <2>3. /\ Head(chan[v]).type = "load" => page'[v].video = chan[v][1].video \/ v \in missed'
        /\ Head(chan[v]).type # "load" => UNCHANGED <<page, missed>>
    BY <2>1, <2>2, ReceivesLoad
  <2>4. \A k \in Loads(v)' : chan'[v][k].video \in about
    BY <1>h, <2>2
  <2>5. UpToDate(v)' => page'[v].video \in about
    BY <1>h, <2>1, <2>2, <2>3 DEF UpToDate
  <2> QED
    BY <1>a, <1>f, <1>h, <2>1, <2>4, <2>5
<1>6. CASE Break(v)
  <2>1. stream'[v].at = "away" /\ chan'[v] = <<>> /\ signal' = signal
    BY <1>6, <1>t DEF Break, SGoto
  <2> QED
    BY <1>a, <1>h, <2>1 DEF Loads, UpToDate
<1>7. CASE VideoEnds(v)
  <2>1. /\ UNCHANGED <<stream, chan, missed>> /\ page'[v].video = page[v].video
        /\ signal'[v] = IF UpToDate(v) THEN page[v].video ELSE Unheard
    BY <1>7, <1>t DEF VideoEnds, history, ViewerTypeOK, Pages
  <2>2. signal'[v] \in about
    BY <1>h, <2>1 DEF about
  <2> QED
    BY <1>a, <1>f, <1>h, <2>1, <2>2 DEF Loads, UpToDate
<1>8. CASE SignalLost(v)
  <2>1. UNCHANGED <<stream, chan, page, missed>> /\ signal'[v] = NoItem
    BY <1>8, <1>t DEF SignalLost, history
  <2>2. NoItem \in about
    BY DEF about
  <2> QED
    BY <1>a, <1>f, <1>h, <2>1, <2>2 DEF Loads, UpToDate
<1> QED
  BY <1>1, <1>2, <1>3, <1>4, <1>5, <1>6, <1>7, <1>8

LEMMA StepSignals ==
    /\ ViewerTypeOK /\ DebounceHolds /\ WindowInv /\ SignalInv
    /\ [ViewerNext]_viewerSyncVars
    => SignalInv'
<1> SUFFICES ASSUME ViewerTypeOK, DebounceHolds, WindowInv, SignalInv,
                    [ViewerNext]_viewerSyncVars
             PROVE  SignalInv'
  OBVIOUS
<1>1. CASE \E p \in PReq : PlaybackStep(p)
  BY <1>1, PlaybackStepSignals
<1>2. ASSUME NEW p \in PReq, SignalArrives(p) PROVE SignalInv'
  <2>1. PICK v \in Viewers :
          /\ signal' = [signal EXCEPT ![v] = NoItem]
          /\ serves' = [serves EXCEPT ![p] = signal[v]]
    BY <1>2 DEF SignalArrives
  <2>2. /\ UNCHANGED <<pos, curIdx, lastAdvance, clock, stream, chan, page, missed, disturbed>>
        /\ preq' = [preq EXCEPT ![p] = [at |-> "lock"]]
    BY <1>2 DEF SignalArrives, Ended, PGoto, storeVars, history
  <2>3. FetchedAt(curIdx)' = FetchedAt(curIdx) /\ (Debounced' <=> Debounced)
    BY <2>2 DEF FetchedAt, ItemsAt, Rows, Debounced
  <2>4. Agreed => Agreed'
    BY <2>1, <2>2, <2>3 DEF Agreed, Loads, UpToDate, ViewerTypeOK
  <2>5. \A q \in PReq : preq'[q].at = "advance" =>
            preq[q].at = "advance" /\ serves'[q] = serves[q]
    BY <2>1, <2>2 DEF ViewerTypeOK, PlaybackTypeOK
  <2> QED
    BY <2>2, <2>3, <2>4, <2>5 DEF SignalInv
<1>3. ASSUME NEW v \in Viewers,
             \/ Subscribe(v) \/ ReadIndex(v) \/ CatchUp(v) \/ CatchUpFails(v)
             \/ Forward(v) \/ Break(v) \/ VideoEnds(v) \/ SignalLost(v)
      PROVE  SignalInv'
  <2>1. UNCHANGED <<pos, curIdx, preq, lastAdvance, clock, serves, disturbed>>
    BY <1>3, ViewerStepFrame
  <2>2. Agreed => Agreed'
    BY <1>3, ViewerStepAgrees
  <2> QED
    BY <2>1, <2>2 DEF SignalInv, Debounced, FetchedAt, ItemsAt, Rows
<1>4. CASE Time
  <2>1. /\ UNCHANGED <<pos, curIdx, preq, serves, missed, stream, chan, page, signal>>
        /\ disturbed' = (~ Settled /\ (disturbed \/ ~ Debounced'))
    BY <1>4 DEF Time, Tick, storeVars, viewerVars
  <2>2. FetchedAt(curIdx)' = FetchedAt(curIdx)
    BY <2>1 DEF FetchedAt, ItemsAt, Rows
  <2>3. CASE disturbed'
    BY <2>3 DEF SignalInv
  <2>4. CASE Settled
    <3>1. Agreed'
      BY <2>1, <2>2, <2>4 DEF Settled, Agreed, Loads, UpToDate
    <3>2. \A p \in PReq : preq'[p].at # "advance"
      BY <2>1, <2>4 DEF Settled, Moving
    <3> QED
      BY <3>1, <3>2 DEF SignalInv
  <2>5. CASE ~ disturbed /\ Debounced'
    BY <2>1, <2>2, <2>5 DEF SignalInv
  <2> QED
    BY <2>1, <2>3, <2>4, <2>5
<1>5. CASE ViewerRestart
  BY <1>5 DEF ViewerRestart, SignalInv, Agreed, Loads, UpToDate, PIdle
<1>6. CASE UNCHANGED viewerSyncVars
  BY <1>6 DEF viewerSyncVars, storeVars, playbackVars, viewerVars, history, SignalInv, Agreed,
              Loads, UpToDate, Debounced, FetchedAt, ItemsAt, Rows
<1> QED
  BY <1>1, <1>2, <1>3, <1>4, <1>5, <1>6 DEF ViewerNext

LEMMA InitScreens == ViewerInit => DebounceHolds /\ TargetInv /\ WindowInv /\ SignalInv
<1> SUFFICES ASSUME ViewerInit PROVE DebounceHolds /\ TargetInv /\ WindowInv /\ SignalInv
  OBVIOUS
<1>1. \A p \in PReq : preq[p].at = "idle" /\ serves[p] = NoItem
  BY DEF ViewerInit, PlaybackInit, PIdle
<1>2. DebounceHolds /\ TargetInv /\ WindowInv
  BY <1>1, PlaybackAssumption
     DEF ViewerInit, PlaybackInit, DebounceHolds, TargetInv, WindowInv, Moving
<1>3. Agreed
  BY <1>1 DEF ViewerInit, Agreed, Loads, UpToDate
<1> QED
  BY <1>1, <1>2, <1>3 DEF SignalInv

LEMMA ViewerInvariants ==
    ViewerSpec => [](ViewerTypeOK /\ CatchUpInv /\ SignalInv)
<1>1. ViewerSpec => []DebounceHolds
  BY ViewerTypes, InitScreens, StepViewerDebounce, PTL DEF ViewerSpec
<1>2. ViewerSpec => []TargetInv
  BY ViewerTypes, InitScreens, StepTargets, PTL DEF ViewerSpec
<1>3. ViewerSpec => []CatchUpInv
  BY <1>2, ViewerTypes, InitCatchUp, StepCatchUp, PTL DEF ViewerSpec
<1>4. ViewerSpec => []WindowInv
  BY <1>1, ViewerTypes, InitScreens, StepWindow, PTL DEF ViewerSpec
<1>5. ViewerSpec => []SignalInv
  BY <1>1, <1>4, ViewerTypes, InitScreens, StepSignals, PTL DEF ViewerSpec
<1> QED
  BY <1>3, <1>5, ViewerTypes, PTL

\* A viewer whose stream is up shows the current video or has it coming, however its
\* subscription and catch-up interleave with any number of commands and signals:
\* subscribing before the read is what makes it so (events.go:65-86, playback.go:145-166).
\* Not claimed, until the next load, of a viewer that lost its last one or whose last one
\* was overtaken.
THEOREM ViewersOnCurrent == ViewerSpec => []OnCurrent
<1>1. ViewerTypeOK /\ CatchUpInv => OnCurrent
  <2> SUFFICES ASSUME ViewerTypeOK, CatchUpInv, NEW v \in Viewers, UpToDate(v), ~ Coming
               PROVE  LastLoad(v) \in ItemsAt(curIdx)
    BY DEF OnCurrent, FetchedAt
  <2>1. CaughtUp(v) /\ stream[v].at = "live" /\ v \notin missed
    BY DEF CatchUpInv, UpToDate
  <2>2. CASE Loads(v) = {}
    BY <2>1, <2>2 DEF CaughtUp, LastLoad
  <2>3. CASE Loads(v) # {}
    <3> DEFINE k == CHOOSE k \in Loads(v) : \A j \in Loads(v) : j <= k
    <3>1. \E j \in Loads(v) : IsLast(v, j)
      BY <2>1, <2>3 DEF CaughtUp
    <3>2. k \in Loads(v) /\ IsLast(v, k)
      BY <3>1 DEF IsLast
    <3> QED
      BY <2>1, <2>3, <3>2 DEF CaughtUp, LastLoad
  <2> QED
    BY <2>2, <2>3
<1> QED
  BY <1>1, ViewerInvariants, PTL

\* However many viewers finish a video, the room goes on from that video and from no
\* other (playback.go:66-84, ViewerPage.tsx:134-142), as long as each debounce interval
\* was long enough for what it has to cover, and no play, next or prev was served since
\* the room was last settled; of signals from pages that are up to date.
THEOREM NothingSkipped == ViewerSpec => NoSkip
<1>1. SignalInv =>
        \A p \in PReq :
          Advances(p) /\ serves[p] \in Items /\ ~ disturbed
          => serves[p] \in FetchedAt(curIdx)
  BY StoreAssumption, ViewerAssumption DEF SignalInv, Advances
<1> QED
  BY <1>1, ViewerInvariants, PTL DEF NoSkip

=============================================================================
