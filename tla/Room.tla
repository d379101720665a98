--------------------------------- MODULE Room ---------------------------------
(***************************************************************************)
(* One room of the backend: the queue requests and the playback requests   *)
(* of its admins and viewers, running over the same rows.                  *)
(***************************************************************************)
EXTENDS QueueService, PlaybackService

vars == <<storeVars, queueVars, playbackVars>>

Init ==
    /\ StoreInit
    /\ QueueInit
    /\ PlaybackInit

\* The server goes down and comes up again: every goroutine, open transaction and
\* connection is lost, what was committed stays.  Nobody is left that a broadcast
\* would still be owed to.
Restart ==
    /\ snap' = [q \in TxReq |-> "none"]
    /\ writer' = NoReq
    /\ qreq' = [q \in TxReq |-> QIdle]
    /\ preq' = [p \in PReq |-> PIdle]
    /\ mu' = NoReq
    /\ lastAdvance' = Never
    /\ behind' = {}
    /\ UNCHANGED <<pos, used, curIdx, clock>>

Next ==
    \/ QNext /\ UNCHANGED playbackVars
    \/ PNext /\ UNCHANGED queueVars
    \/ Restart

Spec == Init /\ [][Next]_vars

\* A request that writes to the sockets of the admin pages.  The write has no deadline
\* (websocket.go:88-89): to a page that does not read it may never return.
QAnnouncing(q) == qreq[q].at \in {"notifyQueue", "notifyBoth", "notifyConfig"}
PAnnouncing(p) == preq[p].at \in {"notifyBoth", "notifyConfig"}

(***************************************************************************)
(* Fairness: the Go scheduler runs every goroutine that can run; a wait    *)
(* for the database ends with the busy timeout; sync.Mutex does not starve *)
(* a waiter.  Nothing obliges a client to send a request, nor an admin     *)
(* page to read what is written to it.                                     *)
(***************************************************************************)
Fairness ==
    /\ \A q \in TxReq : WF_vars(QProceed(q) /\ ~ QAnnouncing(q) /\ UNCHANGED playbackVars)
    /\ \A p \in PReq :
          /\ WF_vars(PProceed(p) /\ ~ PAnnouncing(p) /\ UNCHANGED queueVars)
          /\ SF_vars(EndedLock(p) /\ UNCHANGED queueVars)

FairSpec == Spec /\ Fairness

-----------------------------------------------------------------------------
(* Safety                                                                  *)

\* Every variable of the room keeps its type.
RoomTypeOK ==
    /\ StoreTypeOK
    /\ QueueTypeOK
    /\ PlaybackTypeOK

\* A change of the queue or of current_index that no broadcast has announced
\* belongs to a request that is still going to announce it: no interleaving of
\* commits, broadcasts and failures leaves the admin pages behind for good
\* (queue.go:77,176-178,194,221; playback.go:165-166).
ChangesAreAnnounced ==
    /\ "queue" \in behind =>
          \/ \E q \in TxReq : qreq[q].at \in {"notifyQueue", "notifyBoth"}
          \/ \E p \in PReq : preq[p].at = "notifyBoth"
    /\ "config" \in behind =>
          \/ \E q \in TxReq : qreq[q].at \in {"notifyBoth", "notifyConfig"}
          \/ \E p \in PReq : preq[p].at \in {"load", "notifyBoth", "notifyConfig"}

InTransaction(q) == qreq[q].at \in {"reorder", "commit"}

\* The transaction of Reorder works on what it read: as long as its snapshot is
\* not outdated, current_index and the current item are still what it took them
\* for; once it holds the write lock nothing can outdate it; and a lock or a
\* snapshot never outlives its request (queue.go:117-131).
SnapshotHolds ==
    /\ \A q \in TxReq :
          /\ snap[q] # "none" <=> InTransaction(q)
          /\ writer = q <=> qreq[q].at = "commit"
          /\ qreq[q].at = "commit" => snap[q] = "fresh"
          /\ snap[q] = "fresh" =>
                /\ qreq[q].index = curIdx
                /\ qreq[q].item # ReadError => qreq[q].item \in FetchedAt(curIdx)

Committing(q) == qreq[q].at = "commit" /\ qreq'[q].at = "notifyBoth"

\* A reorder that lists the current item takes current_index along to the item's
\* new position, whatever was added, deleted, advanced or reordered while it ran:
\* the item the highlight stood on keeps it (queue.go:125-138,151-169).  The item
\* must be the only one at its position, and the read of it must not have failed.
ReorderKeepsCurrent ==
    [][\A q \in TxReq : \A i \in Items :
          (/\ Committing(q)
           /\ ItemsAt(curIdx) = {i}
           /\ i \in Listed(qreq[q].order)
           /\ qreq[q].item # ReadError)
          => i \in Rows' /\ pos'[i] = curIdx']_vars

\* Two video-ended signals are never accepted within the debounce interval, however
\* the goroutines that serve them interleave with each other and with the clock
\* (playback.go:71-84).
AutoAdvanceSpacing ==
    [][\A p \in PReq :
          preq[p].at = "stamp" /\ preq'[p].at = "advance"
          => lastAdvance = Never \/ preq[p].now - lastAdvance >= DebounceDur]_vars

\* The positions are 0 .. n-1, each taken once: what advance and the frontend's
\* use of queue[currentIndex] count on.
Contiguous ==
    /\ \A i, j \in Rows : pos[i] = pos[j] => i = j
    /\ \A i \in Rows : pos[i] < Cardinality(Rows)

\* What can break it: a row is deleted, an Add whose count was overtaken by another
\* Add or a Delete, a reorder that does not list the rows there are.
Overtaken(q) == qreq[q].at = "insert" /\ qreq[q].count # QueueItemCount
Partial(q) == qreq[q].at = "commit" /\ Listed(qreq[q].order) # Rows
BreaksContiguity ==
    \/ ~ (Rows \subseteq Rows')
    \/ \E q \in TxReq : (Overtaken(q) \/ Partial(q)) /\ qreq'[q].at \in {"notifyQueue", "notifyBoth"}

\* Nothing else does: an Add on its own and a complete reorder keep the positions
\* contiguous, however they overlap with the other requests (queue.go:46-49,110-115).
ContiguityKept == [][Contiguous /\ ~ BreaksContiguity => Contiguous']_vars

-----------------------------------------------------------------------------
(* The room implements a playlist                                          *)

Edit(request) ==
    CASE request.at = "insert" -> [op |-> "add", at |-> request.count]
      [] request.at \in {"reorder", "commit"} ->
            [op |-> "reorder",
             place |-> [i \in Listed(request.order) |-> Slot(request.order, i) - 1],
             follows |-> request.item # ReadError]
      [] request.at \in {"notifyQueue", "notifyBoth", "notifyConfig"} -> [op |-> "done"]
      [] OTHER -> [op |-> "none"]

Move(request) ==
    CASE request.at = "lookup" -> [op |-> "look", to |-> request.target]
      [] request.at = "update" -> [op |-> "go", to |-> request.target]
      [] request.at \in {"load", "notifyBoth", "notifyConfig"} -> [op |-> "done"]
      [] OTHER -> [op |-> "none"]

Edits == [q \in TxReq |-> Edit(qreq[q])]
Moves == [p \in PReq |-> Move(preq[p])]

PL == INSTANCE Playlist WITH Admins <- TxReq, Players <- PReq, edits <- Edits, moves <- Moves

\* However the statements of the requests interleave, with failures and restarts, each
\* request acts on the queue in one step, before it is announced, or not at all; a
\* reorder acts as if it had read the queue just then (queue.go:99-180,
\* playback.go:119-172).
KeepsPlaylist == PL!Spec

-----------------------------------------------------------------------------
(* Liveness                                                                *)

\* The writes of a request to the admin pages return: the pages read, or their
\* connections break.
QReturns(q) == WF_vars(QProceed(q) /\ QAnnouncing(q) /\ UNCHANGED playbackVars)
PReturns(p) == WF_vars(PProceed(p) /\ PAnnouncing(p) /\ UNCHANGED queueVars)
AllReturn == (\A q \in TxReq : QReturns(q)) /\ (\A p \in PReq : PReturns(p))

\* Every request ends or comes to its broadcast, even while any number of others hang
\* in theirs for ever: no lock, snapshot or mutex is left behind that another request
\* would wait for, and an accepted signal is always acted on or failed.  A request ends
\* if its own writes return (queue.go:117-180, playback.go:71-84, websocket.go:71-96).
RequestsFinish ==
    /\ \A q \in TxReq :
          /\ qreq[q].at # "idle" ~> qreq[q].at = "idle" \/ QAnnouncing(q)
          /\ QReturns(q) => (qreq[q].at # "idle" ~> qreq[q].at = "idle")
    /\ \A p \in PReq :
          /\ preq[p].at # "idle" ~> preq[p].at = "idle" \/ PAnnouncing(p)
          /\ PReturns(p) => (preq[p].at # "idle" ~> preq[p].at = "idle")

\* If the writes return, every change is announced to the admin pages in the end
\* (queue.go:77,176-178,194,221; playback.go:165-166).
BehindCatchesUp == AllReturn => \A n \in Notices : n \in behind ~> n \notin behind

-----------------------------------------------------------------------------
(* What the comments promise and the code does not keep                    *)

\* queue.go:151-153: "Update currentIndex to follow the currently-playing item to
\* its new position. Without this, reordering would cause the "Now Playing" highlight
\* to drift to a different video."  An advance that overlaps with a reorder makes
\* another row current than the one whose video it loads.
AdvanceStaysOnItem ==
    [][\A p \in PReq :
          /\ preq[p].at = "update" /\ preq'[p].at = "load"
          /\ preq[p].item \in Rows
          => pos[preq[p].item] = curIdx']_vars

=============================================================================
