------------------------------ MODULE AdminSync ------------------------------
(***************************************************************************)
(* pages/AdminPage.tsx: how the list an admin page shows follows the       *)
(* room's queue.  The page fetches the queue into a query cache (TanStack  *)
(* Query, external), a queue:updated notice over the WebSocket or a        *)
(* settled mutation invalidates it, and a drag puts the new order in the   *)
(* cache before the server has answered.  The sockets are those of         *)
(* WSClient; the server is reduced to a version of the queue, the          *)
(* broadcasts it still owes and the sockets its hub has registered.  The   *)
(* config query is kept up to date in the same way, without drags.         *)
(***************************************************************************)
EXTENDS WSClient, Integers

CONSTANTS
    Mutations,      \* the mutations of the page that can be under way at once
    NoData,         \* nothing is cached
    Guess,          \* a list made by the page, which the server never had
    MaxQueue        \* bound: the commits of a behaviour

ASSUME SyncAssumption ==
    /\ MaxQueue \in Nat
    /\ {NoData, Guess} \cap Nat = {}
    /\ NoData # Guess

VARIABLES
    queue,          \* how often the room's queue was changed
    owed,           \* the commits that are not broadcast yet
    registered,     \* the sockets in the server's hub
    notices,        \* the notices under way on each socket
    cache,          \* the cached list: a version of the queue, NoData or Guess
    fetch,          \* the fetch of the query in flight
    mut,            \* what each mutation of the page is doing
    missed          \* history: since the last fetch began, something that would
                    \* have to start another one did not

syncVars == <<queue, owed, registered, notices, cache, fetch, mut, missed>>

Versions == 0..MaxQueue
Lists == Versions \cup {NoData, Guess}
Mounted == current # NoClient

NoFetch == [at |-> "none"]
Asked == [at |-> "asked"]
MIdle == [at |-> "idle"]

SyncTypeOK ==
    /\ TypeOK
    /\ queue \in Versions /\ owed \in Versions
    /\ registered \subseteq Exists
    /\ notices \in [Sockets -> Versions]
    /\ cache \in Lists
    /\ fetch \in {NoFetch, Asked} \cup [at : {"answered"}, list : Versions]
    /\ mut \in [Mutations -> [at : {"idle", "edit", "edited"}] \cup
                             [at : {"reorder", "reordered"}, previous : Lists]]
    /\ missed \in BOOLEAN

SyncInit ==
    /\ Init
    /\ queue = 0 /\ owed = 0
    /\ registered = {}
    /\ notices = [s \in Sockets |-> 0]
    /\ cache = NoData
    /\ fetch = NoFetch
    /\ mut = [m \in Mutations |-> MIdle]
    /\ missed = FALSE

-----------------------------------------------------------------------------
(* The query cache (external).                                             *)

\* Mutant: an invalidation does not restart the fetch in flight.
Invalidate_JoinsFetch ==
    IF Mounted /\ fetch = NoFetch
      THEN fetch' = Asked /\ missed' = FALSE
      ELSE UNCHANGED <<fetch, missed>>

\* invalidateQueries: a page that shows the list fetches it again and drops the answer
\* of the fetch in flight.  The first fetch is not restarted though, and a query that
\* no page shows is only marked.
Invalidate ==
    IF Mounted /\ (cache # NoData \/ fetch = NoFetch)
      THEN fetch' = Asked /\ missed' = FALSE
      ELSE UNCHANGED fetch /\ missed' = TRUE

\* useQuery on mount joins the fetch in flight or starts one.
FetchOnMount ==
    IF fetch = NoFetch THEN fetch' = Asked /\ missed' = FALSE ELSE UNCHANGED <<fetch, missed>>

\* The server reads the queue.
FetchAnswered ==
    /\ fetch = Asked
    /\ fetch' = [at |-> "answered", list |-> queue]
    /\ UNCHANGED <<vars, queue, owed, registered, notices, cache, mut, missed>>

FetchDone ==
    /\ fetch.at = "answered"
    /\ cache' = fetch.list
    /\ fetch' = NoFetch
    /\ UNCHANGED <<vars, queue, owed, registered, notices, mut, missed>>

\* After its retry; nothing fetches again by itself.
FetchFails ==
    /\ fetch # NoFetch
    /\ fetch' = NoFetch
    /\ missed' = TRUE
    /\ UNCHANGED <<vars, queue, owed, registered, notices, cache, mut>>

-----------------------------------------------------------------------------
(* The server, and its hub (modelled in WSHub).                            *)

Committed == queue < MaxQueue /\ queue' = queue + 1 /\ owed' = owed + 1

\* A friend, another admin or a viewer's signal changes the queue.
OtherChange ==
    /\ Committed
    /\ UNCHANGED <<vars, registered, notices, cache, fetch, mut, missed>>

\* HandleQueueEvents registers a socket after it has accepted it.
Register(s) ==
    /\ state[s] \in {"connecting", "open"}
    /\ s \notin registered
    /\ registered' = registered \cup {s}
    /\ UNCHANGED <<vars, queue, owed, notices, cache, fetch, mut, missed>>

\* broadcastQueueUpdated: what is not registered hears nothing.
Broadcast ==
    /\ owed > 0
    /\ owed' = owed - 1
    /\ notices' = [s \in Sockets |-> IF s \in registered THEN notices[s] + 1 ELSE notices[s]]
    /\ missed' = (missed \/ registered = {})
    /\ UNCHANGED <<vars, queue, registered, cache, fetch, mut>>

\* onmessage and handleWSEvent; the handler of a client the page has left runs too.
Notice(s) ==
    /\ state[s] = "open"
    /\ notices[s] > 0
    /\ notices' = [notices EXCEPT ![s] = @ - 1]
    /\ Invalidate
    /\ UNCHANGED <<vars, queue, owed, registered, cache, mut>>

Live(s) == state[s] \in {"connecting", "open"}

\* Mutant: the hub keeps a socket that is gone.
SocketsStep_HubKeeps ==
    /\ registered' = registered
    /\ notices' = [s \in Sockets |-> IF Live(s)' THEN notices[s] ELSE 0]

\* What a step of the sockets takes with it: the registration and the notices under way.
SocketsStep ==
    /\ registered' = {s \in registered : Live(s)'}
    /\ notices' = [s \in Sockets |-> IF Live(s)' THEN notices[s] ELSE 0]

Dropped == \E s \in Sockets : notices[s] > 0 /\ ~ Live(s)'

-----------------------------------------------------------------------------
(* The page.                                                               *)

PageMounts(c) ==
    /\ Mount(c)
    /\ SocketsStep
    /\ FetchOnMount
    /\ UNCHANGED <<queue, owed, cache, mut>>

\* WSClient's other steps.
SocketsMove ==
    /\ \/ \E c \in Clients : Unmount(c) \/ Reconnect(c)
       \/ \E s \in Sockets : Opened(s) \/ Lost(s) \/ Closed(s)
    /\ SocketsStep
    /\ missed' = (missed \/ Dropped)
    /\ UNCHANGED <<queue, owed, cache, fetch, mut>>

MGoto(m, next) == mut' = [mut EXCEPT ![m] = next]

\* An add, a delete or a new text is sent.
Edit(m) ==
    /\ Mounted
    /\ mut[m] = MIdle
    /\ MGoto(m, [at |-> "edit"])
    /\ UNCHANGED <<vars, queue, owed, registered, notices, cache, fetch, missed>>

\* handleDragEnd and onMutate: the fetch in flight is cancelled, the list is kept for
\* the rollback, the cache gets the new order, and the request is sent.  The await in
\* between lets no event of the page in.
Drag(m) ==
    /\ Mounted
    /\ mut[m] = MIdle
    /\ cache # NoData
    /\ fetch' = NoFetch
    /\ cache' = Guess
    /\ MGoto(m, [at |-> "reorder", previous |-> cache])
    /\ UNCHANGED <<vars, queue, owed, registered, notices, missed>>

\* The server carries a mutation out.
MutationCommits(m) ==
    /\ mut[m].at \in {"edit", "reorder"}
    /\ Committed
    /\ MGoto(m, IF mut[m].at = "edit" THEN [at |-> "edited"]
                ELSE [mut[m] EXCEPT !.at = "reordered"])
    /\ UNCHANGED <<vars, registered, notices, cache, fetch, missed>>

\* Mutant: onError puts the list back, and nothing fetches the queue again.
ReorderFails_NoRefetch(m) ==
    /\ mut[m].at \in {"reorder", "reordered"}
    /\ cache' = mut[m].previous
    /\ MGoto(m, MIdle)
    /\ UNCHANGED <<vars, queue, owed, registered, notices, fetch, missed>>

\* The page sees an error: the request was refused, or the answer to it is lost.
\* onError puts the list back and onSettled invalidates it.
ReorderFails(m) ==
    /\ mut[m].at \in {"reorder", "reordered"}
    /\ cache' = mut[m].previous
    /\ MGoto(m, MIdle)
    /\ Invalidate
    /\ UNCHANGED <<vars, queue, owed, registered, notices>>

\* An edit has no onError.
EditFails(m) ==
    /\ mut[m].at \in {"edit", "edited"}
    /\ MGoto(m, MIdle)
    /\ UNCHANGED <<vars, queue, owed, registered, notices, cache, fetch, missed>>

\* onSuccess of an edit, onSettled of a reorder.
MutationSucceeds(m) ==
    /\ mut[m].at \in {"edited", "reordered"}
    /\ MGoto(m, MIdle)
    /\ Invalidate
    /\ UNCHANGED <<vars, queue, owed, registered, notices, cache>>

SyncNext ==
    \/ \E c \in Clients : PageMounts(c)
    \/ SocketsMove
    \/ FetchAnswered \/ FetchDone \/ FetchFails
    \/ OtherChange \/ Broadcast
    \/ \E s \in Sockets : Register(s) \/ Notice(s)
    \/ \E m \in Mutations :
          \/ Edit(m) \/ Drag(m)
          \/ MutationCommits(m) \/ MutationSucceeds(m)
          \/ ReorderFails(m) \/ EditFails(m)

SyncSpec == SyncInit /\ [][SyncNext]_<<vars, syncVars>>

\* WSClient's fairness.
FairSync == SyncSpec /\ Fairness

-----------------------------------------------------------------------------

Reordering == \E m \in Mutations : mut[m].at \in {"reorder", "reordered"}
Unsettled == \E m \in Mutations : mut[m] # MIdle

\* A page that shows anything but the server's queue is about to learn of it: a fetch, a
\* notice, a broadcast or a mutation is under way, unless a notice was lost, came too
\* early, or a fetch failed since the last one began (AdminPage.tsx:67-86,94-103).
StaleHasCause ==
    Mounted /\ cache # queue =>
        \/ fetch # NoFetch
        \/ owed > 0 \/ \E s \in Sockets : notices[s] > 0
        \/ Unsettled
        \/ missed

\* The order a drag puts on the screen, or the list its failure puts back, does not
\* stay: drags that overlap, lost answers and rollbacks always end in a fetch
\* (AdminPage.tsx:65-87).
GuessIsTemporary ==
    Mounted /\ cache = Guess => Reordering \/ fetch # NoFetch \/ missed

================================================================================
