------------------------------ MODULE SSEClient ------------------------------
(***************************************************************************)
(* services/sseClient.ts and the effect of pages/ViewerPage.tsx that drives*)
(* it.  A viewer page creates one SSEClient after another, as its session  *)
(* and token change, and disconnects each before the next.  close() of an  *)
(* EventSource takes effect at once, and no handler runs after it.  The    *)
(* length of the delays is abstracted away, and with it reconnectAttempts. *)
(***************************************************************************)
CONSTANTS
    Clients,        \* the SSEClient objects of one page
    NoClient

ASSUME ClientAssumption == NoClient \notin Clients

VARIABLES
    current,        \* sseRef.current: the client the page uses
    created,        \* the clients there ever were
    source,         \* this.eventSource of each client: "none", or where it is
    timer,          \* the clients with a pending reconnectTimer
    sseConnected    \* what the page's status store says

vars == <<current, created, source, timer, sseConnected>>

TypeOK ==
    /\ current \in created \cup {NoClient}
    /\ created \subseteq Clients
    /\ source \in [Clients -> {"none", "connecting", "open"}]
    /\ timer \subseteq created
    /\ sseConnected \in BOOLEAN

Init ==
    /\ current = NoClient
    /\ created = {}
    /\ source = [c \in Clients |-> "none"]
    /\ timer = {}
    /\ sseConnected = FALSE

-----------------------------------------------------------------------------

\* Mutant: the pending timer is forgotten.
Disconnect_KeepTimer(c) ==
    /\ source' = [source EXCEPT ![c] = "none"]
    /\ sseConnected' = FALSE
    /\ UNCHANGED timer

Disconnect(c) ==
    /\ timer' = timer \ {c}
    /\ source' = [source EXCEPT ![c] = "none"]
    /\ sseConnected' = FALSE

\* connect: disconnect first, then a new EventSource.
Connect(c) ==
    /\ timer' = timer \ {c}
    /\ source' = [source EXCEPT ![c] = "connecting"]
    /\ sseConnected' = FALSE

Mount(c) ==
    /\ current = NoClient
    /\ c \notin created
    /\ created' = created \cup {c}
    /\ current' = c
    /\ Connect(c)

\* The cleanup of the effect.
Unmount(c) ==
    /\ current = c
    /\ current' = NoClient
    /\ Disconnect(c)
    /\ UNCHANGED created

Opened(c) ==
    /\ source[c] = "connecting"
    /\ source' = [source EXCEPT ![c] = "open"]
    /\ sseConnected' = TRUE
    /\ UNCHANGED <<current, created, timer>>

\* Mutant: the EventSource is not closed; it reconnects by itself.
Failed_KeepSource(c) ==
    /\ source[c] # "none"
    /\ sseConnected' = FALSE
    /\ source' = [source EXCEPT ![c] = "connecting"]
    /\ timer' = timer \cup {c}
    /\ UNCHANGED <<current, created>>

\* Mutant: nothing is said of the lost connection.
Failed_Silent(c) ==
    /\ source[c] # "none"
    /\ source' = [source EXCEPT ![c] = "none"]
    /\ timer' = timer \cup {c}
    /\ UNCHANGED <<current, created, sseConnected>>

\* Mutant: an attempt that fails is not followed by another one.
Failed_GiveUp(c) ==
    /\ source[c] # "none"
    /\ sseConnected' = FALSE
    /\ timer' = IF source[c] = "open" THEN timer \cup {c} ELSE timer
    /\ source' = [source EXCEPT ![c] = "none"]
    /\ UNCHANGED <<current, created>>

\* onerror: the connection or an attempt failed.
Failed(c) ==
    /\ source[c] # "none"
    /\ sseConnected' = FALSE
    /\ source' = [source EXCEPT ![c] = "none"]
    /\ timer' = timer \cup {c}
    /\ UNCHANGED <<current, created>>

\* The timeout fires.
Reconnect(c) ==
    /\ c \in timer
    /\ Connect(c)
    /\ UNCHANGED <<current, created>>

Next ==
    \E c \in Clients :
        \/ Mount(c)
        \/ Unmount(c)
        \/ Opened(c)
        \/ Failed(c)
        \/ Reconnect(c)

Spec == Init /\ [][Next]_vars

(***************************************************************************)
(* Fairness: timeouts fire.  The server accepts an attempt in the end,     *)
(* which is up to the network and not to this code.                        *)
(***************************************************************************)
Fairness == \A c \in Clients : WF_vars(Reconnect(c)) /\ SF_vars(Opened(c))

FairSpec == Spec /\ Fairness

-----------------------------------------------------------------------------

\* A client the page has left holds no connection and starts none, so no viewer is
\* served twice (sseClient.ts:64-78, ViewerPage.tsx:195-216).
LeavesForGood ==
    \A c \in created \ {current} : source[c] = "none" /\ c \notin timer

\* The client of a page has an EventSource or a timer that makes the next one, never
\* both: losses neither end the attempts nor multiply them (sseClient.ts:56-61,80-92).
KeepsTrying ==
    current # NoClient => (source[current] = "none" <=> current \in timer)

\* The indicator of the viewer page is that of its current connection
\* (playbackStore.ts:8-11).
StatusOfCurrent ==
    sseConnected <=> current # NoClient /\ source[current] = "open"

\* A page that stays gets its stream back.
Reconnects == \A c \in Clients : current = c ~> current # c \/ source[c] = "open"

==============================================================================
