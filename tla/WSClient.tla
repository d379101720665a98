------------------------------- MODULE WSClient -------------------------------
(***************************************************************************)
(* services/websocketClient.ts and the effect of pages/AdminPage.tsx that  *)
(* drives it.  An admin page creates one WebSocketClient after another, as *)
(* its session and token change, and disconnects each before the next.     *)
(*                                                                         *)
(* A WebSocket closes asynchronously: close() only starts it, and the close*)
(* event comes later and runs onclose, whoever closed it.  An error event  *)
(* is followed by the close event of the same socket: what onerror does is *)
(* part of Lost.  The length of the delays is abstracted away, and with it *)
(* reconnectAttempts.                                                      *)
(***************************************************************************)
EXTENDS FiniteSets

CONSTANTS
    Clients,        \* the WebSocketClient objects of one page
    NoClient,
    Sockets,        \* WebSocket objects; one that is closed for good is used again
    NoSocket

ASSUME ClientAssumption ==
    /\ NoClient \notin Clients
    /\ NoSocket \notin Sockets

VARIABLES
    current,        \* wsRef.current: the client the page uses
    created,        \* the clients there ever were
    ws,             \* this.ws of each client
    timer,          \* the clients with a pending reconnectTimer
    state,          \* the readyState of each socket
    owner,          \* the client whose handlers a socket runs
    wsConnected     \* what the page's status store says

vars == <<current, created, ws, timer, state, owner, wsConnected>>

Exists == {s \in Sockets : state[s] # "unused"}

TypeOK ==
    /\ current \in Clients \cup {NoClient}
    /\ created \subseteq Clients
    /\ ws \in [Clients -> Exists \cup {NoSocket}]
    /\ timer \subseteq created
    /\ state \in [Sockets -> {"unused", "connecting", "open", "closing"}]
    /\ owner \in [Sockets -> Clients \cup {NoClient}]
    /\ wsConnected \in BOOLEAN

Init ==
    /\ current = NoClient
    /\ created = {}
    /\ ws = [c \in Clients |-> NoSocket]
    /\ timer = {}
    /\ state = [s \in Sockets |-> "unused"]
    /\ owner = [s \in Sockets |-> NoClient]
    /\ wsConnected = FALSE

-----------------------------------------------------------------------------

\* disconnect: the sockets after this.ws.close().
ClosedBy(c) == [s \in Sockets |-> IF s = ws[c] THEN "closing" ELSE state[s]]

Disconnect(c) ==
    /\ timer' = timer \ {c}
    /\ state' = ClosedBy(c)
    /\ ws' = [ws EXCEPT ![c] = NoSocket]
    /\ wsConnected' = FALSE
    /\ UNCHANGED owner

\* Mutant: the timer is an interval, and connect does not clear it.
Connect_Interval(c) ==
    \E s \in Sockets \ Exists :
        /\ state' = [ClosedBy(c) EXCEPT ![s] = "connecting"]
        /\ owner' = [owner EXCEPT ![s] = c]
        /\ ws' = [ws EXCEPT ![c] = s]
        /\ wsConnected' = FALSE
        /\ UNCHANGED timer

\* connect: disconnect first, then a new socket.
Connect(c) ==
    \E s \in Sockets \ Exists :
        /\ timer' = timer \ {c}
        /\ state' = [ClosedBy(c) EXCEPT ![s] = "connecting"]
        /\ owner' = [owner EXCEPT ![s] = c]
        /\ ws' = [ws EXCEPT ![c] = s]
        /\ wsConnected' = FALSE

Mount(c) ==
    /\ current = NoClient
    /\ c \notin created
    /\ created' = created \cup {c}
    /\ current' = c
    /\ Connect(c)

\* The cleanup of the effect.
Unmount(c) ==
    /\ current = c
    /\ current' = NoClient
    /\ Disconnect(c)
    /\ UNCHANGED created

Opened(s) ==
    /\ state[s] = "connecting"
    /\ state' = [state EXCEPT ![s] = "open"]
    /\ wsConnected' = TRUE
    /\ UNCHANGED <<current, created, ws, timer, owner>>

\* Mutant: this.ws still refers to the closed socket.
OnClose_KeepRef(s) ==
    /\ wsConnected' = FALSE
    /\ timer' = timer \cup {owner[s]}
    /\ state' = [state EXCEPT ![s] = "unused"]
    /\ owner' = [owner EXCEPT ![s] = NoClient]
    /\ UNCHANGED <<current, created, ws>>

\* Mutant: an attempt that fails is not followed by another one.
OnClose_GiveUp(s) ==
    /\ wsConnected' = FALSE
    /\ ws' = [ws EXCEPT ![owner[s]] = NoSocket]
    /\ timer' = IF wsConnected THEN timer \cup {owner[s]} ELSE timer
    /\ state' = [state EXCEPT ![s] = "unused"]
    /\ owner' = [owner EXCEPT ![s] = NoClient]
    /\ UNCHANGED <<current, created>>

\* The close event: onclose, which schedules a new attempt.
OnClose(s) ==
    /\ wsConnected' = FALSE
    /\ ws' = [ws EXCEPT ![owner[s]] = NoSocket]
    /\ timer' = timer \cup {owner[s]}
    /\ state' = [state EXCEPT ![s] = "unused"]
    /\ owner' = [owner EXCEPT ![s] = NoClient]
    /\ UNCHANGED <<current, created>>

\* The server or the network ends a connection or an attempt.
Lost(s) == state[s] \in {"connecting", "open"} /\ OnClose(s)

\* A close() of the client itself is done.
Closed(s) == state[s] = "closing" /\ OnClose(s)

\* The timeout fires.
Reconnect(c) ==
    /\ c \in timer
    /\ Connect(c)
    /\ UNCHANGED <<current, created>>

Next ==
    \/ \E c \in Clients : Mount(c) \/ Unmount(c) \/ Reconnect(c)
    \/ \E s \in Sockets : Opened(s) \/ Lost(s) \/ Closed(s)

Spec == Init /\ [][Next]_vars

(***************************************************************************)
(* Fairness: timeouts fire and close events come.  The server accepts an   *)
(* attempt in the end, which is up to the network and not to this code.    *)
(***************************************************************************)
Fairness ==
    /\ \A c \in Clients :
          /\ WF_vars(Reconnect(c))
          /\ SF_vars(\E s \in Sockets : owner[s] = c /\ Opened(s))
    /\ \A s \in Sockets : WF_vars(Closed(s))

FairSpec == Spec /\ Fairness

-----------------------------------------------------------------------------

\* A client never has two sockets, nor a socket and a timer that would open a second:
\* otherwise its onclose would drop this.ws of the other one, and its timers would
\* multiply (websocketClient.ts:39-67,73-97).
OneTransport ==
    \A s, t \in Exists :
        /\ owner[s] = owner[t] => s = t
        /\ owner[s] \notin timer

\* The client of a page is connecting, connected or about to try again, whatever was
\* lost in which order (websocketClient.ts:58-62,89-97).
KeepsTrying ==
    current # NoClient => (ws[current] = NoSocket <=> current \in timer)

\* A page that stays gets its connection back.
Reconnects ==
    \A c \in Clients :
        current = c ~> current # c \/ (ws[c] # NoSocket /\ state[ws[c]] = "open")

\* AdminPage.tsx:108-110: "disconnects on cleanup to avoid leaked connections".  The
\* close event of the socket that disconnect closed starts the client again.
LeavesForGood ==
    \A c \in created \ {current} :
        c \notin timer /\ \A s \in Exists : owner[s] = c => state[s] = "closing"

===============================================================================
