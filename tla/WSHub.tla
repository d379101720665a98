-------------------------------- MODULE WSHub --------------------------------
(***************************************************************************)
(* broker/websocket.go and the connection loop of handlers/websocket.go:   *)
(* the WebSocket connections of the admin pages, and the goroutines that   *)
(* broadcast to those of a session.  The client map is abstracted to the   *)
(* set of registered connections; each of them is used once.               *)
(*                                                                         *)
(* h.mu is a sync.RWMutex, taken as in SSEBroker, but a Broadcast holds it *)
(* only to copy the list of its targets.  The writes come after, one       *)
(* connection at a time, with a context that never ends.                   *)
(***************************************************************************)
EXTENDS Integers, FiniteSets

CONSTANTS
    Conns,          \* WebSocket connections, each with its handler goroutine
    Stuck,          \* the ones whose peer is there but does not read
    Senders,        \* goroutines that broadcast
    Sessions,
    SessionOf,      \* the session of a connection
    MaxMessages,    \* bound on the broadcasts of a behaviour
    NoConn

ASSUME HubAssumption ==
    /\ Stuck \subseteq Conns
    /\ SessionOf \in [Conns -> Sessions]
    /\ MaxMessages \in Nat
    /\ NoConn \notin Conns

VARIABLES
    registered,     \* h.clients
    announced,      \* the connection whose handler's Lock of h.mu is pending or held
    conn,           \* where each connection and its handler are
    heard,          \* the messages each connection was sent
    sender,         \* what each broadcasting goroutine is doing
    sent            \* the number of broadcasts so far

vars == <<registered, announced, conn, heard, sender, sent>>

Messages == 1..MaxMessages

ConnStates == {"new", "registering", "connected", "broken", "gone"}
SenderStates ==
         [at : {"idle"}]
    \cup [at : {"blocked", "locked"}, session : Sessions, message : Messages]
    \cup [at : {"writing"}, message : Messages, todo : SUBSET Conns]

TypeOK ==
    /\ registered \subseteq Conns
    /\ announced \in Conns \cup {NoConn}
    /\ conn \in [Conns -> ConnStates]
    /\ heard \in [Conns -> SUBSET Messages]
    /\ sender \in [Senders -> SenderStates]
    /\ sent \in 0..MaxMessages

Init ==
    /\ registered = {}
    /\ announced = NoConn
    /\ conn = [c \in Conns |-> "new"]
    /\ heard = [c \in Conns |-> {}]
    /\ sender = [b \in Senders |-> [at |-> "idle"]]
    /\ sent = 0

-----------------------------------------------------------------------------
(* The write lock.                                                         *)

\* Mutant: Broadcast keeps the read lock until its writes are done.
Readers_WhileWriting == {b \in Senders : sender[b].at \in {"locked", "writing"}}

Readers == {b \in Senders : sender[b].at = "locked"}

Announce(c) ==
    /\ conn[c] \in {"registering", "broken"}
    /\ announced = NoConn
    /\ announced' = c
    /\ UNCHANGED <<registered, conn, heard, sender, sent>>

HoldsLock(c) == announced = c /\ Readers = {}

Unlock ==
    /\ announced' = NoConn
    /\ sender' = [b \in Senders |-> IF sender[b].at = "blocked"
                                      THEN [sender[b] EXCEPT !.at = "locked"]
                                      ELSE sender[b]]

-----------------------------------------------------------------------------
(* Connections: HandleQueueEvents.                                         *)

Accept(c) ==
    /\ conn[c] = "new"
    /\ conn' = [conn EXCEPT ![c] = "registering"]
    /\ UNCHANGED <<registered, announced, heard, sender, sent>>

Register(c) ==
    /\ conn[c] = "registering"
    /\ HoldsLock(c)
    /\ registered' = registered \cup {c}
    /\ conn' = [conn EXCEPT ![c] = "connected"]
    /\ Unlock
    /\ UNCHANGED <<heard, sent>>

\* The connection breaks; conn.Read fails.
Break(c) ==
    /\ conn[c] = "connected"
    /\ conn' = [conn EXCEPT ![c] = "broken"]
    /\ UNCHANGED <<registered, announced, heard, sender, sent>>

\* Mutant: the handler returns without Unregister.
Unregister_Leak(c) ==
    /\ conn[c] = "broken"
    /\ HoldsLock(c)
    /\ conn' = [conn EXCEPT ![c] = "gone"]
    /\ Unlock
    /\ UNCHANGED <<registered, heard, sent>>

Unregister(c) ==
    /\ conn[c] = "broken"
    /\ HoldsLock(c)
    /\ registered' = registered \ {c}
    /\ conn' = [conn EXCEPT ![c] = "gone"]
    /\ Unlock
    /\ UNCHANGED <<heard, sent>>

-----------------------------------------------------------------------------
(* Senders: Broadcast.                                                     *)

SGoto(b, state) == sender' = [sender EXCEPT ![b] = state]

Broadcast(b, s) ==
    /\ sender[b].at = "idle"
    /\ sent < MaxMessages
    /\ sent' = sent + 1
    /\ SGoto(b, [at |-> IF announced = NoConn THEN "locked" ELSE "blocked",
                 session |-> s, message |-> sent + 1])
    /\ UNCHANGED <<registered, announced, conn, heard>>

\* Mutant: the session is not looked at.
Targets_All(s) == registered

Targets(s) == {c \in registered : SessionOf[c] = s}

\* The list of targets is copied, and the lock released.
Snapshot(b) ==
    /\ sender[b].at = "locked"
    /\ SGoto(b, [at |-> "writing", message |-> sender[b].message,
                 todo |-> Targets(sender[b].session)])
    /\ UNCHANGED <<registered, announced, conn, heard, sent>>

Rest(b, c) == [sender[b] EXCEPT !.todo = @ \ {c}]

\* Mutant: a failed write ends the loop.
Write_StopOnError(b) ==
    /\ sender[b].at = "writing"
    /\ \E c \in sender[b].todo :
          IF conn[c] = "connected"
            THEN /\ c \notin Stuck
                 /\ heard' = [heard EXCEPT ![c] = @ \cup {sender[b].message}]
                 /\ SGoto(b, Rest(b, c))
            ELSE UNCHANGED heard /\ SGoto(b, [at |-> "idle"])
    /\ UNCHANGED <<registered, announced, conn, sent>>

\* A write succeeds while the peer reads, fails once the connection is broken, and
\* else does not return.
Write(b) ==
    /\ sender[b].at = "writing"
    /\ \E c \in sender[b].todo :
          /\ conn[c] = "connected" => c \notin Stuck
          /\ heard' = IF conn[c] = "connected"
                        THEN [heard EXCEPT ![c] = @ \cup {sender[b].message}] ELSE heard
          /\ SGoto(b, Rest(b, c))
    /\ UNCHANGED <<registered, announced, conn, sent>>

Done(b) ==
    /\ sender[b].at = "writing"
    /\ sender[b].todo = {}
    /\ SGoto(b, [at |-> "idle"])
    /\ UNCHANGED <<registered, announced, conn, heard, sent>>

-----------------------------------------------------------------------------

Next ==
    \/ \E c \in Conns :
          Accept(c) \/ Announce(c) \/ Register(c) \/ Break(c) \/ Unregister(c)
    \/ \E b \in Senders :
          \/ \E s \in Sessions : Broadcast(b, s)
          \/ Snapshot(b)
          \/ Write(b)
          \/ Done(b)

Spec == Init /\ [][Next]_vars

(***************************************************************************)
(* Fairness: goroutines that can run do; sync.RWMutex serves every writer  *)
(* in the end.  The list of targets is written in an order the map iteration*)
(* picks: the write that is next may be one that never returns, so there is*)
(* progress only while every target reads or is broken.  Nothing makes a   *)
(* stuck peer's connection break.                                          *)
(***************************************************************************)
CanWriteAll(b) ==
    \A c \in sender[b].todo : conn[c] = "connected" => c \notin Stuck

Fairness ==
    /\ \A c \in Conns : SF_vars(Announce(c)) /\ WF_vars(Register(c) \/ Unregister(c))
    /\ \A b \in Senders :
          WF_vars(Snapshot(b) \/ Done(b) \/ (sender[b].at = "writing" /\ CanWriteAll(b) /\ Write(b)))

FairSpec == Spec /\ Fairness

-----------------------------------------------------------------------------

\* The hub holds the connections that are up or not yet taken off, no others: a
\* broken connection does not stay behind (websocket.go:37-68, handlers/websocket.go:67-77).
HubMatchesConns ==
    registered = {c \in Conns : conn[c] \in {"connected", "broken"}}

\* Only the admins of the session a broadcast is for are its targets
\* (websocket.go:18-21,74-86).
SenderOf(c, m) == \E b \in Senders : sender[b].at = "writing" /\ sender[b].message = m
                                      /\ c \in sender[b].todo

\* No two targets of one broadcast are of different sessions.
OneSessionPerMessage ==
    \A m \in Messages : \A c, d \in Conns :
        (m \in heard[c] \/ SenderOf(c, m)) /\ (m \in heard[d] \/ SenderOf(d, m))
        => SessionOf[c] = SessionOf[d]

\* "a slow or blocked write does not hold the hub lock and starve other operations"
\* (websocket.go:70-73): pages connect and leave while a write does not return.
ConnsServed ==
    \A c \in Conns :
        /\ conn[c] = "registering" ~> conn[c] # "registering"
        /\ conn[c] = "broken" ~> conn[c] = "gone"

\* A connected admin that a broadcast was started for hears it, unless a page that does
\* not read is among its targets: failed writes to other ones do not end the loop
\* (websocket.go:88-96).
TargetsHear ==
    \A c \in Conns : \A m \in Messages :
        SenderOf(c, m) ~>
            \/ m \in heard[c]
            \/ conn[c] # "connected"
            \/ \E d \in Stuck : SenderOf(d, m)

=============================================================================
