------------------------------ MODULE SSEBroker ------------------------------
(***************************************************************************)
(* broker/sse.go and the stream loop of handlers/events.go: viewers        *)
(* subscribe a bounded channel, goroutines that serve playback requests    *)
(* broadcast to the channels of a session.                                 *)
(*                                                                         *)
(* b.mu is a sync.RWMutex.  A Lock first announces itself, which makes     *)
(* later RLocks wait, then waits for the readers there are; its Unlock     *)
(* lets every waiting reader in before the next writer.  What a goroutine  *)
(* does between Lock and Unlock is one step: nobody else can look.  A      *)
(* Broadcast sends to one channel at a time, under RLock.                  *)
(***************************************************************************)
EXTENDS Integers, FiniteSets, Sequences

CONSTANTS
    Viewers,        \* SSE connections: handler goroutine and channel
    Senders,        \* goroutines that broadcast
    Sessions,
    SessionOf,      \* the session a viewer watches
    Cap,            \* capacity of a channel (16 in the code)
    MaxEvents,      \* bound on the broadcasts of a behaviour
    NoViewer

ASSUME BrokerAssumption ==
    /\ SessionOf \in [Viewers -> Sessions]
    /\ Cap \in Nat \ {0}
    /\ MaxEvents \in Nat
    /\ NoViewer \notin Viewers

VARIABLES
    subscribers,    \* b.subscribers: session -> set of channels
    announced,      \* the viewer whose Lock of b.mu is pending or held
    chan,           \* the events in each viewer's channel
    open,           \* the viewers whose channel was made and not closed
    viewer,         \* where each viewer's handler is
    got,            \* the events written to each viewer's stream
    sender,         \* what each broadcasting goroutine is doing
    sent            \* the number of broadcasts so far

vars == <<subscribers, announced, chan, open, viewer, got, sender, sent>>

\* An event: its session, the goroutine that sends it, and when it began to.
Events == [session : Sessions, from : Senders, n : 1..MaxEvents]

ViewerStates == {"away", "subscribing", "streaming", "leaving"}
SenderStates ==
         [at : {"idle"}]
    \cup [at : {"blocked", "locked"}, event : Events]
    \cup [at : {"sending"}, event : Events, todo : SUBSET Viewers]

TypeOK ==
    /\ DOMAIN subscribers \subseteq Sessions
    /\ \A s \in DOMAIN subscribers : subscribers[s] \subseteq Viewers
    /\ announced \in Viewers \cup {NoViewer}
    /\ chan \in [Viewers -> Seq(Events)]
    /\ \A v \in Viewers : Len(chan[v]) <= Cap
    /\ open \subseteq Viewers
    /\ viewer \in [Viewers -> ViewerStates]
    /\ got \in [Viewers -> Seq(Events)]
    /\ sender \in [Senders -> SenderStates]
    /\ sent \in 0..MaxEvents

Init ==
    /\ subscribers = [s \in {} |-> {}]
    /\ announced = NoViewer
    /\ chan = [v \in Viewers |-> <<>>]
    /\ open = {}
    /\ viewer = [v \in Viewers |-> "away"]
    /\ got = [v \in Viewers |-> <<>>]
    /\ sender = [b \in Senders |-> [at |-> "idle"]]
    /\ sent = 0

SubscribersOf(s) == IF s \in DOMAIN subscribers THEN subscribers[s] ELSE {}

SetSubscribers(s, subs) ==
    subscribers' = [t \in DOMAIN subscribers \cup {s} |-> IF t = s THEN subs ELSE subscribers[t]]

-----------------------------------------------------------------------------
(* The write lock.                                                         *)

Readers == {b \in Senders : sender[b].at \in {"locked", "sending"}}

Announce(v) ==
    /\ viewer[v] \in {"subscribing", "leaving"}
    /\ announced = NoViewer
    /\ announced' = v
    /\ UNCHANGED <<subscribers, chan, open, viewer, got, sender, sent>>

\* Mutant: Lock does not wait for the readers.
HoldsLock_Early(v) == announced = v

HoldsLock(v) == announced = v /\ Readers = {}

\* Unlock: the readers that waited hold the lock now.
Unlock ==
    /\ announced' = NoViewer
    /\ sender' = [b \in Senders |-> IF sender[b].at = "blocked"
                                      THEN [sender[b] EXCEPT !.at = "locked"]
                                      ELSE sender[b]]

-----------------------------------------------------------------------------
(* Viewers: SSEStream.                                                     *)

Connect(v) ==
    /\ viewer[v] = "away"
    /\ viewer' = [viewer EXCEPT ![v] = "subscribing"]
    /\ UNCHANGED <<subscribers, announced, chan, open, got, sender, sent>>

Subscribe(v) ==
    LET s == SessionOf[v]
    IN  /\ viewer[v] = "subscribing"
        /\ HoldsLock(v)
        /\ chan' = [chan EXCEPT ![v] = <<>>]
        /\ open' = open \cup {v}
        /\ got' = [got EXCEPT ![v] = <<>>]
        /\ SetSubscribers(s, SubscribersOf(s) \cup {v})
        /\ viewer' = [viewer EXCEPT ![v] = "streaming"]
        /\ Unlock
        /\ UNCHANGED sent

Deliver(v) ==
    /\ viewer[v] = "streaming"
    /\ chan[v] # <<>>
    /\ got' = [got EXCEPT ![v] = Append(@, Head(chan[v]))]
    /\ chan' = [chan EXCEPT ![v] = Tail(@)]
    /\ UNCHANGED <<subscribers, announced, open, viewer, sender, sent>>

\* The client is gone: r.Context() is done.
Leave(v) ==
    /\ viewer[v] = "streaming"
    /\ viewer' = [viewer EXCEPT ![v] = "leaving"]
    /\ UNCHANGED <<subscribers, announced, chan, open, got, sender, sent>>

\* Mutant: the entry of a session stays when its last viewer leaves.
Removed_KeepEntry(s, v) == SetSubscribers(s, subscribers[s] \ {v})

\* delete(subs, ch), and the session's entry with the last of them.
Removed(s, v) ==
    IF subscribers[s] = {v}
      THEN subscribers' = [t \in DOMAIN subscribers \ {s} |-> subscribers[t]]
      ELSE SetSubscribers(s, subscribers[s] \ {v})

Unsubscribe(v) ==
    LET s == SessionOf[v]
    IN  /\ viewer[v] = "leaving"
        /\ HoldsLock(v)
        /\ IF s \in DOMAIN subscribers
             THEN Removed(s, v) /\ open' = open \ {v}
             ELSE UNCHANGED <<subscribers, open>>
        /\ viewer' = [viewer EXCEPT ![v] = "away"]
        /\ chan' = [chan EXCEPT ![v] = <<>>]
        /\ got' = [got EXCEPT ![v] = <<>>]
        /\ Unlock
        /\ UNCHANGED sent

-----------------------------------------------------------------------------
(* Senders: Broadcast.                                                     *)

SGoto(b, state) == sender' = [sender EXCEPT ![b] = state]

\* RLock: at once, or when the announced writer unlocks.
Broadcast(b, s) ==
    /\ sender[b].at = "idle"
    /\ sent < MaxEvents
    /\ sent' = sent + 1
    /\ SGoto(b, [at |-> IF announced = NoViewer THEN "locked" ELSE "blocked",
                 event |-> [session |-> s, from |-> b, n |-> sent + 1]])
    /\ UNCHANGED <<subscribers, announced, chan, open, viewer, got>>

\* Mutant: the session is not looked at.
Targets_AllSessions(e) == UNION {subscribers[s] : s \in DOMAIN subscribers}

\* The channels the event goes to.
Targets(e) == SubscribersOf(e.session)

Lookup(b) ==
    /\ sender[b].at = "locked"
    /\ SGoto(b, [at |-> "sending", event |-> sender[b].event, todo |-> Targets(sender[b].event)])
    /\ UNCHANGED <<subscribers, announced, chan, open, viewer, got, sent>>

\* Mutant: the channel has no bound.
Push_Unbounded(ch, e) == Append(ch, e)

\* select { case ch <- sanitized: default: }: the event is dropped when the channel is full.
Push(ch, e) == IF Len(ch) < Cap THEN Append(ch, e) ELSE ch

\* Mutant: the send waits for room in the channel.
Send_Blocking(b) ==
    /\ sender[b].at = "sending"
    /\ \E v \in sender[b].todo :
          /\ Len(chan[v]) < Cap
          /\ chan' = [chan EXCEPT ![v] = Append(@, sender[b].event)]
          /\ SGoto(b, [sender[b] EXCEPT !.todo = @ \ {v}])
    /\ UNCHANGED <<subscribers, announced, open, viewer, got, sent>>

Send(b) ==
    /\ sender[b].at = "sending"
    /\ \E v \in sender[b].todo :
          /\ chan' = [chan EXCEPT ![v] = Push(@, sender[b].event)]
          /\ SGoto(b, [sender[b] EXCEPT !.todo = @ \ {v}])
    /\ UNCHANGED <<subscribers, announced, open, viewer, got, sent>>

RUnlock(b) ==
    /\ sender[b].at = "sending"
    /\ sender[b].todo = {}
    /\ SGoto(b, [at |-> "idle"])
    /\ UNCHANGED <<subscribers, announced, chan, open, viewer, got, sent>>

-----------------------------------------------------------------------------

Next ==
    \/ \E v \in Viewers :
          Connect(v) \/ Announce(v) \/ Subscribe(v) \/ Deliver(v) \/ Leave(v) \/ Unsubscribe(v)
    \/ \E b \in Senders :
          \/ \E s \in Sessions : Broadcast(b, s)
          \/ Lookup(b)
          \/ Send(b)
          \/ RUnlock(b)

Spec == Init /\ [][Next]_vars

(***************************************************************************)
(* Fairness: goroutines that can run do, and sync.RWMutex serves every     *)
(* writer in the end.  A client need not read: there is none on Deliver.   *)
(***************************************************************************)
Fairness ==
    /\ \A v \in Viewers : SF_vars(Announce(v)) /\ WF_vars(Subscribe(v) \/ Unsubscribe(v))
    /\ \A b \in Senders : WF_vars(Lookup(b) \/ Send(b) \/ RUnlock(b))

FairSpec == Spec /\ Fairness

-----------------------------------------------------------------------------

\* A broadcast under way never meets a closed channel, whose send would panic and take
\* the server down: the channels it still has to send to stay subscribed and open until
\* it is done (sse.go:50-64,70-89).
NoSendOnClosed ==
    \A b \in Senders : sender[b].at = "sending" =>
        /\ sender[b].todo \subseteq open
        /\ sender[b].todo \subseteq SubscribersOf(sender[b].event.session)

\* The map holds the channels of the connected viewers, each under its session, and no
\* entry of a session that nobody watches (sse.go:31-64, events.go:65-66).
MapMatchesViewers ==
    /\ \A s \in DOMAIN subscribers : subscribers[s] # {}
    /\ \A s \in Sessions :
          SubscribersOf(s) = {v \in open : SessionOf[v] = s}
    /\ open = {v \in Viewers : viewer[v] \in {"streaming", "leaving"}}

\* What a viewer gets, and still has in its channel, are events of its own session, each
\* once, and two of one goroutine in the order it sent them, dropped ones left out
\* (sse.go:10-13,66-89).
Received(v) == got[v] \o chan[v]
OnlyOwnEvents ==
    \A v \in Viewers :
        /\ \A k \in DOMAIN Received(v) : Received(v)[k].session = SessionOf[v]
        /\ \A j, k \in DOMAIN Received(v) : Received(v)[j] = Received(v)[k] => j = k
        /\ \A j, k \in DOMAIN Received(v) :
              j < k /\ Received(v)[j].from = Received(v)[k].from
              => Received(v)[j].n < Received(v)[k].n

\* A broadcast ends although no client reads, and nobody waits for the lock for ever
\* (sse.go:27-30,66-69).
BroadcastEnds == \A b \in Senders : sender[b].at # "idle" ~> sender[b].at = "idle"
LeavingEnds == \A v \in Viewers : viewer[v] = "leaving" ~> viewer[v] = "away"

=============================================================================
