--------------------------- MODULE SSEBrokerProofs ---------------------------
(***************************************************************************)
(* The broker of the viewers, for any viewers, senders, sessions and       *)
(* capacity.                                                               *)
(***************************************************************************)
EXTENDS SSEBroker, SequenceTheorems, TLAPS

\* Whoever waits for the write lock is about to subscribe or unsubscribe.
LockInv == \A v \in Viewers : announced = v => viewer[v] \in {"subscribing", "leaving"}

\* What is broadcast under b is b's.
OwnSends == \A b \in Senders : sender[b].at # "idle" => sender[b].event.from = b

MapInv == TypeOK /\ MapMatchesViewers /\ NoSendOnClosed /\ LockInv /\ OwnSends

LEMMA InitMap == Init => MapInv
BY BrokerAssumption
   DEF Init, MapInv, TypeOK, SenderStates, ViewerStates, MapMatchesViewers, SubscribersOf,
       NoSendOnClosed, LockInv, OwnSends

-----------------------------------------------------------------------------
(* A writer is alone.                                                      *)

LEMMA UnlockKeepsSenders ==
    ASSUME TypeOK, Unlock, Readers = {}
    PROVE  /\ sender' \in [Senders -> SenderStates]
           /\ \A b \in Senders : sender'[b].at \in {"idle", "locked"}
           /\ \A b \in Senders : sender'[b].at = "idle" <=> sender[b].at = "idle"
           /\ \A b \in Senders : sender[b].at # "idle" => sender'[b].event = sender[b].event
<1>1. ASSUME NEW b \in Senders
      PROVE  /\ sender'[b] \in SenderStates
             /\ sender'[b].at \in {"idle", "locked"}
             /\ sender'[b].at = "idle" <=> sender[b].at = "idle"
             /\ sender[b].at # "idle" => sender'[b].event = sender[b].event
  <2>1. sender[b] \in SenderStates /\ sender[b].at \notin {"locked", "sending"}
    BY DEF TypeOK, Readers
  <2>2. CASE sender[b].at = "blocked"
    <3>1. sender[b] \in [at : {"blocked", "locked"}, event : Events]
      BY <2>1, <2>2 DEF SenderStates
    <3>2. sender'[b] = [sender[b] EXCEPT !.at = "locked"]
      BY <2>2 DEF Unlock
    <3> QED
      BY <2>2, <3>1, <3>2 DEF SenderStates
  <2>3. CASE sender[b].at # "blocked"
    <3>1. sender'[b] = sender[b]
      BY <2>3 DEF Unlock
    <3>2. sender[b].at = "idle"
      BY <2>1, <2>3 DEF SenderStates
    <3> QED
      BY <2>1, <3>1, <3>2
  <2> QED
    BY <2>2, <2>3
<1>2. sender' = [b \in Senders |-> sender'[b]]
  BY DEF Unlock
<1> QED
  BY <1>1, <1>2

LEMMA SubscribeKeepsMap ==
    ASSUME MapInv, NEW v \in Viewers, Subscribe(v)
    PROVE  MapInv'
<1> USE BrokerAssumption
<1> DEFINE s == SessionOf[v]
<1>0. TypeOK /\ MapMatchesViewers /\ LockInv /\ OwnSends /\ s \in Sessions
  BY DEF MapInv
<1>1. Readers = {} /\ Unlock /\ viewer[v] = "subscribing" /\ announced = v
  BY DEF Subscribe, HoldsLock
<1>2. /\ open' = open \cup {v}
      /\ viewer' = [viewer EXCEPT ![v] = "streaming"]
      /\ chan' = [chan EXCEPT ![v] = <<>>] /\ got' = [got EXCEPT ![v] = <<>>]
      /\ sent' = sent
  BY DEF Subscribe
<1>3. /\ DOMAIN subscribers' = DOMAIN subscribers \cup {s}
      /\ subscribers'[s] = SubscribersOf(s) \cup {v}
      /\ \A t \in DOMAIN subscribers : t # s => subscribers'[t] = subscribers[t]
  BY DEF Subscribe, SetSubscribers
<1>4. v \notin open
  BY <1>0, <1>1 DEF MapMatchesViewers
<1>5. TypeOK'
  BY <1>0, <1>1, <1>2, <1>3, UnlockKeepsSenders DEF TypeOK, ViewerStates, SubscribersOf, Unlock
<1>6. MapMatchesViewers'
  <2>1. open' = {x \in Viewers : viewer'[x] \in {"streaming", "leaving"}}
    BY <1>0, <1>2 DEF MapMatchesViewers, TypeOK
  <2>2. \A t \in DOMAIN subscribers' : subscribers'[t] # {}
    BY <1>0, <1>3 DEF MapMatchesViewers
  <2>3. ASSUME NEW t \in Sessions PROVE SubscribersOf(t)' = {x \in open' : SessionOf[x] = t}
    <3>1. SubscribersOf(t) = {x \in open : SessionOf[x] = t}
      BY <1>0 DEF MapMatchesViewers
    <3>2. CASE t = s
      BY <1>2, <1>3, <3>1, <3>2 DEF SubscribersOf
    <3>3. CASE t # s
      <4>1. SubscribersOf(t)' = SubscribersOf(t)
        BY <1>3, <3>3 DEF SubscribersOf
      <4> QED
        BY <1>2, <3>1, <3>3, <4>1
    <3> QED
      BY <3>2, <3>3
  <2> QED
    BY <2>1, <2>2, <2>3 DEF MapMatchesViewers
<1>7. NoSendOnClosed' /\ LockInv' /\ OwnSends'
  BY <1>0, <1>1, UnlockKeepsSenders DEF NoSendOnClosed, LockInv, OwnSends, Unlock
<1> QED
  BY <1>5, <1>6, <1>7 DEF MapInv

LEMMA UnsubscribeKeepsMap ==
    ASSUME MapInv, NEW v \in Viewers, Unsubscribe(v)
    PROVE  MapInv'
<1> USE BrokerAssumption
<1> DEFINE s == SessionOf[v]
<1>0. TypeOK /\ MapMatchesViewers /\ LockInv /\ OwnSends /\ s \in Sessions
  BY DEF MapInv
<1>1. Readers = {} /\ Unlock /\ viewer[v] = "leaving" /\ announced = v
  BY DEF Unsubscribe, HoldsLock
<1>2. v \in open /\ SubscribersOf(s) = {x \in open : SessionOf[x] = s}
  BY <1>0, <1>1 DEF MapMatchesViewers
<1>3. s \in DOMAIN subscribers /\ v \in subscribers[s]
  BY <1>2 DEF SubscribersOf
<1>4. /\ open' = open \ {v} /\ Removed(s, v)
      /\ viewer' = [viewer EXCEPT ![v] = "away"]
      /\ chan' = [chan EXCEPT ![v] = <<>>] /\ got' = [got EXCEPT ![v] = <<>>]
      /\ sent' = sent
  BY <1>3 DEF Unsubscribe
<1>5. /\ DOMAIN subscribers' \subseteq DOMAIN subscribers
      /\ \A t \in DOMAIN subscribers : t # s =>
            t \in DOMAIN subscribers' /\ subscribers'[t] = subscribers[t]
      /\ s \in DOMAIN subscribers' => subscribers'[s] = subscribers[s] \ {v} /\ subscribers[s] # {v}
      /\ s \notin DOMAIN subscribers' => subscribers[s] = {v}
  <2>1. CASE subscribers[s] = {v}
    <3>1. subscribers' = [t \in DOMAIN subscribers \ {s} |-> subscribers[t]]
      BY <1>4, <2>1 DEF Removed
    <3> QED
      BY <2>1, <3>1
  <2>2. CASE subscribers[s] # {v}
    <3>1. SetSubscribers(s, subscribers[s] \ {v})
      BY <1>4, <2>2 DEF Removed
    <3> QED
      BY <1>3, <2>2, <3>1 DEF SetSubscribers
  <2> QED
    BY <2>1, <2>2
<1>6. TypeOK'
  <2>1. \A t \in DOMAIN subscribers' : t \in Sessions /\ subscribers'[t] \subseteq Viewers
    BY <1>0, <1>5 DEF TypeOK
  <2>2. /\ chan' \in [Viewers -> Seq(Events)] /\ got' \in [Viewers -> Seq(Events)]
        /\ \A x \in Viewers : Len(chan'[x]) <= Cap
    BY <1>0, <1>4 DEF TypeOK
  <2>3. sender' \in [Senders -> SenderStates]
    BY <1>0, <1>1, UnlockKeepsSenders
  <2>4. viewer' \in [Viewers -> ViewerStates] /\ open' \subseteq Viewers
    BY <1>0, <1>4 DEF TypeOK, ViewerStates
  <2>5. announced' \in Viewers \cup {NoViewer} /\ sent' \in 0..MaxEvents
    BY <1>0, <1>1, <1>4 DEF TypeOK, Unlock
  <2> QED
    BY <2>1, <2>2, <2>3, <2>4, <2>5 DEF TypeOK
<1>7. MapMatchesViewers'
  <2>1. open' = {x \in Viewers : viewer'[x] \in {"streaming", "leaving"}}
    BY <1>0, <1>4 DEF MapMatchesViewers, TypeOK
  <2>2. \A t \in DOMAIN subscribers' : subscribers'[t] # {}
    BY <1>0, <1>3, <1>5 DEF MapMatchesViewers
  <2>3. ASSUME NEW t \in Sessions PROVE SubscribersOf(t)' = {x \in open' : SessionOf[x] = t}
    <3>1. SubscribersOf(t) = {x \in open : SessionOf[x] = t}
      BY <1>0 DEF MapMatchesViewers
    <3>2. CASE t = s
      <4>1. SubscribersOf(s)' = SubscribersOf(s) \ {v}
        BY <1>3, <1>5 DEF SubscribersOf
      <4> QED
        BY <1>4, <3>1, <3>2, <4>1
    <3>3. CASE t # s
      <4>1. SubscribersOf(t)' = SubscribersOf(t)
        BY <1>5, <3>3 DEF SubscribersOf
      <4> QED
        BY <1>4, <3>1, <3>3, <4>1
    <3> QED
      BY <3>2, <3>3
  <2> QED
    BY <2>1, <2>2, <2>3 DEF MapMatchesViewers
<1>8. NoSendOnClosed' /\ LockInv' /\ OwnSends'
  BY <1>0, <1>1, UnlockKeepsSenders DEF NoSendOnClosed, LockInv, OwnSends, Unlock
<1> QED
  BY <1>6, <1>7, <1>8 DEF MapInv

-----------------------------------------------------------------------------
(* The other steps.                                                        *)

\* A step of a sender, given where it goes.
LEMMA SGotoTypes ==
    ASSUME TypeOK, NEW b \in Senders, NEW state \in SenderStates, SGoto(b, state)
    PROVE  /\ sender' \in [Senders -> SenderStates]
           /\ sender'[b] = state
           /\ \A x \in Senders : x # b => sender'[x] = sender[x]
BY DEF TypeOK, SGoto

\* What a broadcast still has to send to.
LEMMA SendingState ==
    ASSUME TypeOK, NEW b \in Senders, sender[b].at = "sending"
    PROVE  sender[b] \in [at : {"sending"}, event : Events, todo : SUBSET Viewers]
BY DEF TypeOK, SenderStates

LEMMA SendState ==
    ASSUME TypeOK, NEW b \in Senders, sender[b].at = "sending", NEW v \in Viewers
    PROVE  /\ [sender[b] EXCEPT !.todo = @ \ {v}] \in SenderStates
           /\ [sender[b] EXCEPT !.todo = @ \ {v}].at = "sending"
           /\ [sender[b] EXCEPT !.todo = @ \ {v}].event = sender[b].event
           /\ [sender[b] EXCEPT !.todo = @ \ {v}].todo = sender[b].todo \ {v}
BY SendingState DEF SenderStates

LEMMA StepMap == MapInv /\ [Next]_vars => MapInv'
<1> SUFFICES ASSUME MapInv, [Next]_vars PROVE MapInv'
  OBVIOUS
<1> USE BrokerAssumption
<1>0. TypeOK /\ MapMatchesViewers /\ NoSendOnClosed /\ LockInv /\ OwnSends
  BY DEF MapInv
<1>1. ASSUME UNCHANGED <<subscribers, open, viewer>>
      PROVE  MapMatchesViewers' /\ \A s : SubscribersOf(s)' = SubscribersOf(s)
  BY <1>0, <1>1 DEF MapMatchesViewers, SubscribersOf
<1>2. ASSUME NEW v \in Viewers, Connect(v) PROVE MapInv'
  BY <1>0, <1>2
     DEF Connect, MapInv, TypeOK, ViewerStates, MapMatchesViewers, SubscribersOf,
         NoSendOnClosed, LockInv, OwnSends
<1>3. ASSUME NEW v \in Viewers, Announce(v) PROVE MapInv'
  BY <1>0, <1>3
     DEF Announce, MapInv, TypeOK, MapMatchesViewers, SubscribersOf, NoSendOnClosed,
         LockInv, OwnSends
<1>4. ASSUME NEW v \in Viewers, Deliver(v) PROVE MapInv'
  <2>1. chan[v] \in Seq(Events) /\ chan[v] # <<>> /\ got[v] \in Seq(Events)
    BY <1>0, <1>4 DEF Deliver, TypeOK
  <2>2. Tail(chan[v]) \in Seq(Events) /\ Len(Tail(chan[v])) <= Len(chan[v])
    BY <2>1
  <2>3. Append(got[v], Head(chan[v])) \in Seq(Events)
    BY <2>1
  <2>4. TypeOK'
    <3>1. chan' \in [Viewers -> Seq(Events)] /\ \A x \in Viewers : Len(chan'[x]) <= Cap
      <4>1. chan' = [chan EXCEPT ![v] = Tail(chan[v])] /\ Len(Tail(chan[v])) <= Cap
        BY <1>0, <1>4, <2>1, <2>2 DEF Deliver, TypeOK
      <4> QED
        BY <1>0, <2>2, <4>1 DEF TypeOK
    <3>2. got' \in [Viewers -> Seq(Events)]
      BY <1>0, <1>4, <2>3 DEF Deliver, TypeOK
    <3> QED
      BY <1>0, <1>4, <3>1, <3>2 DEF Deliver, TypeOK
  <2> QED
    BY <1>0, <1>1, <1>4, <2>4 DEF Deliver, MapInv, NoSendOnClosed, LockInv, OwnSends
<1>5. ASSUME NEW v \in Viewers, Leave(v) PROVE MapInv'
  BY <1>0, <1>5
     DEF Leave, MapInv, TypeOK, ViewerStates, MapMatchesViewers, SubscribersOf,
         NoSendOnClosed, LockInv, OwnSends
<1>6. ASSUME NEW b \in Senders, NEW s \in Sessions, Broadcast(b, s) PROVE MapInv'
  <2> DEFINE e == [session |-> s, from |-> b, n |-> sent + 1]
             state == [at |-> IF announced = NoViewer THEN "locked" ELSE "blocked", event |-> e]
  <2>1. e \in Events /\ sent' \in 0..MaxEvents
    BY <1>0, <1>6 DEF Broadcast, TypeOK, Events
  <2>2. state \in SenderStates
    BY <2>1 DEF SenderStates
  <2>3. SGoto(b, state) /\ state.at # "sending" /\ state.event.from = b
    BY <1>6 DEF Broadcast
  <2> HIDE DEF state
  <2>4. /\ sender' \in [Senders -> SenderStates] /\ sender'[b] = state
        /\ \A x \in Senders : x # b => sender'[x] = sender[x]
    BY <1>0, <2>2, <2>3, SGotoTypes
  <2>5. UNCHANGED <<subscribers, announced, chan, open, viewer, got>>
    BY <1>6 DEF Broadcast
  <2>6. TypeOK' /\ LockInv'
    BY <1>0, <2>1, <2>4, <2>5 DEF TypeOK, LockInv
  <2>7. NoSendOnClosed' /\ OwnSends'
    BY <1>0, <1>1, <2>3, <2>4, <2>5 DEF NoSendOnClosed, OwnSends
  <2> QED
    BY <1>1, <2>5, <2>6, <2>7 DEF MapInv
<1>7. ASSUME NEW b \in Senders, Lookup(b) PROVE MapInv'
  <2> DEFINE e == sender[b].event
             state == [at |-> "sending", event |-> e, todo |-> Targets(e)]
  <2>1. e \in Events /\ e.session \in Sessions /\ e.from = b
    BY <1>0, <1>7 DEF Lookup, TypeOK, SenderStates, Events, OwnSends
  <2>2. Targets(e) \subseteq open /\ open \subseteq Viewers
    BY <1>0, <2>1 DEF Targets, MapMatchesViewers
  <2>3. state \in SenderStates
    BY <2>1, <2>2 DEF SenderStates
  <2>4. SGoto(b, state)
    BY <1>7 DEF Lookup
  <2>5. /\ sender' \in [Senders -> SenderStates] /\ sender'[b] = state
        /\ \A x \in Senders : x # b => sender'[x] = sender[x]
    BY <1>0, <2>3, <2>4, SGotoTypes
  <2>6. UNCHANGED <<subscribers, announced, chan, open, viewer, got, sent>>
    BY <1>7 DEF Lookup
  <2>7. TypeOK' /\ LockInv'
    BY <1>0, <2>5, <2>6 DEF TypeOK, LockInv
  <2>8. NoSendOnClosed' /\ OwnSends'
    BY <1>0, <1>1, <2>1, <2>2, <2>5, <2>6 DEF NoSendOnClosed, OwnSends, Targets
  <2> QED
    BY <1>1, <2>6, <2>7, <2>8 DEF MapInv
<1>8. ASSUME NEW b \in Senders, Send(b) PROVE MapInv'
  <2>1. PICK v \in sender[b].todo :
          /\ chan' = [chan EXCEPT ![v] = Push(@, sender[b].event)]
          /\ SGoto(b, [sender[b] EXCEPT !.todo = @ \ {v}])
    BY <1>8 DEF Send
  <2>2. sender[b].at = "sending"
    BY <1>8 DEF Send
  <2>3. sender[b] \in [at : {"sending"}, event : Events, todo : SUBSET Viewers] /\ v \in Viewers
    BY <1>0, <2>1, <2>2, SendingState
  <2> DEFINE state == [sender[b] EXCEPT !.todo = @ \ {v}]
  <2>4. /\ state \in SenderStates /\ state.at = "sending" /\ state.event = sender[b].event
        /\ state.todo \subseteq sender[b].todo
    BY <1>0, <2>2, <2>3, SendState
  <2> HIDE DEF state
  <2>5. SGoto(b, state)
    BY <2>1 DEF state
  <2>6. /\ sender' \in [Senders -> SenderStates] /\ sender'[b] = state
        /\ \A x \in Senders : x # b => sender'[x] = sender[x]
    BY <1>0, <2>4, <2>5, SGotoTypes
  <2>7. UNCHANGED <<subscribers, announced, open, viewer, got, sent>>
    BY <1>8 DEF Send
  <2>8. chan' \in [Viewers -> Seq(Events)] /\ \A x \in Viewers : Len(chan'[x]) <= Cap
    <3>1. chan[v] \in Seq(Events) /\ Len(chan[v]) <= Cap /\ sender[b].event \in Events
      BY <1>0, <2>3 DEF TypeOK
    <3> DEFINE new == Push(chan[v], sender[b].event)
    <3>2. new \in Seq(Events) /\ Len(new) <= Cap
      BY <3>1 DEF Push
    <3>3. chan' = [chan EXCEPT ![v] = new]
      BY <2>1
    <3> HIDE DEF new
    <3> QED
      BY <1>0, <3>2, <3>3 DEF TypeOK
  <2>9. TypeOK' /\ LockInv'
    BY <1>0, <2>6, <2>7, <2>8 DEF TypeOK, LockInv
  <2>10. NoSendOnClosed' /\ OwnSends'
    BY <1>0, <1>1, <2>2, <2>4, <2>6, <2>7 DEF NoSendOnClosed, OwnSends
  <2> QED
    BY <1>1, <2>7, <2>9, <2>10 DEF MapInv
<1>9. ASSUME NEW b \in Senders, RUnlock(b) PROVE MapInv'
  <2>1. [at |-> "idle"] \in SenderStates
    BY DEF SenderStates
  <2>2. /\ sender' \in [Senders -> SenderStates] /\ sender'[b] = [at |-> "idle"]
        /\ \A x \in Senders : x # b => sender'[x] = sender[x]
    BY <1>0, <1>9, <2>1, SGotoTypes DEF RUnlock
  <2>3. UNCHANGED <<subscribers, announced, chan, open, viewer, got, sent>>
    BY <1>9 DEF RUnlock
  <2>4. TypeOK' /\ LockInv'
    BY <1>0, <2>2, <2>3 DEF TypeOK, LockInv
  <2>5. NoSendOnClosed' /\ OwnSends'
    BY <1>0, <1>1, <2>2, <2>3 DEF NoSendOnClosed, OwnSends
  <2> QED
    BY <1>1, <2>3, <2>4, <2>5 DEF MapInv
<1>10. CASE UNCHANGED vars
  BY <1>0, <1>10
     DEF vars, MapInv, TypeOK, MapMatchesViewers, SubscribersOf, NoSendOnClosed, LockInv,
         OwnSends
<1> QED
  BY <1>2, <1>3, <1>4, <1>5, <1>6, <1>7, <1>8, <1>9, <1>10, SubscribeKeepsMap,
     UnsubscribeKeepsMap DEF Next

-----------------------------------------------------------------------------

LEMMA AlwaysMap == Spec => []MapInv
BY InitMap, StepMap, PTL DEF Spec

(* The order of events.                                                    *)

\* An event that is read moves, and nothing changes but its place.
LEMMA DeliverKeepsReceived ==
    ASSUME NEW S, NEW g \in Seq(S), NEW c \in Seq(S), c # <<>>
    PROVE  Append(g, Head(c)) \o Tail(c) = g \o c
<1>1. Head(c) \in S /\ Tail(c) \in Seq(S) /\ c = <<Head(c)>> \o Tail(c)
  BY HeadTailProperties
<1>2. Append(g, Head(c)) = g \o <<Head(c)>> /\ <<Head(c)>> \in Seq(S)
  BY <1>1, AppendIsConcat
<1> QED
  BY <1>1, <1>2, ConcatAssociative

LEMMA SendAppends ==
    ASSUME NEW S, NEW g \in Seq(S), NEW c \in Seq(S), NEW e \in S
    PROVE  g \o Append(c, e) = Append(g \o c, e)
<1>1. Append(c, e) = c \o <<e>> /\ <<e>> \in Seq(S) /\ g \o c \in Seq(S)
  BY AppendIsConcat, ConcatProperties
<1> QED
  BY <1>1, AppendIsConcat, ConcatAssociative

\* Has the broadcast of b nothing left to put into v's channel?
SentTo(b, v) == sender[b].at = "sending" /\ v \notin sender[b].todo

\* What v received is its session's and each sender's in order, nothing is newer than
\* what its sender broadcasts now, nor that, until it was sent to v.
OrderedAt(v) ==
    /\ \A k \in DOMAIN Received(v) : Received(v)[k].session = SessionOf[v]
    /\ \A k \in DOMAIN Received(v) : Received(v)[k].n <= sent
    /\ \A j, k \in DOMAIN Received(v) :
          j < k /\ Received(v)[j].from = Received(v)[k].from
          => Received(v)[j].n < Received(v)[k].n
    /\ \A b \in Senders, k \in DOMAIN Received(v) :
          sender[b].at # "idle" /\ Received(v)[k].from = b =>
             /\ Received(v)[k].n <= sender[b].event.n
             /\ ~ SentTo(b, v) => Received(v)[k].n < sender[b].event.n

OrderInv ==
    /\ \A b \in Senders : sender[b].at # "idle" => sender[b].event.n <= sent
    /\ \A v \in Viewers : OrderedAt(v)

LEMMA InitOrder == Init => OrderInv
<1> SUFFICES ASSUME Init PROVE OrderInv
  OBVIOUS
<1>1. \A v \in Viewers : Received(v) = <<>> /\ DOMAIN Received(v) = {}
  BY DEF Init, Received
<1> QED
  BY <1>1 DEF Init, OrderInv, OrderedAt

\* A busy sender's event.
LEMMA EventTypes ==
    ASSUME TypeOK, NEW b \in Senders, sender[b].at # "idle"
    PROVE  sender[b].event \in Events
BY DEF TypeOK, SenderStates

LEMMA ReceivedTypes ==
    ASSUME TypeOK, NEW v \in Viewers
    PROVE  /\ Received(v) \in Seq(Events)
           /\ DOMAIN Received(v) = 1..Len(Received(v)) /\ Len(Received(v)) \in Nat
           /\ \A k \in DOMAIN Received(v) :
                 Received(v)[k] \in Events /\ Received(v)[k].n \in Nat
<1>1. got[v] \in Seq(Events) /\ chan[v] \in Seq(Events)
  BY DEF TypeOK
<1>2. Received(v) \in Seq(Events)
  BY <1>1, ConcatProperties DEF Received
<1>3. \A e \in Events : e.n \in Nat
  BY BrokerAssumption DEF Events
<1> QED
  BY <1>2, <1>3, LenProperties, ElementOfSeq

\* A viewer that received nothing new stays in order while the senders do what they did.
LEMMA OrderKept ==
    ASSUME TypeOK, TypeOK', NEW v \in Viewers, OrderedAt(v),
           Received(v)' = Received(v) \/ Received(v)' = <<>>,
           sent' \in Nat, sent <= sent',
           \A b \in Senders : sender'[b].at # "idle" =>
              \/ /\ sender[b].at # "idle" /\ sender'[b].event.n = sender[b].event.n
                 /\ SentTo(b, v) => SentTo(b, v)'
              \/ sender'[b].event.n > sent
    PROVE  OrderedAt(v)'
<1>1. sent \in Nat /\ \A b \in Senders : sender'[b].at # "idle" => sender'[b].event.n \in Nat
  <2>1. \A e \in Events : e.n \in Nat
    BY BrokerAssumption DEF Events
  <2>2. \A b \in Senders : sender'[b].at # "idle" => sender'[b].event \in Events
    BY DEF TypeOK, SenderStates
  <2> QED
    BY <2>1, <2>2 DEF TypeOK
<1>2. CASE Received(v)' = <<>>
  <2>1. DOMAIN Received(v)' = {}
    BY <1>2
  <2> QED
    BY <2>1 DEF OrderedAt
<1>3. CASE Received(v)' = Received(v)
  <2> DEFINE R == Received(v)
  <2>1. \A k \in DOMAIN R : R[k].n \in Nat /\ R[k].n <= sent
    BY ReceivedTypes DEF OrderedAt
  <2>2. \A k \in DOMAIN R : R[k].n <= sent'
    BY <1>1, <2>1
  <2>3. ASSUME NEW b \in Senders, NEW k \in DOMAIN R, sender'[b].at # "idle", R[k].from = b
        PROVE  /\ R[k].n <= sender'[b].event.n
               /\ ~ SentTo(b, v)' => R[k].n < sender'[b].event.n
    <3>1. CASE sender'[b].event.n > sent
      BY <1>1, <2>1, <2>3, <3>1
    <3>2. CASE /\ sender[b].at # "idle" /\ sender'[b].event.n = sender[b].event.n
               /\ SentTo(b, v) => SentTo(b, v)'
      BY <2>3, <3>2 DEF OrderedAt
    <3> QED
      BY <2>3, <3>1, <3>2
  <2> QED
    BY <1>3, <2>2, <2>3 DEF OrderedAt
<1> QED
  BY <1>2, <1>3

\* The first clause of OrderInv, and OrderKept for all viewers.
LEMMA OrderKeptAll ==
    ASSUME MapInv, MapInv', OrderInv, sent' = sent,
           \A v \in Viewers : Received(v)' = Received(v) \/ Received(v)' = <<>>,
           \A b \in Senders : sender'[b].at # "idle" =>
              /\ sender[b].at # "idle" /\ sender'[b].event = sender[b].event
              /\ \A v \in Viewers : SentTo(b, v) => SentTo(b, v)'
    PROVE  OrderInv'
<1>1. sent \in Nat /\ TypeOK /\ TypeOK'
  BY BrokerAssumption DEF MapInv, TypeOK
<1>2. ASSUME NEW v \in Viewers PROVE OrderedAt(v)'
  BY <1>1, OrderKept DEF OrderInv
<1> QED
  BY <1>2 DEF OrderInv

LEMMA SendKeepsOrder ==
    ASSUME MapInv, MapInv', OrderInv, NEW b \in Senders, Send(b)
    PROVE  OrderInv'
<1>0. TypeOK /\ TypeOK' /\ MapMatchesViewers /\ NoSendOnClosed /\ OwnSends
  BY DEF MapInv
<1>1. PICK v \in sender[b].todo :
        /\ chan' = [chan EXCEPT ![v] = Push(@, sender[b].event)]
        /\ SGoto(b, [sender[b] EXCEPT !.todo = @ \ {v}])
  BY DEF Send
<1>2. sender[b].at = "sending" /\ UNCHANGED <<got, sent>>
  BY DEF Send
<1> DEFINE e == sender[b].event
<1>3. v \in Viewers /\ e \in Events /\ e.from = b /\ sent \in Nat /\ e.n \in Nat
  <2>1. sender[b] \in [at : {"sending"}, event : Events, todo : SUBSET Viewers]
    BY <1>0, <1>2, SendingState
  <2> QED
    BY <1>0, <1>1, <1>2, <2>1, BrokerAssumption DEF OwnSends, TypeOK, Events
<1>4. SessionOf[v] = e.session
  <2>1. v \in SubscribersOf(e.session)
    BY <1>0, <1>1, <1>2 DEF NoSendOnClosed
  <2>2. e.session \in Sessions
    BY <1>3 DEF Events
  <2> QED
    BY <1>0, <2>1, <2>2 DEF MapMatchesViewers
<1>5. /\ sender'[b].at = "sending" /\ sender'[b].event = e
      /\ sender'[b].todo = sender[b].todo \ {v}
      /\ \A x \in Senders : x # b => sender'[x] = sender[x]
  <2> DEFINE state == [sender[b] EXCEPT !.todo = @ \ {v}]
  <2>1. /\ state \in SenderStates /\ state.at = "sending" /\ state.event = e
        /\ state.todo = sender[b].todo \ {v}
    BY <1>0, <1>2, <1>3, SendState
  <2> HIDE DEF state
  <2>2. SGoto(b, state)
    BY <1>1 DEF state
  <2> QED
    BY <1>0, <2>1, <2>2, SGotoTypes
<1>6. \A x \in Senders : sender'[x].at # "idle" =>
        /\ sender[x].at # "idle" /\ sender'[x].event = sender[x].event
        /\ \A w \in Viewers : SentTo(x, w) => SentTo(x, w)'
  BY <1>2, <1>5 DEF SentTo
<1>7. \A w \in Viewers : w # v => Received(w)' = Received(w)
  BY <1>0, <1>1, <1>2 DEF Received, TypeOK
<1>8. Received(v)' = Received(v) \/ Received(v)' = Append(Received(v), e)
  <2>1. got'[v] = got[v]
    BY <1>2
  <2>2. chan'[v] = Push(chan[v], e)
    <3>1. DOMAIN chan = Viewers
      BY <1>0 DEF TypeOK
    <3> QED
      BY <1>1, <1>3, <3>1
  <2>3. got[v] \in Seq(Events) /\ chan[v] \in Seq(Events)
    BY <1>0, <1>3 DEF TypeOK
  <2>4. got[v] \o Append(chan[v], e) = Append(got[v] \o chan[v], e)
    <3>1. e \in Events /\ got[v] \in Seq(Events) /\ chan[v] \in Seq(Events)
      BY <1>3, <2>3
    <3>2. \A g, c \in Seq(Events), x \in Events : g \o Append(c, x) = Append(g \o c, x)
      BY SendAppends
    <3> HIDE DEF e
    <3> QED
      BY <3>1, <3>2
  <2> QED
    BY <2>1, <2>2, <2>4 DEF Received, Push
<1>9. CASE Received(v)' = Received(v)
  BY <1>2, <1>6, <1>7, <1>9, OrderKeptAll
<1>10. CASE Received(v)' = Append(Received(v), e)
  <2> DEFINE R == Received(v)
             Q == Received(v)'
             n == Len(R)
  <2>1. /\ R \in Seq(Events) /\ n \in Nat /\ DOMAIN R = 1..n
        /\ \A k \in 1..n : R[k].n \in Nat
    BY <1>0, <1>3, ReceivedTypes
  <2>2. DOMAIN Q = 1..(n + 1) /\ Q[n + 1] = e /\ \A k \in 1..n : Q[k] = R[k]
    BY <1>3, <1>10, <2>1, AppendProperties, LenProperties
  <2>3. OrderedAt(v) /\ ~ SentTo(b, v) /\ e.n <= sent
    BY <1>1, <1>2, <1>3 DEF OrderInv, SentTo
  <2>4. \A k \in 1..n : R[k].from = b => R[k].n < e.n
    BY <1>2, <2>1, <2>3 DEF OrderedAt
  <2> HIDE DEF R, Q, n
  <2>5. \A k \in 1..(n + 1) : k \in 1..n \/ k = n + 1
    BY <2>1
  <2>6. \A k \in DOMAIN Q : Q[k].session = SessionOf[v] /\ Q[k].n <= sent'
    BY <1>2, <1>4, <2>1, <2>2, <2>3, <2>5 DEF OrderedAt, R
  <2>7. \A j, k \in DOMAIN Q : j < k /\ Q[j].from = Q[k].from => Q[j].n < Q[k].n
    <3> SUFFICES ASSUME NEW j \in DOMAIN Q, NEW k \in DOMAIN Q, j < k, Q[j].from = Q[k].from
                 PROVE  Q[j].n < Q[k].n
      OBVIOUS
    <3>1. j \in 1..n
      BY <2>1, <2>2
    <3>2. CASE k \in 1..n
      BY <2>1, <2>2, <2>3, <3>1, <3>2 DEF OrderedAt, R
    <3>3. CASE k = n + 1
      BY <1>3, <2>2, <2>4, <3>1, <3>3
    <3> QED
      BY <2>2, <2>5, <3>2, <3>3
  <2>8. ASSUME NEW x \in Senders, NEW k \in DOMAIN Q, sender'[x].at # "idle", Q[k].from = x
        PROVE  /\ Q[k].n <= sender'[x].event.n
               /\ ~ SentTo(x, v)' => Q[k].n < sender'[x].event.n
    <3>1. /\ sender[x].at # "idle" /\ sender'[x].event = sender[x].event
          /\ SentTo(x, v) => SentTo(x, v)'
      BY <1>3, <1>6, <2>8
    <3>2. CASE k \in 1..n
      BY <2>1, <2>2, <2>3, <2>8, <3>1, <3>2 DEF OrderedAt, R
    <3>3. CASE k = n + 1
      <4>1. x = b
        BY <1>3, <2>2, <2>8, <3>3
      <4>2. SentTo(b, v)'
        BY <1>5 DEF SentTo
      <4> QED
        BY <1>3, <1>5, <2>2, <3>3, <4>1, <4>2
    <3> QED
      BY <2>2, <2>5, <3>2, <3>3
  <2>9. OrderedAt(v)'
    BY <2>6, <2>7, <2>8 DEF OrderedAt, Q
  <2>10. ASSUME NEW w \in Viewers, w # v PROVE OrderedAt(w)'
    BY <1>0, <1>2, <1>3, <1>6, <1>7, <2>10, OrderKept DEF OrderInv
  <2>11. \A x \in Senders : sender'[x].at # "idle" => sender'[x].event.n <= sent'
    BY <1>2, <1>6 DEF OrderInv
  <2> QED
    BY <2>9, <2>10, <2>11 DEF OrderInv
<1> QED
  BY <1>8, <1>9, <1>10

LEMMA StepOrder == MapInv /\ MapInv' /\ OrderInv /\ [Next]_vars => OrderInv'
<1> SUFFICES ASSUME MapInv, MapInv', OrderInv, [Next]_vars PROVE OrderInv'
  OBVIOUS
<1>0. TypeOK /\ TypeOK'
  BY DEF MapInv
<1>1. ASSUME sent' = sent, UNCHANGED sender,
             \A v \in Viewers : Received(v)' = Received(v)
      PROVE  OrderInv'
  BY <1>1, OrderKeptAll DEF SentTo
<1>2. ASSUME NEW v \in Viewers, Connect(v) \/ Announce(v) \/ Leave(v) PROVE OrderInv'
  BY <1>1, <1>2 DEF Connect, Announce, Leave, Received
<1>3. ASSUME NEW v \in Viewers, Subscribe(v) \/ Unsubscribe(v) PROVE OrderInv'
  <2>1. /\ chan' = [chan EXCEPT ![v] = <<>>] /\ got' = [got EXCEPT ![v] = <<>>]
        /\ sent' = sent /\ Unlock /\ Readers = {}
    BY <1>3 DEF Subscribe, Unsubscribe, HoldsLock
  <2>2. ASSUME NEW w \in Viewers PROVE Received(w)' = Received(w) \/ Received(w)' = <<>>
    <3>1. CASE w = v
      <4>1. chan'[v] = <<>> /\ got'[v] = <<>>
        BY <1>0, <2>1 DEF TypeOK
      <4> QED
        BY <3>1, <4>1 DEF Received
    <3>2. CASE w # v
      <4>1. chan'[w] = chan[w] /\ got'[w] = got[w]
        BY <1>0, <2>1, <3>2 DEF TypeOK
      <4> QED
        BY <4>1 DEF Received
    <3> QED
      BY <3>1, <3>2
  <2>3. \A b \in Senders : ~ (sender[b].at = "sending")
    BY <2>1 DEF Readers
  <2> QED
    BY <1>0, <2>1, <2>2, <2>3, UnlockKeepsSenders, OrderKeptAll DEF SentTo
<1>4. ASSUME NEW v \in Viewers, Deliver(v) PROVE OrderInv'
  <2>1. /\ got' = [got EXCEPT ![v] = Append(got[v], Head(chan[v]))]
        /\ chan' = [chan EXCEPT ![v] = Tail(chan[v])]
        /\ chan[v] # <<>> /\ UNCHANGED <<sender, sent>>
    BY <1>4 DEF Deliver
  <2>2. ASSUME NEW w \in Viewers PROVE Received(w)' = Received(w)
    <3>1. CASE w = v
      <4>1. chan'[v] = Tail(chan[v]) /\ got'[v] = Append(got[v], Head(chan[v]))
        BY <1>0, <2>1 DEF TypeOK
      <4>2. got[v] \in Seq(Events) /\ chan[v] \in Seq(Events)
        BY <1>0 DEF TypeOK
      <4>3. Append(got[v], Head(chan[v])) \o Tail(chan[v]) = got[v] \o chan[v]
        BY <2>1, <4>2, DeliverKeepsReceived
      <4> QED
        BY <3>1, <4>1, <4>3 DEF Received
    <3>2. CASE w # v
      <4>1. chan'[w] = chan[w] /\ got'[w] = got[w]
        BY <1>0, <2>1, <3>2 DEF TypeOK
      <4> QED
        BY <4>1 DEF Received
    <3> QED
      BY <3>1, <3>2
  <2> QED
    BY <1>1, <2>1, <2>2
<1>5. ASSUME NEW b \in Senders, NEW s \in Sessions, Broadcast(b, s) PROVE OrderInv'
  <2>1. sent \in Nat /\ sent' = sent + 1 /\ UNCHANGED <<chan, got>>
    BY <1>0, <1>5, BrokerAssumption DEF Broadcast, TypeOK
  <2>2. /\ sender'[b].event.n = sent + 1
        /\ \A x \in Senders : x # b => sender'[x] = sender[x]
    BY <1>0, <1>5 DEF Broadcast, SGoto, TypeOK
  <2>3. \A v \in Viewers : Received(v)' = Received(v)
    BY <2>1 DEF Received
  <2>4. ASSUME NEW v \in Viewers PROVE OrderedAt(v)'
    <3>1. \A x \in Senders : sender'[x].at # "idle" =>
             \/ /\ sender[x].at # "idle" /\ sender'[x].event.n = sender[x].event.n
                /\ SentTo(x, v) => SentTo(x, v)'
             \/ sender'[x].event.n > sent
      BY <2>1, <2>2 DEF SentTo
    <3> QED
      BY <1>0, <2>1, <2>3, <3>1, OrderKept DEF OrderInv
  <2>5. ASSUME NEW x \in Senders, sender'[x].at # "idle" PROVE sender'[x].event.n <= sent'
    <3>1. CASE x = b
      BY <2>1, <2>2, <3>1
    <3>2. CASE x # b
      <4>1. sender[x].event \in Events /\ sender[x].event.n <= sent
        BY <1>0, <2>2, <2>5, <3>2, EventTypes DEF OrderInv
      <4> QED
        BY <2>1, <2>2, <3>2, <4>1, BrokerAssumption DEF Events
    <3> QED
      BY <3>1, <3>2
  <2> QED
    BY <2>4, <2>5 DEF OrderInv
<1>6. ASSUME NEW b \in Senders, Lookup(b) \/ RUnlock(b) PROVE OrderInv'
  <2>1. UNCHANGED <<chan, got, sent>>
    BY <1>6 DEF Lookup, RUnlock
  <2>2. \A v \in Viewers : Received(v)' = Received(v)
    BY <2>1 DEF Received
  <2>3. \A x \in Senders : sender'[x].at # "idle" =>
          /\ sender[x].at # "idle" /\ sender'[x].event = sender[x].event
          /\ \A v \in Viewers : SentTo(x, v) => SentTo(x, v)'
    <3>1. CASE Lookup(b)
      BY <1>0, <3>1 DEF Lookup, SGoto, SentTo, TypeOK
    <3>2. CASE RUnlock(b)
      <4>1. sender'[b] = [at |-> "idle"] /\ \A x \in Senders : x # b => sender'[x] = sender[x]
        BY <1>0, <3>2 DEF RUnlock, SGoto, TypeOK
      <4> QED
        BY <4>1 DEF SentTo
    <3> QED
      BY <1>6, <3>1, <3>2
  <2> QED
    BY <2>1, <2>2, <2>3, OrderKeptAll
<1>7. CASE UNCHANGED vars
  BY <1>1, <1>7 DEF vars, Received
<1> QED
  BY <1>2, <1>3, <1>4, <1>5, <1>6, <1>7, SendKeepsOrder DEF Next

LEMMA AlwaysOrder == Spec => []OrderInv
BY AlwaysMap, InitOrder, StepOrder, PTL DEF Spec

\* Every variable of the broker keeps its type; no channel holds more than its capacity.
THEOREM BrokerTypes == Spec => []TypeOK
<1>1. MapInv => TypeOK
  BY DEF MapInv
<1> QED
  BY <1>1, AlwaysMap, PTL

\* No broadcast sends on a closed channel (sse.go:50-64,70-89).
THEOREM SendsAreSafe == Spec => []NoSendOnClosed
<1>1. MapInv => NoSendOnClosed
  BY DEF MapInv
<1> QED
  BY <1>1, AlwaysMap, PTL

\* The map is that of the connected viewers (sse.go:31-64, events.go:65-66).
THEOREM MapIsOfViewers == Spec => []MapMatchesViewers
<1>1. MapInv => MapMatchesViewers
  BY DEF MapInv
<1> QED
  BY <1>1, AlwaysMap, PTL

\* A viewer gets the events of its session, each once and those of one sender in order
\* (sse.go:10-13,66-89).
THEOREM ViewersGetTheirEvents == Spec => []OnlyOwnEvents
<1>1. MapInv /\ OrderInv => OnlyOwnEvents
  <2> SUFFICES ASSUME MapInv, OrderInv, NEW v \in Viewers
               PROVE  /\ \A k \in DOMAIN Received(v) : Received(v)[k].session = SessionOf[v]
                      /\ \A j, k \in DOMAIN Received(v) :
                            Received(v)[j] = Received(v)[k] => j = k
                      /\ \A j, k \in DOMAIN Received(v) :
                            j < k /\ Received(v)[j].from = Received(v)[k].from
                            => Received(v)[j].n < Received(v)[k].n
    BY Zenon DEF OnlyOwnEvents
  <2> DEFINE R == Received(v)
             n == Len(R)
  <2>1. n \in Nat /\ DOMAIN R = 1..n /\ \A k \in DOMAIN R : R[k].n \in Nat
    BY ReceivedTypes DEF MapInv
  <2>2. \A j, k \in DOMAIN R : j < k /\ R[j].from = R[k].from => R[j].n < R[k].n
    BY DEF OrderInv, OrderedAt
  <2>3. \A k \in DOMAIN R : R[k].session = SessionOf[v]
    BY DEF OrderInv, OrderedAt
  <2>4. ASSUME NEW j \in DOMAIN R, NEW k \in DOMAIN R, R[j] = R[k] PROVE j = k
    <3> HIDE DEF R, n
    <3>1. ~ (j < k) /\ ~ (k < j)
      BY <2>1, <2>2, <2>4
    <3> QED
      BY <2>1, <3>1
  <2> QED
    BY <2>2, <2>3, <2>4
<1> QED
  BY <1>1, AlwaysMap, AlwaysOrder, PTL

==============================================================================
