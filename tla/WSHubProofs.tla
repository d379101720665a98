----------------------------- MODULE WSHubProofs -----------------------------
(***************************************************************************)
(* The hub of the admin pages, for any connections, peers that do not read,*)
(* senders, sessions and messages.                                         *)
(***************************************************************************)
EXTENDS WSHub, TLAPS

Waiting(b) == sender[b].at \in {"blocked", "locked"}

\* A message has one sender and one number, and before its targets are known nobody
\* has heard it.
MessageInv ==
    /\ \A b \in Senders : sender[b].at # "idle" => sender[b].message <= sent
    /\ \A a, b \in Senders :
          a # b /\ sender[a].at # "idle" /\ sender[b].at # "idle"
          => sender[a].message # sender[b].message
    /\ \A c \in Conns : \A m \in heard[c] : m <= sent
    /\ \A b \in Senders : Waiting(b) => \A c \in Conns : sender[b].message \notin heard[c]

HubInv == TypeOK /\ HubMatchesConns /\ MessageInv /\ OneSessionPerMessage

LEMMA InitHub == Init => HubInv
<1> SUFFICES ASSUME Init PROVE HubInv
  OBVIOUS
<1>1. TypeOK
  BY HubAssumption DEF Init, TypeOK, ConnStates, SenderStates
<1>2. HubMatchesConns /\ MessageInv
  BY DEF Init, HubMatchesConns, MessageInv, Waiting
<1>3. OneSessionPerMessage
  BY DEF Init, OneSessionPerMessage, SenderOf
<1> QED
  BY <1>1, <1>2, <1>3 DEF HubInv

\* Has the connection heard the message, or is it about to?
Reached(c, m) == m \in heard[c] \/ SenderOf(c, m)

LEMMA OneSessionKept ==
    ASSUME OneSessionPerMessage,
           \A m \in Messages, c \in Conns : Reached(c, m)' => Reached(c, m)
    PROVE  OneSessionPerMessage'
BY DEF OneSessionPerMessage, Reached

\* The types of a busy sender.
LEMMA BusySender ==
    ASSUME TypeOK, NEW b \in Senders
    PROVE  /\ sender[b] \in SenderStates
           /\ sender[b].at \in {"idle", "blocked", "locked", "writing"}
           /\ sender[b].at # "idle" => sender[b].message \in Messages
           /\ Waiting(b) => sender[b].session \in Sessions
           /\ sender[b].at = "writing" => sender[b].todo \subseteq Conns
BY DEF TypeOK, SenderStates, Waiting

LEMMA UnlockKeepsSenders ==
    ASSUME TypeOK, Unlock
    PROVE  /\ sender' \in [Senders -> SenderStates]
           /\ \A b \in Senders :
                 /\ sender'[b].at = "idle" <=> sender[b].at = "idle"
                 /\ Waiting(b)' <=> Waiting(b)
                 /\ sender[b].at # "idle" => sender'[b].message = sender[b].message
                 /\ sender'[b].at = "writing" => sender'[b] = sender[b]
<1>1. ASSUME NEW b \in Senders
      PROVE  /\ sender'[b] \in SenderStates
             /\ sender'[b].at = "idle" <=> sender[b].at = "idle"
             /\ Waiting(b)' <=> Waiting(b)
             /\ sender[b].at # "idle" => sender'[b].message = sender[b].message
             /\ sender'[b].at = "writing" => sender'[b] = sender[b]
  <2>1. CASE sender[b].at = "blocked"
    <3>1. sender[b] \in [at : {"blocked", "locked"}, session : Sessions, message : Messages]
      BY <2>1, BusySender DEF SenderStates
    <3>2. sender'[b] = [sender[b] EXCEPT !.at = "locked"]
      BY <2>1 DEF Unlock
    <3> QED
      BY <2>1, <3>1, <3>2 DEF SenderStates, Waiting
  <2>2. CASE sender[b].at # "blocked"
    <3>1. sender'[b] = sender[b]
      BY <2>2 DEF Unlock
    <3> QED
      BY <3>1, BusySender DEF Waiting
  <2> QED
    BY <2>1, <2>2
<1>2. sender' = [b \in Senders |-> sender'[b]]
  BY DEF Unlock
<1> QED
  BY <1>1, <1>2

\* A step of the connections keeps what is said of the messages.
LEMMA UnlockKeepsMessages ==
    ASSUME HubInv, Unlock, UNCHANGED <<heard, sent>>
    PROVE  MessageInv' /\ OneSessionPerMessage'
<1>0. TypeOK /\ MessageInv /\ OneSessionPerMessage
  BY DEF HubInv
<1>1. MessageInv'
  <2>1. \A b \in Senders :
          /\ sender'[b].at # "idle" => sender[b].at # "idle"
          /\ sender'[b].at # "idle" => sender'[b].message = sender[b].message
          /\ Waiting(b)' => Waiting(b) /\ sender'[b].message = sender[b].message
    BY <1>0, UnlockKeepsSenders DEF Waiting
  <2> QED
    BY <1>0, <2>1 DEF MessageInv
<1>2. \A m \in Messages, c \in Conns : Reached(c, m)' => Reached(c, m)
  <2>1. \A b \in Senders : sender'[b].at = "writing" => sender'[b] = sender[b]
    BY <1>0, UnlockKeepsSenders
  <2> QED
    BY <2>1 DEF Reached, SenderOf
<1> QED
  BY <1>0, <1>1, <1>2, OneSessionKept

LEMMA StepHub == HubInv /\ [Next]_vars => HubInv'
<1> SUFFICES ASSUME HubInv, [Next]_vars PROVE HubInv'
  OBVIOUS
<1> USE HubAssumption
<1>0. TypeOK /\ HubMatchesConns /\ MessageInv /\ OneSessionPerMessage
  BY DEF HubInv
<1>1. ASSUME UNCHANGED <<heard, sender, sent>> PROVE MessageInv' /\ OneSessionPerMessage'
  BY <1>0, <1>1 DEF MessageInv, Waiting, OneSessionPerMessage, SenderOf
<1>2. ASSUME NEW c \in Conns, Accept(c) \/ Announce(c) \/ Break(c) PROVE HubInv'
  BY <1>0, <1>1, <1>2 DEF Accept, Announce, Break, HubInv, TypeOK, ConnStates, HubMatchesConns
<1>3. ASSUME NEW c \in Conns, Register(c) PROVE HubInv'
  <2>1. TypeOK'
    BY <1>0, <1>3, UnlockKeepsSenders DEF Register, Unlock, TypeOK, ConnStates
  <2>2. HubMatchesConns'
    BY <1>0, <1>3 DEF Register, TypeOK, HubMatchesConns
  <2> QED
    BY <1>3, <2>1, <2>2, UnlockKeepsMessages DEF Register, HubInv
<1>4. ASSUME NEW c \in Conns, Unregister(c) PROVE HubInv'
  <2>1. TypeOK'
    BY <1>0, <1>4, UnlockKeepsSenders DEF Unregister, Unlock, TypeOK, ConnStates
  <2>2. HubMatchesConns'
    BY <1>0, <1>4 DEF Unregister, TypeOK, HubMatchesConns
  <2> QED
    BY <1>4, <2>1, <2>2, UnlockKeepsMessages DEF Unregister, HubInv
<1>5. ASSUME NEW b \in Senders, NEW s \in Sessions, Broadcast(b, s) PROVE HubInv'
  <2> DEFINE next == [at |-> IF announced = NoConn THEN "locked" ELSE "blocked",
                      session |-> s, message |-> sent + 1]
  <2>1. sent \in Nat /\ sent' = sent + 1 /\ sent + 1 \in Messages /\ sender[b].at = "idle"
        /\ UNCHANGED <<registered, announced, conn, heard>>
    BY <1>0, <1>5 DEF Broadcast, TypeOK, Messages
  <2>2. next \in SenderStates /\ next.message = sent + 1 /\ next.at \in {"blocked", "locked"}
    BY <2>1 DEF SenderStates
  <2>3. sender' = [sender EXCEPT ![b] = next]
    BY <1>5 DEF Broadcast, SGoto
  <2> HIDE DEF next
  <2>4. sender'[b] = next /\ \A x \in Senders : x # b => sender'[x] = sender[x]
    BY <1>0, <2>3 DEF TypeOK
  <2>5. \A x \in Senders : sender[x].at # "idle" => sender[x].message \in Nat /\ sender[x].message <= sent
    BY <1>0, BusySender DEF MessageInv, Messages
  <2>6. \A c \in Conns : \A m \in heard[c] : m \in Nat /\ m <= sent
    BY <1>0 DEF MessageInv, TypeOK, Messages
  <2>7. MessageInv'
    BY <1>0, <2>1, <2>2, <2>4, <2>5, <2>6 DEF MessageInv, Waiting
  <2>8. \A m \in Messages, c \in Conns : Reached(c, m)' => Reached(c, m)
    BY <2>1, <2>2, <2>4 DEF Reached, SenderOf
  <2>9. TypeOK' /\ HubMatchesConns'
    BY <1>0, <2>1, <2>2, <2>3 DEF TypeOK, HubMatchesConns, Messages
  <2> QED
    BY <1>0, <2>7, <2>8, <2>9, OneSessionKept DEF HubInv
<1>6. ASSUME NEW b \in Senders, Snapshot(b) PROVE HubInv'
  <2> DEFINE mine == sender[b].message
             s == sender[b].session
             next == [at |-> "writing", message |-> mine, todo |-> Targets(s)]
  <2>1. sender[b].at = "locked" /\ UNCHANGED <<registered, announced, conn, heard, sent>>
    BY <1>6 DEF Snapshot
  <2>2. mine \in Messages /\ s \in Sessions /\ Waiting(b)
    BY <1>0, <2>1, BusySender DEF Waiting
  <2>3. next \in SenderStates
    BY <1>0, <2>2 DEF SenderStates, Targets, TypeOK
  <2>4. sender' = [sender EXCEPT ![b] = next]
    BY <1>6 DEF Snapshot, SGoto
  <2>5. sender'[b] = next /\ \A x \in Senders : x # b => sender'[x] = sender[x]
    BY <1>0, <2>4 DEF TypeOK
  <2>6. MessageInv'
    BY <1>0, <2>1, <2>5 DEF MessageInv, Waiting
  <2>7. ASSUME NEW m \in Messages, NEW c \in Conns, Reached(c, m)'
        PROVE  IF m = mine THEN SessionOf[c] = s ELSE Reached(c, m)
    <3>1. m = mine => ~ (m \in heard[c])
      BY <1>0, <2>2 DEF MessageInv
    <3>2. ASSUME NEW x \in Senders, sender'[x].at = "writing", sender'[x].message = m,
                 c \in sender'[x].todo
          PROVE  IF x = b THEN m = mine /\ SessionOf[c] = s
                          ELSE m # mine /\ SenderOf(c, m)
      <4>1. CASE x = b
        BY <2>5, <3>2, <4>1 DEF Targets
      <4>2. CASE x # b
        BY <1>0, <2>1, <2>5, <3>2, <4>2 DEF SenderOf, MessageInv
      <4> QED
        BY <4>1, <4>2
    <3> QED
      BY <2>1, <2>7, <3>1, <3>2 DEF Reached, SenderOf
  <2>8. OneSessionPerMessage'
    <3>1. ASSUME NEW m \in Messages, NEW c \in Conns, NEW d \in Conns,
                 Reached(c, m)', Reached(d, m)'
          PROVE  SessionOf[c] = SessionOf[d]
      BY <1>0, <2>7, <3>1 DEF OneSessionPerMessage, Reached
    <3> QED
      BY <3>1 DEF OneSessionPerMessage, Reached
  <2>9. TypeOK' /\ HubMatchesConns'
    BY <1>0, <2>1, <2>3, <2>4 DEF TypeOK, HubMatchesConns
  <2> QED
    BY <2>6, <2>8, <2>9 DEF HubInv
<1>7. ASSUME NEW b \in Senders, Write(b) PROVE HubInv'
  <2>1. PICK c \in sender[b].todo :
          /\ heard' = IF conn[c] = "connected"
                        THEN [heard EXCEPT ![c] = @ \cup {sender[b].message}] ELSE heard
          /\ SGoto(b, Rest(b, c))
    BY <1>7 DEF Write
  <2>2. sender[b].at = "writing" /\ UNCHANGED <<registered, announced, conn, sent>>
    BY <1>7 DEF Write
  <2> DEFINE mine == sender[b].message
             next == Rest(b, c)
  <2>3. /\ sender[b] \in [at : {"writing"}, message : Messages, todo : SUBSET Conns]
        /\ c \in Conns /\ mine \in Messages
    BY <1>0, <2>1, <2>2, BusySender DEF SenderStates
  <2>4. /\ next \in SenderStates /\ next.at = "writing" /\ next.message = mine
        /\ next.todo \subseteq sender[b].todo
    BY <2>3 DEF Rest, SenderStates
  <2> HIDE DEF next
  <2>5. sender'[b] = next /\ \A x \in Senders : x # b => sender'[x] = sender[x]
    BY <1>0, <2>1 DEF TypeOK, SGoto, next
  <2>6. sender' \in [Senders -> SenderStates]
    BY <1>0, <2>1, <2>4 DEF TypeOK, SGoto, next
  <2>7. /\ heard' \in [Conns -> SUBSET Messages]
        /\ \A d \in Conns : heard'[d] \subseteq heard[d] \cup (IF d = c THEN {mine} ELSE {})
    BY <1>0, <2>1, <2>3 DEF TypeOK
  <2>8. MessageInv'
    <3>1. mine <= sent /\ \A x \in Senders : Waiting(x) => sender[x].message # mine
      BY <1>0, <2>2 DEF MessageInv, Waiting
    <3>2. \A x \in Senders : /\ sender'[x].at # "idle" <=> sender[x].at # "idle"
                             /\ Waiting(x)' <=> Waiting(x)
                             /\ sender'[x].message = sender[x].message
      BY <2>2, <2>4, <2>5 DEF Waiting
    <3> QED
      BY <1>0, <2>2, <2>7, <3>1, <3>2 DEF MessageInv
  <2>9. \A m \in Messages, d \in Conns : Reached(d, m)' => Reached(d, m)
    <3>1. SenderOf(c, mine)
      BY <2>1, <2>2 DEF SenderOf
    <3>2. \A m \in Messages, d \in Conns : SenderOf(d, m)' => SenderOf(d, m)
      BY <2>2, <2>4, <2>5 DEF SenderOf
    <3> QED
      BY <2>7, <3>1, <3>2 DEF Reached
  <2>10. TypeOK' /\ HubMatchesConns'
    BY <1>0, <2>2, <2>6, <2>7 DEF TypeOK, HubMatchesConns
  <2> QED
    BY <1>0, <2>8, <2>9, <2>10, OneSessionKept DEF HubInv
<1>8. ASSUME NEW b \in Senders, Done(b) PROVE HubInv'
  <2>1. sender' = [sender EXCEPT ![b] = [at |-> "idle"]]
        /\ UNCHANGED <<registered, announced, conn, heard, sent>>
    BY <1>8 DEF Done, SGoto
  <2>2. sender'[b] = [at |-> "idle"] /\ \A x \in Senders : x # b => sender'[x] = sender[x]
    BY <1>0, <2>1 DEF TypeOK
  <2>3. MessageInv'
    BY <1>0, <2>1, <2>2 DEF MessageInv, Waiting
  <2>4. \A m \in Messages, c \in Conns : Reached(c, m)' => Reached(c, m)
    BY <2>1, <2>2 DEF Reached, SenderOf
  <2>5. TypeOK' /\ HubMatchesConns'
    BY <1>0, <2>1 DEF TypeOK, HubMatchesConns, SenderStates
  <2> QED
    BY <1>0, <2>3, <2>4, <2>5, OneSessionKept DEF HubInv
<1>9. CASE UNCHANGED vars
  BY <1>0, <1>1, <1>9 DEF vars, HubInv, TypeOK, HubMatchesConns
<1> QED
  BY <1>2, <1>3, <1>4, <1>5, <1>6, <1>7, <1>8, <1>9 DEF Next

-----------------------------------------------------------------------------

LEMMA AlwaysHub == Spec => []HubInv
BY InitHub, StepHub, PTL DEF Spec

\* The hub holds the connections that are up or not yet taken off
\* (websocket.go:37-68, handlers/websocket.go:67-77).
THEOREM HubIsOfConns == Spec => []HubMatchesConns
<1>1. HubInv => HubMatchesConns
  BY DEF HubInv
<1> QED
  BY <1>1, AlwaysHub, PTL

\* A message goes to the admins of one session (websocket.go:18-21,74-86).
THEOREM MessagesStayInSession == Spec => []OneSessionPerMessage
<1>1. HubInv => OneSessionPerMessage
  BY DEF HubInv
<1> QED
  BY <1>1, AlwaysHub, PTL

==============================================================================
