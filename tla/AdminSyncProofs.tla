--------------------------- MODULE AdminSyncProofs ---------------------------
(***************************************************************************)
(* The admin page's socket, and the list that follows the queue, for any   *)
(* number of clients, sockets, mutations and commits.                      *)
(***************************************************************************)
EXTENDS AdminSync, TLAPS

(* WSClient                                                                *)

\* this.ws is the client's own socket while it is up, and nothing of a client that was
\* never created exists.
Wired ==
    /\ current # NoClient => current \in created
    /\ \A s \in Exists : owner[s] \in created
    /\ \A s \in Exists : Live(s) => ws[owner[s]] = s
    /\ \A c \in Clients : ws[c] # NoSocket =>
          ws[c] \in Exists /\ Live(ws[c]) /\ owner[ws[c]] = c

SocketInv == TypeOK /\ Wired /\ OneTransport /\ KeepsTrying

LEMMA InitSockets == Init => SocketInv
BY ClientAssumption DEF Init, SocketInv, TypeOK, Wired, OneTransport, KeepsTrying, Exists

\* A client without a socket, open or closing, may connect.
LEMMA ConnectKeeps ==
    ASSUME SocketInv, NEW c \in Clients, Connect(c), ws[c] = NoSocket,
           \A s \in Exists : owner[s] # c,
           created' = created \cup {c},
           current' = current \/ current' = c
    PROVE  SocketInv'
<1> USE ClientAssumption DEF SocketInv, TypeOK, Wired, OneTransport, KeepsTrying, Exists, Live
<1>1. PICK s \in Sockets \ Exists :
        /\ timer' = timer \ {c}
        /\ state' = [ClosedBy(c) EXCEPT ![s] = "connecting"]
        /\ owner' = [owner EXCEPT ![s] = c]
        /\ ws' = [ws EXCEPT ![c] = s]
        /\ wsConnected' = FALSE
  BY DEF Connect
<1>2. ClosedBy(c) = state
  BY DEF ClosedBy
<1>3. Exists' = Exists \cup {s} /\ s \in Sockets /\ s \notin Exists
  BY <1>1, <1>2
<1>4. TypeOK'
  <2>1. ws' \in [Clients -> Exists' \cup {NoSocket}]
    <3> HIDE DEF Exists
    <3> QED
      BY <1>1, <1>3
  <2>2. state' \in [Sockets -> {"unused", "connecting", "open", "closing"}]
    BY <1>1, <1>2
  <2>3. owner' \in [Sockets -> Clients \cup {NoClient}]
    BY <1>1
  <2>4. created' \subseteq Clients /\ current' \in Clients \cup {NoClient}
    OBVIOUS
  <2>5. timer' \subseteq created' /\ wsConnected' \in BOOLEAN
    BY <1>1
  <2> HIDE DEF Exists
  <2> QED
    BY <2>1, <2>2, <2>3, <2>4, <2>5
<1>5. Wired'
  BY <1>1, <1>2, <1>3
<1>6. OneTransport'
  BY <1>1, <1>2, <1>3
<1>7. KeepsTrying'
  BY <1>1, <1>2, <1>3
<1> QED
  BY <1>4, <1>5, <1>6, <1>7

\* The close event of a socket leaves its client with a timer only.
LEMMA OnCloseKeeps ==
    ASSUME SocketInv, NEW s \in Exists, OnClose(s)
    PROVE  SocketInv'
<1> USE ClientAssumption DEF SocketInv, TypeOK, Wired, OneTransport, KeepsTrying, Exists, Live
<1>1. owner[s] \in Clients /\ owner[s] \in created /\ s \in Sockets
  OBVIOUS
<1>2. \A t \in Exists : owner[t] = owner[s] => t = s
  OBVIOUS
<1>3. Exists' = Exists \ {s}
  BY DEF OnClose
<1>4. ws[owner[s]] \in {s, NoSocket}
  BY <1>1, <1>2
<1>5. TypeOK'
  <2>1. ws' \in [Clients -> Exists' \cup {NoSocket}]
    <3>1. \A c \in Clients : c # owner[s] => ws[c] # s
      OBVIOUS
    <3>2. ws' = [ws EXCEPT ![owner[s]] = NoSocket] /\ ws \in [Clients -> Exists \cup {NoSocket}]
      BY DEF OnClose
    <3> HIDE DEF Exists
    <3> QED
      BY <1>1, <1>3, <3>1, <3>2
  <2>2. state' \in [Sockets -> {"unused", "connecting", "open", "closing"}]
    BY DEF OnClose
  <2>3. owner' \in [Sockets -> Clients \cup {NoClient}]
    BY DEF OnClose
  <2>4. /\ created' \subseteq Clients /\ current' \in Clients \cup {NoClient}
        /\ timer' \subseteq created' /\ wsConnected' \in BOOLEAN
    BY <1>1 DEF OnClose
  <2> HIDE DEF Exists
  <2> QED
    BY <2>1, <2>2, <2>3, <2>4
<1>6. Wired'
  BY <1>1, <1>2, <1>3, <1>4 DEF OnClose
<1>7. OneTransport'
  BY <1>1, <1>2, <1>3, <1>4 DEF OnClose
<1>8. KeepsTrying'
  BY <1>1, <1>2, <1>3, <1>4 DEF OnClose
<1> QED
  BY <1>5, <1>6, <1>7, <1>8

LEMMA StepSockets == SocketInv /\ [Next]_vars => SocketInv'
<1> SUFFICES ASSUME SocketInv, [Next]_vars PROVE SocketInv'
  OBVIOUS
<1> USE ClientAssumption DEF SocketInv, TypeOK, Wired, OneTransport, KeepsTrying, Exists, Live
<1>1. ASSUME NEW c \in Clients, Mount(c) PROVE SocketInv'
  <2>1. ws[c] = NoSocket /\ \A s \in Exists : owner[s] # c
    BY <1>1 DEF Mount
  <2> QED
    BY <1>1, <2>1, ConnectKeeps DEF Mount
<1>2. ASSUME NEW c \in Clients, Unmount(c) PROVE SocketInv'
  <2>1. Exists' = Exists
    BY <1>2 DEF Unmount, Disconnect, ClosedBy
  <2>2. TypeOK'
    <3>1. ws' = [ws EXCEPT ![c] = NoSocket] /\ ws \in [Clients -> Exists \cup {NoSocket}]
      BY <1>2 DEF Unmount, Disconnect
    <3>2. ws' \in [Clients -> Exists' \cup {NoSocket}]
      <4> HIDE DEF Exists
      <4> QED
        BY <2>1, <3>1
    <3>3. state' \in [Sockets -> {"unused", "connecting", "open", "closing"}]
      BY <1>2 DEF Unmount, Disconnect, ClosedBy
    <3>4. /\ created' \subseteq Clients /\ current' \in Clients \cup {NoClient}
          /\ timer' \subseteq created' /\ wsConnected' \in BOOLEAN
          /\ owner' \in [Sockets -> Clients \cup {NoClient}]
      BY <1>2 DEF Unmount, Disconnect
    <3> HIDE DEF Exists
    <3> QED
      BY <3>2, <3>3, <3>4
  <2>3. Wired'
    BY <1>2, <2>1 DEF Unmount, Disconnect, ClosedBy
  <2>4. OneTransport'
    BY <1>2, <2>1 DEF Unmount, Disconnect
  <2>5. KeepsTrying'
    BY <1>2 DEF Unmount
  <2> QED
    BY <2>2, <2>3, <2>4, <2>5
<1>3. ASSUME NEW c \in Clients, Reconnect(c) PROVE SocketInv'
  <2>1. \A s \in Exists : owner[s] # c
    BY <1>3 DEF Reconnect
  <2>2. ws[c] = NoSocket
    BY <2>1
  <2>3. created' = created \cup {c} /\ current' = current
    BY <1>3 DEF Reconnect
  <2> QED
    BY <1>3, <2>1, <2>2, <2>3, ConnectKeeps DEF Reconnect
<1>4. ASSUME NEW s \in Sockets, Opened(s) PROVE SocketInv'
  BY <1>4 DEF Opened
<1>5. ASSUME NEW s \in Sockets, Lost(s) \/ Closed(s) PROVE SocketInv'
  <2>1. s \in Exists /\ OnClose(s)
    BY <1>5 DEF Lost, Closed
  <2> QED
    BY <2>1, OnCloseKeeps
<1>6. CASE UNCHANGED vars
  BY <1>6 DEF vars
<1> QED
  BY <1>1, <1>2, <1>3, <1>4, <1>5, <1>6 DEF Next

-----------------------------------------------------------------------------
(* AdminSync                                                               *)

\* The sockets the hub has registered, and those with notices, are up, and there are no
\* more notices than commits.
ServerInv ==
    /\ queue \in Versions /\ owed \in Nat
    /\ \A s \in registered : s \in Sockets /\ Live(s)
    /\ notices \in [Sockets -> Nat]
    /\ \A s \in Sockets :
          /\ notices[s] + owed <= queue
          /\ notices[s] > 0 => Live(s)
    /\ owed <= queue

Fetches == {NoFetch, Asked} \cup [at : {"answered"}, list : Versions]
MutStates == [at : {"idle", "edit", "edited"}] \cup
             [at : {"reorder", "reordered"}, previous : Lists]

PageTypes ==
    /\ cache \in Lists
    /\ fetch \in Fetches
    /\ mut \in [Mutations -> MutStates]
    /\ missed \in BOOLEAN

Pending == owed > 0 \/ \E s \in Sockets : notices[s] > 0

\* An answer that is old when it arrives, a list that is old, and a guess: each has a
\* cause to be fetched again.  An edit is none, until it is committed.
AnswerHasCause ==
    \A v \in Versions : fetch = [at |-> "answered", list |-> v] /\ v # queue => Pending \/ missed
CacheHasCause ==
    Mounted /\ cache # queue => fetch # NoFetch \/ Pending \/ Reordering \/ missed
GuessHasCause == cache = Guess => Reordering \/ fetch # NoFetch \/ missed

CauseInv == AnswerHasCause /\ CacheHasCause /\ GuessHasCause

SyncInv == SocketInv /\ ServerInv /\ PageTypes /\ CauseInv

\* What a step that leaves the sockets alone leaves alone.
LEMMA SocketsStay ==
    ASSUME UNCHANGED vars
    PROVE  Exists' = Exists /\ \A s : Live(s)' = Live(s)
BY DEF vars, Exists, Live

\* Every step of AdminSync is one of WSClient, or none.
LEMMA SocketsFollow == [SyncNext]_<<vars, syncVars>> => [Next]_vars
<1> SUFFICES ASSUME [SyncNext]_<<vars, syncVars>> PROVE [Next]_vars
  OBVIOUS
<1>1. ASSUME NEW c \in Clients, PageMounts(c) PROVE Next
  BY <1>1 DEF PageMounts, Next
<1>2. CASE SocketsMove
  BY <1>2 DEF SocketsMove, Next
<1>3. CASE FetchAnswered \/ FetchDone \/ FetchFails \/ OtherChange \/ Broadcast
  BY <1>3 DEF FetchAnswered, FetchDone, FetchFails, OtherChange, Broadcast
<1>4. ASSUME NEW s \in Sockets, Register(s) \/ Notice(s) PROVE UNCHANGED vars
  BY <1>4 DEF Register, Notice
<1>5. ASSUME NEW m \in Mutations,
             Edit(m) \/ Drag(m) \/ MutationCommits(m) \/ MutationSucceeds(m)
             \/ ReorderFails(m) \/ EditFails(m)
      PROVE  UNCHANGED vars
  BY <1>5 DEF Edit, Drag, MutationCommits, MutationSucceeds, ReorderFails, EditFails
<1>6. CASE UNCHANGED <<vars, syncVars>>
  BY <1>6
<1> QED
  BY <1>1, <1>2, <1>3, <1>4, <1>5, <1>6 DEF SyncNext

\* An invalidation starts a fetch, or is remembered as missed.
LEMMA InvalidateFetches ==
    ASSUME Invalidate
    PROVE  fetch' = Asked \/ (fetch' = fetch /\ missed' = TRUE)
BY DEF Invalidate

\* Once a fetch is asked for, or something is missed, everything old has a cause.
LEMMA AskedIsCause ==
    ASSUME PageTypes, fetch' = Asked \/ missed' = TRUE
    PROVE  CauseInv'
BY DEF CauseInv, AnswerHasCause, CacheHasCause, GuessHasCause, Asked, NoFetch

-----------------------------------------------------------------------------

LEMMA InitSync == SyncInit => SyncInv
<1> SUFFICES ASSUME SyncInit PROVE SyncInv
  OBVIOUS
<1> USE SyncAssumption DEF SyncInit
<1>1. SocketInv
  BY InitSockets
<1>2. ServerInv
  BY DEF ServerInv, Versions
<1>3. PageTypes
  BY DEF PageTypes, Lists, Fetches, MutStates, MIdle
<1>4. CauseInv
  <2>1. AnswerHasCause
    BY DEF AnswerHasCause, NoFetch
  <2>2. CacheHasCause /\ GuessHasCause
    BY DEF Init, CacheHasCause, GuessHasCause, Mounted
  <2> QED
    BY <2>1, <2>2 DEF CauseInv
<1> QED
  BY <1>1, <1>2, <1>3, <1>4 DEF SyncInv

\* The server's part.
LEMMA StepServer ==
    ASSUME SyncInv, [SyncNext]_<<vars, syncVars>>, SocketInv'
    PROVE  ServerInv'
<1> USE SyncAssumption DEF ServerInv, Versions
<1>0. ServerInv /\ SocketInv
  BY DEF SyncInv
<1>1. ASSUME SocketsStep, UNCHANGED <<queue, owed>> PROVE ServerInv'
  BY <1>0, <1>1 DEF SocketsStep
<1>2. ASSUME UNCHANGED vars, UNCHANGED <<registered, notices, owed, queue>> PROVE ServerInv'
  BY <1>0, <1>2, SocketsStay
<1>3. ASSUME UNCHANGED vars, UNCHANGED <<registered, notices>>, Committed PROVE ServerInv'
  BY <1>0, <1>3, SocketsStay DEF Committed
<1>4. ASSUME NEW s \in Sockets, Register(s) PROVE ServerInv'
  BY <1>0, <1>4, SocketsStay DEF Register, Live
<1>5. ASSUME NEW s \in Sockets, Notice(s) PROVE ServerInv'
  BY <1>0, <1>5, SocketsStay DEF Notice, Live
<1>6. CASE Broadcast
  BY <1>0, <1>6, SocketsStay DEF Broadcast
<1>7. ASSUME NEW m \in Mutations,
             Edit(m) \/ Drag(m) \/ MutationSucceeds(m) \/ ReorderFails(m) \/ EditFails(m)
      PROVE  ServerInv'
  BY <1>2, <1>7 DEF Edit, Drag, MutationSucceeds, ReorderFails, EditFails
<1>8. ASSUME NEW m \in Mutations, MutationCommits(m) PROVE ServerInv'
  BY <1>3, <1>8 DEF MutationCommits
<1>9. CASE FetchAnswered \/ FetchDone \/ FetchFails
  BY <1>2, <1>9 DEF FetchAnswered, FetchDone, FetchFails
<1>10. CASE OtherChange
  BY <1>3, <1>10 DEF OtherChange
<1>11. CASE UNCHANGED <<vars, syncVars>>
  BY <1>2, <1>11 DEF syncVars
<1>12. CASE SocketsMove \/ \E c \in Clients : PageMounts(c)
  BY <1>1, <1>12 DEF SocketsMove, PageMounts
<1> QED
  BY <1>4, <1>5, <1>6, <1>7, <1>8, <1>9, <1>10, <1>11, <1>12 DEF SyncNext

\* The page's part: the types.
LEMMA StepPage ==
    ASSUME SyncInv, [SyncNext]_<<vars, syncVars>>
    PROVE  PageTypes'
<1> USE DEF PageTypes
<1>0. PageTypes /\ queue \in Versions
  BY DEF SyncInv, ServerInv
<1>1. Asked \in Fetches /\ NoFetch \in Fetches /\ MIdle \in MutStates
  BY DEF Fetches, MutStates, MIdle
<1>2. Invalidate => fetch' \in Fetches /\ missed' \in BOOLEAN
  BY <1>0, <1>1 DEF Invalidate
<1>3. ASSUME NEW s \in Sockets, Register(s) \/ Notice(s) PROVE PageTypes'
  BY <1>0, <1>2, <1>3 DEF Register, Notice
<1>4. CASE Broadcast
  BY <1>0, <1>4 DEF Broadcast
<1>5. CASE OtherChange
  BY <1>0, <1>5 DEF OtherChange
<1>6. CASE FetchAnswered
  BY <1>0, <1>6 DEF FetchAnswered, Fetches
<1>7. CASE FetchDone
  <2>1. fetch.list \in Lists
    BY <1>0, <1>7 DEF FetchDone, Fetches, NoFetch, Asked, Lists
  <2> QED
    BY <1>0, <1>1, <1>7, <2>1 DEF FetchDone
<1>8. CASE FetchFails
  BY <1>0, <1>1, <1>8 DEF FetchFails
<1>9. ASSUME NEW c \in Clients, PageMounts(c) PROVE PageTypes'
  BY <1>0, <1>1, <1>9 DEF PageMounts, FetchOnMount
<1>10. CASE SocketsMove
  BY <1>0, <1>10 DEF SocketsMove, Dropped
<1>11. ASSUME NEW m \in Mutations PROVE
          /\ Edit(m) => PageTypes'
          /\ Drag(m) => PageTypes'
          /\ MutationSucceeds(m) => PageTypes'
          /\ EditFails(m) => PageTypes'
          /\ MutationCommits(m) => PageTypes'
          /\ ReorderFails(m) => PageTypes'
  <2>0. mut[m] \in MutStates
    BY <1>0
  <2>1. Edit(m) => PageTypes'
    BY <1>0 DEF Edit, MGoto, MutStates
  <2>2. Drag(m) => PageTypes'
    BY <1>0, <1>1 DEF Drag, MGoto, MutStates, Lists
  <2>3. MutationSucceeds(m) \/ EditFails(m) => PageTypes'
    BY <1>0, <1>1, <1>2 DEF MutationSucceeds, EditFails, MGoto
  <2>4. MutationCommits(m) => PageTypes'
    <3>1. mut[m].at = "reorder" => [mut[m] EXCEPT !.at = "reordered"] \in MutStates
      BY <2>0 DEF MutStates
    <3>2. [at |-> "edited"] \in MutStates
      BY DEF MutStates
    <3> QED
      BY <1>0, <3>1, <3>2 DEF MutationCommits, MGoto
  <2>5. ReorderFails(m) => PageTypes'
    <3>1. mut[m].at \in {"reorder", "reordered"} => mut[m].previous \in Lists
      BY <2>0 DEF MutStates
    <3> QED
      BY <1>0, <1>1, <1>2, <3>1 DEF ReorderFails, MGoto
  <2> QED
    BY <2>1, <2>2, <2>3, <2>4, <2>5
<1>12. CASE UNCHANGED <<vars, syncVars>>
  BY <1>0, <1>12 DEF syncVars
<1> QED
  BY <1>3, <1>4, <1>5, <1>6, <1>7, <1>8, <1>9, <1>10, <1>11, <1>12 DEF SyncNext

\* The causes.  A step that invalidates, mounts a page or loses something leaves a fetch
\* or something missed; the others leave the causes there were, or new ones.
LEMMA StepCauses ==
    ASSUME SyncInv, [SyncNext]_<<vars, syncVars>>
    PROVE  CauseInv'
<1> USE SyncAssumption
<1>0. SocketInv /\ ServerInv /\ PageTypes /\ CauseInv
  BY DEF SyncInv
<1>1. ASSUME fetch' = Asked \/ missed' = TRUE PROVE CauseInv'
  BY <1>0, <1>1, AskedIsCause
<1>2. ASSUME Pending => Pending',
             UNCHANGED <<fetch, cache, missed>>, Mounted' => Mounted, Reordering => Reordering',
             queue' = queue \/ Pending'
      PROVE  CauseInv'
  BY <1>0, <1>2
     DEF CauseInv, AnswerHasCause, CacheHasCause, GuessHasCause
<1>3. UNCHANGED vars => Mounted' = Mounted
  BY DEF vars, Mounted
<1>4. UNCHANGED mut => Reordering' = Reordering
  BY DEF Reordering
<1>5. Invalidate => CauseInv'
  BY <1>1, InvalidateFetches
<1>6. ASSUME NEW s \in Sockets, Register(s) PROVE CauseInv'
  BY <1>2, <1>3, <1>4, <1>6 DEF Register, Pending
<1>7. ASSUME NEW s \in Sockets, Notice(s) PROVE CauseInv'
  BY <1>5, <1>7 DEF Notice
<1>8. CASE Broadcast
  <2>1. CASE registered = {}
    BY <1>1, <1>8, <2>1 DEF Broadcast
  <2>2. CASE registered # {}
    <3>1. PICK s \in registered : TRUE
      BY <2>2
    <3>2. s \in Sockets /\ notices'[s] > 0
      BY <1>0, <1>8, <3>1 DEF Broadcast, ServerInv
    <3>3. Pending'
      BY <3>2 DEF Pending
    <3>4. UNCHANGED <<vars, queue, fetch, cache, mut>> /\ missed' = missed
      BY <1>0, <1>8, <2>2 DEF Broadcast, PageTypes
    <3> QED
      BY <1>2, <1>3, <1>4, <3>3, <3>4
  <2> QED
    BY <2>1, <2>2
<1>9. ASSUME UNCHANGED <<fetch, cache, missed>>, Mounted' => Mounted, Reordering => Reordering',
             Committed
      PROVE  CauseInv'
  <2>1. Pending'
    BY <1>0, <1>9 DEF Committed, Pending, ServerInv
  <2> QED
    BY <1>2, <1>9, <2>1
<1>10. CASE OtherChange
  BY <1>3, <1>4, <1>9, <1>10 DEF OtherChange
<1>11. CASE FetchAnswered
  <2>1. fetch' = [at |-> "answered", list |-> queue] /\ UNCHANGED <<vars, queue, owed, notices, cache, mut, missed>>
    BY <1>11 DEF FetchAnswered
  <2>2. fetch' # NoFetch
    BY <2>1 DEF NoFetch
  <2>3. AnswerHasCause'
    BY <2>1 DEF AnswerHasCause
  <2> QED
    BY <2>2, <2>3 DEF CauseInv, CacheHasCause, GuessHasCause
<1>12. CASE FetchDone
  <2>1. PICK v \in Versions : fetch = [at |-> "answered", list |-> v]
    BY <1>0, <1>12 DEF FetchDone, PageTypes, Fetches, NoFetch, Asked
  <2>2. cache' = v /\ fetch' = NoFetch /\ UNCHANGED <<queue, owed, notices, missed>>
    BY <1>12, <2>1 DEF FetchDone
  <2>3. AnswerHasCause'
    BY <2>2 DEF AnswerHasCause, NoFetch
  <2>4. CacheHasCause'
    BY <1>0, <2>1, <2>2 DEF CauseInv, AnswerHasCause, CacheHasCause, Pending
  <2>5. GuessHasCause'
    BY <2>2 DEF GuessHasCause, Versions
  <2> QED
    BY <2>3, <2>4, <2>5 DEF CauseInv
<1>13. CASE FetchFails
  BY <1>1, <1>13 DEF FetchFails
<1>14. ASSUME NEW c \in Clients, PageMounts(c) PROVE CauseInv'
  <2>1. CASE fetch = NoFetch
    BY <1>1, <1>14, <2>1 DEF PageMounts, FetchOnMount
  <2>2. CASE fetch # NoFetch
    <3>1. UNCHANGED <<fetch, missed, cache, queue, owed, mut>>
      BY <1>14, <2>2 DEF PageMounts, FetchOnMount
    <3>2. \A s \in Sockets : Live(s) => Live(s)'
      <4>1. ws[c] = NoSocket
        BY <1>0, <1>14 DEF PageMounts, Mount, SocketInv, TypeOK, Wired, Live, Exists
      <4> QED
        BY <1>0, <1>14, <4>1, ClientAssumption
           DEF PageMounts, Mount, Connect, ClosedBy, Live, SocketInv, TypeOK, Exists
    <3>3. Pending => Pending'
      BY <1>0, <1>14, <3>1, <3>2 DEF PageMounts, SocketsStep, Pending, ServerInv
    <3>4. AnswerHasCause'
      BY <1>0, <3>1, <3>3 DEF CauseInv, AnswerHasCause
    <3>5. fetch' # NoFetch
      BY <2>2, <3>1
    <3> QED
      BY <3>4, <3>5 DEF CauseInv, CacheHasCause, GuessHasCause
  <2> QED
    BY <2>1, <2>2
<1>15. CASE SocketsMove
  <2>1. CASE Dropped
    BY <1>1, <1>15, <2>1 DEF SocketsMove
  <2>2. CASE ~ Dropped
    <3>1. UNCHANGED <<fetch, missed, cache, queue, owed, mut>>
      BY <1>0, <1>15, <2>2 DEF SocketsMove, PageTypes
    <3>2. Pending => Pending'
      BY <1>0, <1>15, <2>2, <3>1 DEF SocketsMove, SocketsStep, Dropped, Pending, ServerInv
    <3>3. Mounted' => Mounted
      BY <1>15 DEF SocketsMove, Unmount, Reconnect, Opened, Lost, Closed, OnClose, Mounted
    <3> QED
      BY <1>2, <1>4, <3>1, <3>2, <3>3
  <2> QED
    BY <2>1, <2>2
<1>16. ASSUME NEW m \in Mutations, Edit(m) \/ EditFails(m) PROVE CauseInv'
  <2>1. UNCHANGED <<vars, queue, owed, notices, cache, fetch, missed>>
    BY <1>16 DEF Edit, EditFails
  <2>2. Pending' = Pending
    BY <2>1 DEF Pending
  <2>3. ~ (mut[m].at \in {"reorder", "reordered"}) /\ \A n \in Mutations : n # m => mut'[n] = mut[n]
    BY <1>0, <1>16 DEF Edit, EditFails, MGoto, MIdle, PageTypes
  <2>4. Reordering => Reordering'
    BY <2>3 DEF Reordering
  <2> QED
    BY <1>2, <1>3, <2>1, <2>2, <2>4
<1>17. ASSUME NEW m \in Mutations, Drag(m) PROVE CauseInv'
  <2>1. mut'[m].at = "reorder" /\ fetch' = NoFetch
    BY <1>0, <1>17 DEF Drag, MGoto, PageTypes
  <2>2. Reordering'
    BY <2>1 DEF Reordering
  <2> QED
    BY <2>1, <2>2 DEF CauseInv, AnswerHasCause, CacheHasCause, GuessHasCause, NoFetch
<1>18. ASSUME NEW m \in Mutations, MutationCommits(m) PROVE CauseInv'
  <2>1. UNCHANGED <<vars, cache, fetch, missed>> /\ Committed
    BY <1>18 DEF MutationCommits
  <2>2. \A n \in Mutations : n # m => mut'[n] = mut[n]
    BY <1>0, <1>18 DEF MutationCommits, MGoto, PageTypes
  <2>3. mut[m].at = "reorder" => mut'[m].at = "reordered"
    <3>1. mut[m].at = "reorder" => mut[m] \in [at : {"reorder", "reordered"}, previous : Lists]
      BY <1>0 DEF PageTypes, MutStates
    <3> QED
      BY <1>0, <1>18, <3>1 DEF MutationCommits, MGoto, PageTypes
  <2>4. mut[m].at # "reordered"
    BY <1>18 DEF MutationCommits
  <2>5. Reordering => Reordering'
    BY <2>2, <2>3, <2>4 DEF Reordering
  <2> QED
    BY <1>3, <1>9, <2>1, <2>5
<1>19. ASSUME NEW m \in Mutations, MutationSucceeds(m) \/ ReorderFails(m) PROVE CauseInv'
  BY <1>5, <1>19 DEF MutationSucceeds, ReorderFails
<1>20. CASE UNCHANGED <<vars, syncVars>>
  <2>1. UNCHANGED <<vars, queue, owed, notices, cache, fetch, missed, mut>>
    BY <1>20 DEF syncVars
  <2> QED
    BY <1>2, <1>3, <1>4, <2>1 DEF Pending
<1> QED
  BY <1>6, <1>7, <1>8, <1>10, <1>11, <1>12, <1>13, <1>14, <1>15, <1>16, <1>17, <1>18, <1>19,
     <1>20 DEF SyncNext

-----------------------------------------------------------------------------

LEMMA StepSync == SyncInv /\ [SyncNext]_<<vars, syncVars>> => SyncInv'
<1> SUFFICES ASSUME SyncInv, [SyncNext]_<<vars, syncVars>> PROVE SyncInv'
  OBVIOUS
<1>1. SocketInv'
  BY SocketsFollow, StepSockets DEF SyncInv
<1> QED
  BY <1>1, StepServer, StepPage, StepCauses DEF SyncInv

LEMMA AlwaysSyncInv == SyncSpec => []SyncInv
BY InitSync, StepSync, PTL DEF SyncSpec

\* Every variable of the page, its sockets and the server keeps its type.
THEOREM SyncTypes == SyncSpec => []SyncTypeOK
<1>1. SyncInv => SyncTypeOK
  <2> SUFFICES ASSUME SyncInv PROVE SyncTypeOK
    OBVIOUS
  <2> USE SyncAssumption DEF SyncInv, SocketInv, ServerInv, PageTypes, Versions
  <2>1. owed \in Versions /\ notices \in [Sockets -> Versions]
    OBVIOUS
  <2>2. registered \subseteq Exists
    BY DEF Live, Exists
  <2> QED
    BY <2>1, <2>2 DEF SyncTypeOK, Fetches, MutStates
<1> QED
  BY <1>1, AlwaysSyncInv, PTL

\* No client of the page has two sockets, or a socket and a timer
\* (websocketClient.ts:39-67,73-97).
THEOREM ClientsHaveOneTransport == SyncSpec => []OneTransport
<1>1. SyncInv => OneTransport
  BY DEF SyncInv, SocketInv
<1> QED
  BY <1>1, AlwaysSyncInv, PTL

\* The client of a page never gives up (websocketClient.ts:58-62,89-97).
THEOREM ClientKeepsTrying == SyncSpec => []KeepsTrying
<1>1. SyncInv => KeepsTrying
  BY DEF SyncInv, SocketInv
<1> QED
  BY <1>1, AlwaysSyncInv, PTL

\* A page that shows an old list is about to learn of it
\* (AdminPage.tsx:67-86,94-103).
THEOREM OldListsHaveCause == SyncSpec => []StaleHasCause
<1>1. SyncInv => StaleHasCause
  <2>1. Reordering => Unsettled
    BY DEF Reordering, Unsettled, MIdle
  <2> QED
    BY <2>1 DEF SyncInv, CauseInv, CacheHasCause, StaleHasCause, Pending
<1> QED
  BY <1>1, AlwaysSyncInv, PTL

\* The order of a drag does not stay on the screen (AdminPage.tsx:65-87).
THEOREM GuessesLeave == SyncSpec => []GuessIsTemporary
<1>1. SyncInv => GuessIsTemporary
  BY DEF SyncInv, CauseInv, GuessHasCause, GuessIsTemporary
<1> QED
  BY <1>1, AlwaysSyncInv, PTL

==============================================================================
