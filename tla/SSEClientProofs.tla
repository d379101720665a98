--------------------------- MODULE SSEClientProofs ---------------------------
(***************************************************************************)
(* The viewer page's stream, for any number of clients one after another.  *)
(***************************************************************************)
EXTENDS SSEClient, TLAPS

\* A client that was never created has no source.
NothingBefore == \A c \in Clients \ created : source[c] = "none"

IInv == TypeOK /\ NothingBefore /\ LeavesForGood /\ KeepsTrying /\ StatusOfCurrent

LEMMA InitIInv == Init => IInv
BY ClientAssumption
   DEF Init, IInv, TypeOK, NothingBefore, LeavesForGood, KeepsTrying, StatusOfCurrent

\* Only the client of the page has a source or a timer.
LEMMA ActiveIsCurrent ==
    ASSUME IInv, NEW c \in Clients, source[c] # "none" \/ c \in timer
    PROVE  c = current /\ c \in created
BY DEF IInv, TypeOK, NothingBefore, LeavesForGood

LEMMA StepIInv == IInv /\ [Next]_vars => IInv'
<1> SUFFICES ASSUME IInv, [Next]_vars PROVE IInv'
  OBVIOUS
<1> USE ClientAssumption
    DEF IInv, TypeOK, NothingBefore, LeavesForGood, KeepsTrying, StatusOfCurrent
<1>1. ASSUME NEW c \in Clients, Mount(c) PROVE IInv'
  BY <1>1 DEF Mount, Connect
<1>2. ASSUME NEW c \in Clients, Unmount(c) PROVE IInv'
  BY <1>2 DEF Unmount, Disconnect
<1>3. ASSUME NEW c \in Clients, Opened(c) PROVE IInv'
  <2>1. c = current /\ c \in created
    BY <1>3, ActiveIsCurrent DEF Opened
  <2> QED
    BY <1>3, <2>1 DEF Opened
<1>4. ASSUME NEW c \in Clients, Failed(c) PROVE IInv'
  <2>1. c = current /\ c \in created
    BY <1>4, ActiveIsCurrent DEF Failed
  <2> QED
    BY <1>4, <2>1 DEF Failed
<1>5. ASSUME NEW c \in Clients, Reconnect(c) PROVE IInv'
  <2>1. c = current /\ c \in created
    BY <1>5, ActiveIsCurrent DEF Reconnect
  <2> QED
    BY <1>5, <2>1 DEF Reconnect, Connect
<1>6. CASE UNCHANGED vars
  BY <1>6 DEF vars
<1> QED
  BY <1>1, <1>2, <1>3, <1>4, <1>5, <1>6 DEF Next

-----------------------------------------------------------------------------

LEMMA AlwaysIInv == Spec => []IInv
BY InitIInv, StepIInv, PTL DEF Spec

\* A client the page has left holds no connection and starts none
\* (sseClient.ts:64-78, ViewerPage.tsx:195-216).
THEOREM LeftClientsStayQuiet == Spec => []LeavesForGood
<1>1. IInv => LeavesForGood
  BY DEF IInv
<1> QED
  BY <1>1, AlwaysIInv, PTL

\* The client of a page has an EventSource or a timer, never both
\* (sseClient.ts:56-61,80-92).
THEOREM OneWayToTheStream == Spec => []KeepsTrying
<1>1. IInv => KeepsTrying
  BY DEF IInv
<1> QED
  BY <1>1, AlwaysIInv, PTL

\* The page's indicator is that of its current connection (playbackStore.ts:8-11).
THEOREM IndicatorIsTrue == Spec => []StatusOfCurrent
<1>1. IInv => StatusOfCurrent
  BY DEF IInv
<1> QED
  BY <1>1, AlwaysIInv, PTL

==============================================================================
