---------------------------- MODULE SessionProofs ----------------------------
(***************************************************************************)
(* Theorems about the creation of sessions, for any ids, friend keys and   *)
(* number of goroutines and attempts.                                      *)
(***************************************************************************)
EXTENDS SessionService, TLAPS

IInv == TypeOK /\ SessionsWhole /\ InsertsAlone

LEMMA InitInv == Init => IInv
  BY SessionAssumption, SQLiteAssumption
     DEF Init, IInv, TypeOK, SessionsWhole, Sessions, InsertsAlone, Creating, SIdle,
         LocksInit, LocksTypeOK, SnapStates, SessionRequests

\* What a step does to the request of q, and leaves of the others.
LEMMA SGotoMoves ==
    ASSUME TypeOK, NEW q \in TxReq, NEW state \in SessionRequests, SGoto(q, state)
    PROVE  /\ sreq' \in [TxReq -> SessionRequests]
           /\ sreq'[q] = state
           /\ \A p \in TxReq : p # q => sreq'[p] = sreq[p]
  BY DEF TypeOK, SGoto

\* The locals of a request that is creating a session.
LEMMA CreatingHas ==
    ASSUME TypeOK, NEW q \in TxReq, Creating(q)
    PROVE  /\ sreq[q].id \in Ids
           /\ sreq[q].at # "generate" => sreq[q].key \in Keys
  BY DEF TypeOK, Creating, SessionRequests

\* What the steps of the lock keep typed.
LEMMA SnapsTyped ==
    ASSUME LocksTypeOK, NEW q \in TxReq
    PROVE  /\ TxOpened(q) \in [TxReq -> SnapStates]
           /\ TxClosed(q) \in [TxReq -> SnapStates]
           /\ [Outdated EXCEPT ![q] = "none"] \in [TxReq -> SnapStates]
  BY DEF LocksTypeOK, TxOpened, TxClosed, Outdated, SnapStates

\* A step that ends q's request, with its lock if it had it, and changes no table.
LEMMA EndsKeepInv ==
    ASSUME IInv, NEW q \in TxReq, SGoto(q, SIdle),
           snap' \in [TxReq -> SnapStates],
           writer' = (IF writer = q THEN NoReq ELSE writer),
           UNCHANGED <<keyOf, configs>>,
           \/ UNCHANGED known
           \/ /\ sreq[q].at = "answer"
              /\ known' = known \cup {[session |-> sreq[q].id, key |-> sreq[q].key]}
    PROVE  IInv'
<1>1. SIdle \in SessionRequests
  BY DEF SIdle, SessionRequests
<1>2. /\ sreq' \in [TxReq -> SessionRequests]
      /\ sreq'[q].at = "idle"
      /\ \A p \in TxReq : p # q => sreq'[p] = sreq[p]
  BY <1>1, SGotoMoves DEF IInv, SIdle
<1>3. writer' \in TxReq \cup {NoReq} /\ writer' # q
  BY SQLiteAssumption DEF IInv, TypeOK, LocksTypeOK
<1>4. known' \subseteq [session : Ids, key : Keys]
  BY CreatingHas DEF IInv, TypeOK, Creating
<1>5. \A entry \in known' : keyOf'[entry.session] = entry.key
  BY DEF IInv, InsertsAlone
<1>6. TypeOK'
  BY <1>2, <1>3, <1>4 DEF IInv, TypeOK, LocksTypeOK
<1>7. SessionsWhole'
  BY DEF IInv, SessionsWhole, Sessions
<1>8. \A p \in TxReq : writer' = p <=> sreq'[p].at \in {"config", "commit", "other"}
  <2> SUFFICES ASSUME NEW p \in TxReq
               PROVE  writer' = p <=> sreq'[p].at \in {"config", "commit", "other"}
    OBVIOUS
  <2>1. CASE p = q
    BY <1>2, <1>3, <2>1
  <2>2. CASE p # q
    BY <1>2, <2>2, SQLiteAssumption DEF IInv, InsertsAlone
  <2> QED
    BY <2>1, <2>2
<1>9. InsertsAlone'
  BY <1>2, <1>5, <1>8 DEF IInv, InsertsAlone, Creating
<1> QED
  BY <1>6, <1>7, <1>9 DEF IInv

LEMMA StepInv == IInv /\ [Next]_vars => IInv'
<1> SUFFICES ASSUME IInv, [Next]_vars PROVE IInv'
  OBVIOUS
<1>n. NoReq \notin TxReq /\ NoKey \notin Keys
  BY SQLiteAssumption, SessionAssumption
<1>t. /\ DOMAIN sreq = TxReq
      /\ \A q \in TxReq : sreq[q] \in SessionRequests
      /\ snap \in [TxReq -> SnapStates]
  BY DEF IInv, TypeOK, LocksTypeOK
<1>1. ASSUME NEW q \in TxReq, CreateBegin(q) PROVE IInv'
  <2>1. PICK s \in Ids : ~ InUse(s) /\ SGoto(q, [at |-> "generate", id |-> s, attempts |-> 0])
    BY <1>1 DEF CreateBegin
  <2>2. [at |-> "generate", id |-> s, attempts |-> 0] \in SessionRequests
    BY DEF SessionRequests
  <2>3. /\ sreq' \in [TxReq -> SessionRequests]
        /\ sreq'[q].at = "generate" /\ sreq'[q].id = s
        /\ \A p \in TxReq : p # q => sreq'[p] = sreq[p]
    BY <2>1, <2>2, SGotoMoves DEF IInv
  <2>4. UNCHANGED <<keyOf, configs, known, snap, writer>> /\ sreq[q].at = "idle"
    BY <1>1 DEF CreateBegin
  <2>5. TypeOK' /\ SessionsWhole'
    BY <2>3, <2>4 DEF IInv, TypeOK, LocksTypeOK, SessionsWhole, Sessions
  <2>6. InsertsAlone'
    BY <2>1, <2>3, <2>4 DEF IInv, InsertsAlone, Creating, InUse
  <2> QED
    BY <2>5, <2>6 DEF IInv
<1>2. ASSUME NEW q \in TxReq, GenerateFriendKey(q) PROVE IInv'
  <2>1. PICK k \in Keys :
          \/ SGoto(q, [at |-> "insert", id |-> sreq[q].id, key |-> k])
          \/ SGoto(q, [sreq[q] EXCEPT !.attempts = @ + 1])
          \/ SGoto(q, SIdle)
    BY <1>2 DEF GenerateFriendKey
  <2>2. UNCHANGED <<keyOf, configs, known, snap, writer>> /\ sreq[q].at = "generate"
    BY <1>2 DEF GenerateFriendKey
  <2>3. sreq[q] \in [at : {"generate"}, id : Ids, attempts : Nat]
    BY <1>t, <2>2 DEF SessionRequests
  <2>4. ASSUME NEW state \in SessionRequests, SGoto(q, state),
               state.at \in {"generate", "insert"}, state.id = sreq[q].id
        PROVE  IInv'
    <3>1. /\ sreq' \in [TxReq -> SessionRequests]
          /\ sreq'[q] = state
          /\ \A p \in TxReq : p # q => sreq'[p] = sreq[p]
      BY <2>4, SGotoMoves DEF IInv
    <3>2. TypeOK' /\ SessionsWhole'
      BY <2>2, <3>1 DEF IInv, TypeOK, LocksTypeOK, SessionsWhole, Sessions
    <3>3. InsertsAlone'
      BY <2>2, <2>4, <3>1 DEF IInv, InsertsAlone, Creating
    <3> QED
      BY <3>2, <3>3 DEF IInv
  <2>5. [at |-> "insert", id |-> sreq[q].id, key |-> k] \in SessionRequests
    BY <2>3 DEF SessionRequests
  <2>6. [sreq[q] EXCEPT !.attempts = @ + 1] \in [at : {"generate"}, id : Ids, attempts : Nat]
    BY <2>3
  <2>7. [sreq[q] EXCEPT !.attempts = @ + 1].id = sreq[q].id
    BY <2>3
  <2>8. CASE SGoto(q, SIdle)
    <3>1. writer # q
      BY <2>2 DEF IInv, InsertsAlone
    <3> QED
      BY <1>t, <2>2, <2>8, <3>1, EndsKeepInv
  <2>9. [sreq[q] EXCEPT !.attempts = @ + 1] \in SessionRequests
    BY <2>6 DEF SessionRequests
  <2>10. CASE SGoto(q, [sreq[q] EXCEPT !.attempts = @ + 1])
    BY <2>4, <2>6, <2>7, <2>9, <2>10
  <2>11. CASE SGoto(q, [at |-> "insert", id |-> sreq[q].id, key |-> k])
    BY <2>4, <2>5, <2>11
  <2> QED
    BY <2>1, <2>8, <2>10, <2>11
<1>3. ASSUME NEW q \in TxReq, InsertSession(q) PROVE IInv'
  <2>1. /\ sreq[q].at = "insert" /\ writer = NoReq
        /\ UNCHANGED <<keyOf, configs, known>>
    BY <1>3 DEF InsertSession, WriteLockFree
  <2>2. sreq[q] \in [at : {"insert", "config", "commit", "answer"}, id : Ids, key : Keys]
    BY <1>t, <2>1 DEF SessionRequests
  <2>3. CASE FriendKeyExists(sreq[q].key)
    <3>1. SGoto(q, SIdle) /\ UNCHANGED <<snap, writer>>
      BY <1>3, <2>3 DEF InsertSession
    <3>2. writer # q
      BY <1>n, <2>1
    <3> QED
      BY <1>t, <2>1, <3>1, <3>2, EndsKeepInv
  <2>4. CASE ~ FriendKeyExists(sreq[q].key)
    <3>1. writer' = q /\ snap' = TxOpened(q) /\ SGoto(q, [sreq[q] EXCEPT !.at = "config"])
      BY <1>3, <2>4 DEF InsertSession
    <3>2. [sreq[q] EXCEPT !.at = "config"] \in
             [at : {"insert", "config", "commit", "answer"}, id : Ids, key : Keys]
      BY <2>2
    <3>3. [sreq[q] EXCEPT !.at = "config"] \in SessionRequests
      BY <3>2 DEF SessionRequests
    <3>4. /\ sreq' \in [TxReq -> SessionRequests]
          /\ sreq'[q] = [sreq[q] EXCEPT !.at = "config"]
          /\ \A p \in TxReq : p # q => sreq'[p] = sreq[p]
      BY <3>1, <3>3, SGotoMoves DEF IInv
    <3>5. sreq'[q].at = "config" /\ sreq'[q].id = sreq[q].id /\ sreq'[q].key = sreq[q].key
      BY <2>2, <3>4
    <3>6. \A s \in Ids : keyOf[s] # sreq[q].key
      BY <1>n, <2>2, <2>4 DEF FriendKeyExists, Sessions
    <3>7. TypeOK' /\ SessionsWhole'
      BY <1>t, <2>1, <3>1, <3>4, SnapsTyped
         DEF IInv, TypeOK, LocksTypeOK, SessionsWhole, Sessions
    <3>8. \A p \in TxReq : Creating(p)' => Creating(p) /\ sreq'[p].id = sreq[p].id
      BY <2>1, <3>4, <3>5 DEF Creating
    <3>9. ASSUME NEW p \in TxReq
          PROVE  /\ writer' = p <=> sreq'[p].at \in {"config", "commit", "other"}
                 /\ sreq'[p].at \in {"config", "commit"} => \A s \in Ids : keyOf[s] # sreq'[p].key
                 /\ sreq'[p].at \in {"generate", "insert", "config", "commit"} =>
                       keyOf[sreq'[p].id] = NoKey
                 /\ sreq'[p].at = "answer" => keyOf[sreq'[p].id] = sreq'[p].key
      <4>1. CASE p = q
        BY <2>1, <3>1, <3>5, <3>6, <4>1 DEF IInv, InsertsAlone
      <4>2. CASE p # q
        BY <1>n, <2>1, <3>1, <3>4, <4>2 DEF IInv, InsertsAlone
      <4> QED
        BY <4>1, <4>2
    <3>10. InsertsAlone'
      BY <2>1, <3>8, <3>9 DEF IInv, InsertsAlone
    <3> QED
      BY <3>7, <3>10 DEF IInv
  <2> QED
    BY <2>3, <2>4
<1>4. ASSUME NEW q \in TxReq, CreateFails(q) PROVE IInv'
  <2>1. TxClosed(q) \in [TxReq -> SnapStates]
    BY SnapsTyped DEF IInv, TypeOK
  <2> QED
    BY <1>4, <2>1, EndsKeepInv DEF CreateFails
<1>5. ASSUME NEW q \in TxReq, InsertConfig(q) PROVE IInv'
  <2>1. sreq[q].at = "config" /\ UNCHANGED <<keyOf, configs, known, snap, writer>>
    BY <1>5 DEF InsertConfig
  <2>2. sreq[q] \in [at : {"insert", "config", "commit", "answer"}, id : Ids, key : Keys]
    BY <1>t, <2>1 DEF SessionRequests
  <2>3. [sreq[q] EXCEPT !.at = "commit"] \in
           [at : {"insert", "config", "commit", "answer"}, id : Ids, key : Keys]
    BY <2>2
  <2>4. [sreq[q] EXCEPT !.at = "commit"] \in SessionRequests
    BY <2>3 DEF SessionRequests
  <2>5. /\ sreq' \in [TxReq -> SessionRequests]
        /\ sreq'[q] = [sreq[q] EXCEPT !.at = "commit"]
        /\ \A p \in TxReq : p # q => sreq'[p] = sreq[p]
    BY <1>5, <2>4, SGotoMoves DEF InsertConfig, IInv
  <2>6. sreq'[q].at = "commit" /\ sreq'[q].id = sreq[q].id /\ sreq'[q].key = sreq[q].key
    BY <2>2, <2>5
  <2>7. TypeOK' /\ SessionsWhole'
    BY <2>1, <2>5 DEF IInv, TypeOK, LocksTypeOK, SessionsWhole, Sessions
  <2>8. \A p \in TxReq : Creating(p)' => Creating(p) /\ sreq'[p].id = sreq[p].id
    BY <2>1, <2>5, <2>6 DEF Creating
  <2>9. ASSUME NEW p \in TxReq
        PROVE  /\ writer' = p <=> sreq'[p].at \in {"config", "commit", "other"}
               /\ sreq'[p].at \in {"config", "commit"} => \A s \in Ids : keyOf[s] # sreq'[p].key
               /\ sreq'[p].at \in {"generate", "insert", "config", "commit"} =>
                     keyOf[sreq'[p].id] = NoKey
               /\ sreq'[p].at = "answer" => keyOf[sreq'[p].id] = sreq'[p].key
    <3>1. CASE p = q
      BY <2>1, <2>6, <3>1 DEF IInv, InsertsAlone
    <3>2. CASE p # q
      BY <2>1, <2>5, <3>2 DEF IInv, InsertsAlone
    <3> QED
      BY <3>1, <3>2
  <2>10. InsertsAlone'
    BY <2>1, <2>8, <2>9 DEF IInv, InsertsAlone
  <2> QED
    BY <2>7, <2>10 DEF IInv
<1>6. ASSUME NEW q \in TxReq, CreateCommit(q) PROVE IInv'
  <2>1. /\ sreq[q].at = "commit"
        /\ keyOf' = [keyOf EXCEPT ![sreq[q].id] = sreq[q].key]
        /\ configs' = configs \cup {sreq[q].id}
        /\ snap' = [Outdated EXCEPT ![q] = "none"]
        /\ writer' = NoReq
        /\ known' = known
    BY <1>6 DEF CreateCommit
  <2>2. sreq[q] \in [at : {"insert", "config", "commit", "answer"}, id : Ids, key : Keys]
    BY <1>t, <2>1 DEF SessionRequests
  <2>3. [sreq[q] EXCEPT !.at = "answer"] \in
           [at : {"insert", "config", "commit", "answer"}, id : Ids, key : Keys]
    BY <2>2
  <2>4. [sreq[q] EXCEPT !.at = "answer"] \in SessionRequests
    BY <2>3 DEF SessionRequests
  <2>5. /\ sreq' \in [TxReq -> SessionRequests]
        /\ sreq'[q] = [sreq[q] EXCEPT !.at = "answer"]
        /\ \A p \in TxReq : p # q => sreq'[p] = sreq[p]
    BY <1>6, <2>4, SGotoMoves DEF CreateCommit, IInv
  <2>6. sreq'[q].at = "answer" /\ sreq'[q].id = sreq[q].id /\ sreq'[q].key = sreq[q].key
    BY <2>2, <2>5
  <2>7. writer = q /\ keyOf[sreq[q].id] = NoKey /\ \A s \in Ids : keyOf[s] # sreq[q].key
    BY <2>1 DEF IInv, InsertsAlone
  <2>8. /\ keyOf' \in [Ids -> Keys \cup {NoKey}]
        /\ keyOf'[sreq[q].id] = sreq[q].key
        /\ \A s \in Ids : s # sreq[q].id => keyOf'[s] = keyOf[s]
    BY <2>1, <2>2 DEF IInv, TypeOK
  <2>9. TypeOK'
    BY <1>n, <2>1, <2>2, <2>5, <2>8, SnapsTyped DEF IInv, TypeOK, LocksTypeOK
  <2>10. SessionsWhole'
    BY <1>n, <2>1, <2>2, <2>8 DEF IInv, SessionsWhole, Sessions
  <2>11. \A p \in TxReq : p # q =>
            /\ sreq[p].at \notin {"config", "commit", "other"}
            /\ Creating(p) => sreq[p].id \in Ids /\ sreq[p].id # sreq[q].id
    BY <2>1, <2>7, CreatingHas DEF IInv, InsertsAlone, Creating
  <2>12. \A entry \in known : entry.session \in Ids /\ entry.key \in Keys
    BY DEF IInv, TypeOK
  <2>13. InsertsAlone'
    BY <1>n, <2>1, <2>2, <2>5, <2>6, <2>7, <2>8, <2>11, <2>12 DEF IInv, InsertsAlone, Creating
  <2> QED
    BY <2>9, <2>10, <2>13 DEF IInv
<1>7. ASSUME NEW q \in TxReq, CreateAnswer(q) PROVE IInv'
  <2>1. writer # q
    BY <1>7 DEF CreateAnswer, IInv, InsertsAlone
  <2> QED
    BY <1>t, <1>7, <2>1, EndsKeepInv DEF CreateAnswer
<1>8. ASSUME NEW k \in Keys, Join(k) PROVE IInv'
  <2>1. /\ \E s \in Sessions : keyOf[s] = k /\ known' = known \cup {[session |-> s, key |-> k]}
        /\ UNCHANGED <<keyOf, configs, sreq, snap, writer>>
    BY <1>8 DEF Join
  <2> QED
    BY <2>1 DEF IInv, TypeOK, LocksTypeOK, SessionsWhole, Sessions, InsertsAlone, Creating
<1>9. ASSUME RejoinOrGet PROVE IInv'
  <2>1. PICK entry \in known :
          entry.session \in Sessions /\ known' = known \cup {Told(entry.session)}
    BY <1>9 DEF RejoinOrGet
  <2>2. UNCHANGED <<keyOf, configs, sreq, snap, writer>>
    BY <1>9 DEF RejoinOrGet
  <2>3. Told(entry.session) \in [session : Ids, key : Keys]
    BY <2>1 DEF Told, Sessions, IInv, TypeOK
  <2> QED
    BY <2>1, <2>2, <2>3
       DEF IInv, TypeOK, LocksTypeOK, SessionsWhole, Sessions, InsertsAlone, Creating, Told
<1>10. ASSUME NEW q \in TxReq, OtherWrites(q) PROVE IInv'
  <2>1. /\ sreq[q].at = "idle" /\ writer = NoReq /\ writer' = q /\ snap' = TxOpened(q)
        /\ SGoto(q, [at |-> "other"])
        /\ UNCHANGED <<keyOf, configs, known>>
    BY <1>10 DEF OtherWrites, WriteLockFree
  <2>2. [at |-> "other"] \in SessionRequests
    BY DEF SessionRequests
  <2>3. /\ sreq' \in [TxReq -> SessionRequests]
        /\ sreq'[q].at = "other"
        /\ \A p \in TxReq : p # q => sreq'[p] = sreq[p]
    BY <2>1, <2>2, SGotoMoves DEF IInv
  <2>4. TypeOK' /\ SessionsWhole'
    BY <2>1, <2>3, SnapsTyped DEF IInv, TypeOK, LocksTypeOK, SessionsWhole, Sessions
  <2>5. InsertsAlone'
    BY <1>n, <2>1, <2>3 DEF IInv, InsertsAlone, Creating
  <2> QED
    BY <2>4, <2>5 DEF IInv
<1>11. ASSUME NEW q \in TxReq, OtherEnds(q) PROVE IInv'
  <2>1. writer = q
    BY <1>11 DEF OtherEnds, IInv, InsertsAlone
  <2>2. TxClosed(q) \in [TxReq -> SnapStates]
    BY SnapsTyped DEF IInv, TypeOK
  <2> QED
    BY <1>11, <2>1, <2>2, EndsKeepInv DEF OtherEnds
<1>12. ASSUME Restart PROVE IInv'
  BY <1>n, <1>12
     DEF Restart, IInv, TypeOK, LocksTypeOK, SnapStates, SessionsWhole, Sessions, InsertsAlone,
         Creating, SIdle, SessionRequests
<1>13. ASSUME UNCHANGED vars PROVE IInv'
  BY <1>13 DEF vars, IInv, TypeOK, LocksTypeOK, SessionsWhole, Sessions, InsertsAlone, Creating
<1> QED
  BY <1>1, <1>2, <1>3, <1>4, <1>5, <1>6, <1>7, <1>8, <1>9, <1>10, <1>11, <1>12, <1>13
     DEF Next, SProceed, InsertTimesOut

\* The invariant of the creation of sessions (session.go:45-96).
THEOREM SessionInvariant == Spec => []IInv
<1> QED
  BY InitInv, StepInv, PTL DEF Spec

\* A session is there with its room configuration or not at all, for any number of
\* requests, failures and restarts (session.go:33-37,59-92).
THEOREM SessionsAreWhole == Spec => []SessionsWhole
<1>1. IInv => SessionsWhole
  BY DEF IInv
<1> QED
  BY <1>1, SessionInvariant, PTL

-----------------------------------------------------------------------------

LEMMA BookInit == Init => BookSpec!Init
  BY DEF Init, BookSpec!Init

LEMMA BookStep == IInv /\ [Next]_vars => [BookSpec!Next]_<<keyOf, known>>
<1> SUFFICES ASSUME IInv, [Next]_vars
             PROVE  BookSpec!Next \/ UNCHANGED <<keyOf, known>>
  OBVIOUS
<1>n. NoKey \notin Keys
  BY SessionAssumption
<1>1. ASSUME NEW q \in TxReq, CreateCommit(q) PROVE BookSpec!Next
  <2>1. /\ sreq[q].at = "commit"
        /\ keyOf' = [keyOf EXCEPT ![sreq[q].id] = sreq[q].key]
        /\ UNCHANGED known
    BY <1>1 DEF CreateCommit
  <2>2. sreq[q].id \in Ids /\ sreq[q].key \in Keys
    BY <2>1, CreatingHas DEF IInv, Creating
  <2>3. keyOf[sreq[q].id] = NoKey /\ \A t \in Ids : keyOf[t] # sreq[q].key
    BY <2>1 DEF IInv, InsertsAlone
  <2>4. BookSpec!Register(sreq[q].id, sreq[q].key)
    BY <2>1, <2>3 DEF BookSpec!Register
  <2> QED
    BY <2>2, <2>4 DEF BookSpec!Next
<1>2. ASSUME NEW q \in TxReq, CreateAnswer(q) PROVE BookSpec!Next
  <2>1. sreq[q].at = "answer" /\ UNCHANGED keyOf
        /\ known' = known \cup {[session |-> sreq[q].id, key |-> sreq[q].key]}
    BY <1>2 DEF CreateAnswer
  <2>2. sreq[q].id \in Ids /\ sreq[q].key \in Keys
    BY <2>1, CreatingHas DEF IInv, Creating
  <2>3. keyOf[sreq[q].id] = sreq[q].key
    BY <2>1 DEF IInv, InsertsAlone
  <2>4. BookSpec!Tell(sreq[q].id)
    BY <1>n, <2>1, <2>2, <2>3 DEF BookSpec!Tell, BookSpec!Entry
  <2> QED
    BY <2>2, <2>4 DEF BookSpec!Next
<1>3. ASSUME NEW k \in Keys, Join(k) PROVE BookSpec!Next
  <2>1. PICK s \in Sessions :
          keyOf[s] = k /\ known' = known \cup {[session |-> s, key |-> k]}
    BY <1>3 DEF Join
  <2>2. s \in Ids /\ keyOf[s] # NoKey /\ UNCHANGED keyOf
    BY <1>3, <2>1 DEF Join, Sessions
  <2>3. BookSpec!Tell(s)
    BY <2>1, <2>2 DEF BookSpec!Tell, BookSpec!Entry
  <2> QED
    BY <2>2, <2>3 DEF BookSpec!Next
<1>4. ASSUME RejoinOrGet PROVE BookSpec!Next
  <2>1. PICK entry \in known :
          entry.session \in Sessions /\ known' = known \cup {Told(entry.session)}
    BY <1>4 DEF RejoinOrGet
  <2>2. entry.session \in Ids /\ keyOf[entry.session] # NoKey /\ UNCHANGED keyOf
    BY <1>4, <2>1 DEF RejoinOrGet, Sessions
  <2>3. BookSpec!Tell(entry.session)
    BY <2>1, <2>2 DEF BookSpec!Tell, BookSpec!Entry, Told
  <2> QED
    BY <2>2, <2>3 DEF BookSpec!Next
<1>5. ASSUME NEW q \in TxReq,
             \/ CreateBegin(q) \/ GenerateFriendKey(q) \/ InsertSession(q)
             \/ InsertConfig(q) \/ CreateFails(q) \/ OtherWrites(q) \/ OtherEnds(q)
      PROVE  UNCHANGED <<keyOf, known>>
  BY <1>5 DEF CreateBegin, GenerateFriendKey, InsertSession, InsertConfig, CreateFails,
              OtherWrites, OtherEnds
<1>6. ASSUME Restart \/ UNCHANGED vars PROVE UNCHANGED <<keyOf, known>>
  BY <1>6 DEF Restart, vars
<1> QED
  BY <1>1, <1>2, <1>3, <1>4, <1>5, <1>6 DEF Next, SProceed, InsertTimesOut

\* Whatever requests, failures and restarts there are, the sessions are a book that gives
\* each its own friend key and only grows, and clients are told what stands in it
\* (session.go:45-96).
THEOREM ServiceKeepsBook == Spec => KeepsBook
<1>1. Spec => []IInv
  BY SessionInvariant
<1> QED
  BY <1>1, BookInit, BookStep, PTL DEF Spec, KeepsBook, BookSpec!Spec, BookSpec!bookVars

================================================================================
