---------------------------- MODULE SessionService ----------------------------
(***************************************************************************)
(* services/session.go and friendkey.go: the goroutines that create        *)
(* sessions, next to requests of other services that write to the same     *)
(* database.  sreq[q] holds the locals of Create; rows inserted and not    *)
(* yet committed live there too.  Friend keys are taken up to case and     *)
(* surrounding blanks: NormalizeFriendKey and the LOWER of the queries map *)
(* every spelling to the same key, and generated keys are in lower case.   *)
(* Requests the handlers refuse (password, token, empty key) change        *)
(* nothing and are left out; so is the expiry of tokens.                   *)
(***************************************************************************)
EXTENDS SQLite

CONSTANTS
    Ids,            \* the ids uuid.New() can hand out
    Keys,           \* the friend keys petname and the number can make
    NoKey,          \* no row
    MaxAttempts     \* the attempts GenerateFriendKey makes

ASSUME SessionAssumption ==
    /\ NoKey \notin Keys
    /\ MaxAttempts \in Nat \ {0}

VARIABLES
    keyOf,      \* sessions: the friend_join_key of each row, NoKey without a row
    configs,    \* room_config: the sessions that have a row
    sreq,       \* what each goroutine is doing
    known       \* what clients were told: the session and its friend key

vars == <<keyOf, configs, sreq, known, snap, writer>>

Sessions == {s \in Ids : keyOf[s] # NoKey}

SessionRequests ==
         [at : {"idle", "other"}]
    \cup [at : {"generate"}, id : Ids, attempts : Nat]
    \cup [at : {"insert", "config", "commit", "answer"}, id : Ids, key : Keys]

TypeOK ==
    /\ keyOf \in [Ids -> Keys \cup {NoKey}]
    /\ configs \subseteq Ids
    /\ sreq \in [TxReq -> SessionRequests]
    /\ known \subseteq [session : Ids, key : Keys]
    /\ LocksTypeOK

SIdle == [at |-> "idle"]

Init ==
    /\ keyOf = [s \in Ids |-> NoKey]
    /\ configs = {}
    /\ sreq = [q \in TxReq |-> SIdle]
    /\ known = {}
    /\ LocksInit

SGoto(q, state) == sreq' = [sreq EXCEPT ![q] = state]

Creating(q) == sreq[q].at \in {"generate", "insert", "config", "commit", "answer"}

\* uuid.New() hands out no id twice.
InUse(s) == keyOf[s] # NoKey \/ \E q \in TxReq : Creating(q) /\ sreq[q].id = s

-----------------------------------------------------------------------------
(* Create: the key is looked up before the transaction that inserts it.    *)

CreateBegin(q) ==
    /\ sreq[q].at = "idle"
    /\ \E s \in Ids : ~ InUse(s) /\ SGoto(q, [at |-> "generate", id |-> s, attempts |-> 0])
    /\ UNCHANGED <<keyOf, configs, known, snap, writer>>

\* FriendKeyExists sees what is committed.
FriendKeyExists(k) == \E s \in Sessions : keyOf[s] = k

\* Mutant: an attempt that collides is not counted.
GenerateFriendKey_Uncounted(q) ==
    /\ sreq[q].at = "generate"
    /\ \E k \in Keys :
          IF FriendKeyExists(k) THEN SGoto(q, sreq[q])
          ELSE SGoto(q, [at |-> "insert", id |-> sreq[q].id, key |-> k])
    /\ UNCHANGED <<keyOf, configs, known, snap, writer>>

\* One attempt: a random key; taken, it is tried again, a bounded number of times.
GenerateFriendKey(q) ==
    /\ sreq[q].at = "generate"
    /\ \E k \in Keys :
          \/ /\ ~ FriendKeyExists(k)
             /\ SGoto(q, [at |-> "insert", id |-> sreq[q].id, key |-> k])
          \/ /\ FriendKeyExists(k)
             /\ SGoto(q, IF sreq[q].attempts + 1 < MaxAttempts
                         THEN [sreq[q] EXCEPT !.attempts = @ + 1] ELSE SIdle)
    /\ UNCHANGED <<keyOf, configs, known, snap, writer>>

\* Mutant: friend_join_key is not UNIQUE.
InsertSession_NotUnique(q) ==
    /\ sreq[q].at = "insert"
    /\ WriteLockFree
    /\ writer' = q
    /\ snap' = TxOpened(q)
    /\ SGoto(q, [sreq[q] EXCEPT !.at = "config"])
    /\ UNCHANGED <<keyOf, configs, known>>

\* The first statement of the transaction: it waits for the write lock and then sees
\* every commit.  A key that was taken meanwhile violates UNIQUE: the transaction is
\* rolled back and the request answered with an error.
InsertSession(q) ==
    /\ sreq[q].at = "insert"
    /\ WriteLockFree
    /\ IF FriendKeyExists(sreq[q].key)
         THEN SGoto(q, SIdle) /\ UNCHANGED <<snap, writer>>
         ELSE /\ writer' = q
              /\ snap' = TxOpened(q)
              /\ SGoto(q, [sreq[q] EXCEPT !.at = "config"])
    /\ UNCHANGED <<keyOf, configs, known>>

\* Mutant: the session is committed by itself.
InsertConfig_OwnCommit(q) ==
    /\ sreq[q].at = "config"
    /\ keyOf' = [keyOf EXCEPT ![sreq[q].id] = sreq[q].key]
    /\ SGoto(q, [sreq[q] EXCEPT !.at = "commit"])
    /\ UNCHANGED <<configs, known, snap, writer>>

InsertConfig(q) ==
    /\ sreq[q].at = "config"
    /\ SGoto(q, [sreq[q] EXCEPT !.at = "commit"])
    /\ UNCHANGED <<keyOf, configs, known, snap, writer>>

\* Both rows become visible.
CreateCommit(q) ==
    /\ sreq[q].at = "commit"
    /\ keyOf' = [keyOf EXCEPT ![sreq[q].id] = sreq[q].key]
    /\ configs' = configs \cup {sreq[q].id}
    /\ snap' = [Outdated EXCEPT ![q] = "none"]
    /\ writer' = NoReq
    /\ SGoto(q, [sreq[q] EXCEPT !.at = "answer"])
    /\ UNCHANGED known

CreateAnswer(q) ==
    /\ sreq[q].at = "answer"
    /\ known' = known \cup {[session |-> sreq[q].id, key |-> sreq[q].key]}
    /\ SGoto(q, SIdle)
    /\ UNCHANGED <<keyOf, configs, snap, writer>>

\* A statement fails or the client is gone: the deferred Rollback, and no answer.
\* After the commit the session stays, and nobody was told of it.
CreateFails(q) ==
    /\ Creating(q)
    /\ snap' = TxClosed(q)
    /\ writer' = IF writer = q THEN NoReq ELSE writer
    /\ SGoto(q, SIdle)
    /\ UNCHANGED <<keyOf, configs, known>>

\* The wait for the lock ends with the busy timeout.
InsertTimesOut(q) == sreq[q].at = "insert" /\ ~ WriteLockFree /\ CreateFails(q)

-----------------------------------------------------------------------------
(* Join reads one row by the key a friend types, Rejoin and Get read the   *)
(* row of the session in the client's token.                               *)

Told(s) == [session |-> s, key |-> keyOf[s]]

Join(k) ==
    /\ \E s \in Sessions : keyOf[s] = k /\ known' = known \cup {[session |-> s, key |-> k]}
    /\ UNCHANGED <<keyOf, configs, sreq, snap, writer>>

RejoinOrGet ==
    /\ \E entry \in known :
          entry.session \in Sessions /\ known' = known \cup {Told(entry.session)}
    /\ UNCHANGED <<keyOf, configs, sreq, snap, writer>>

-----------------------------------------------------------------------------

\* Another service's transaction takes the write lock, and ends.
OtherWrites(q) ==
    /\ sreq[q].at = "idle"
    /\ WriteLockFree
    /\ writer' = q
    /\ snap' = TxOpened(q)
    /\ SGoto(q, [at |-> "other"])
    /\ UNCHANGED <<keyOf, configs, known>>

OtherEnds(q) ==
    /\ sreq[q].at = "other"
    /\ writer' = NoReq
    /\ snap' = TxClosed(q)
    /\ SGoto(q, SIdle)
    /\ UNCHANGED <<keyOf, configs, known>>

\* The server goes down and comes up again: what is not committed is gone.
Restart ==
    /\ sreq' = [q \in TxReq |-> SIdle]
    /\ snap' = [q \in TxReq |-> "none"]
    /\ writer' = NoReq
    /\ UNCHANGED <<keyOf, configs, known>>

\* What a request does once it has started.
SProceed(q) ==
    \/ GenerateFriendKey(q)
    \/ InsertSession(q)
    \/ InsertTimesOut(q)
    \/ InsertConfig(q)
    \/ CreateCommit(q)
    \/ CreateAnswer(q)
    \/ OtherEnds(q)

Next ==
    \/ \E q \in TxReq :
          \/ CreateBegin(q)
          \/ SProceed(q)
          \/ CreateFails(q)
          \/ OtherWrites(q)
    \/ \E k \in Keys : Join(k)
    \/ RejoinOrGet
    \/ Restart

Spec == Init /\ [][Next]_vars

(***************************************************************************)
(* Fairness: the Go scheduler runs every goroutine that can run.  Nothing  *)
(* obliges a client to send a request, or a statement to fail.             *)
(***************************************************************************)
FairSpec == Spec /\ \A q \in TxReq : WF_vars(SProceed(q))

-----------------------------------------------------------------------------

\* A session is there with its room configuration or not at all, whatever fails or
\* crashes between the inserts: "This ensures the session and config are created
\* atomically" (session.go:33-37).
SessionsWhole == configs = Sessions

\* Two sessions never share a friend key, though the key is looked up before the
\* transaction that inserts it and two requests can pick the same one; no session is
\* lost or renamed, and nobody is told of one that is not there (session.go:45-96).
BookSpec == INSTANCE SessionBook WITH book <- keyOf, told <- known
KeepsBook == BookSpec!Spec

\* Every request ends, when all the keys are taken too: "it returns an error"
\* (friendkey.go:25-27).
CreatesEnd == \A q \in TxReq : sreq[q].at # "idle" ~> sreq[q].at = "idle"

\* The inductive invariant: who is inserting holds the lock, so that nobody commits the
\* same key in between; what is told stands in the table.
InsertsAlone ==
    /\ \A q \in TxReq : writer = q <=> sreq[q].at \in {"config", "commit", "other"}
    /\ \A q \in TxReq : sreq[q].at \in {"config", "commit"} =>
          \A s \in Ids : keyOf[s] # sreq[q].key
    /\ \A q \in TxReq : sreq[q].at \in {"generate", "insert", "config", "commit"} =>
          keyOf[sreq[q].id] = NoKey
    /\ \A q \in TxReq : sreq[q].at = "answer" => keyOf[sreq[q].id] = sreq[q].key
    /\ \A p, q \in TxReq : Creating(p) /\ Creating(q) /\ sreq[p].id = sreq[q].id => p = q
    /\ \A entry \in known : keyOf[entry.session] = entry.key

================================================================================
