------------------------------ MODULE RoomConfig ------------------------------
(***************************************************************************)
(* services/config.go: the goroutines that serve PATCH requests for the    *)
(* room configuration, next to the requests of other services that commit  *)
(* to the same database.  A PATCH reads the row, overwrites the fields it  *)
(* was sent and writes all of them back, in one transaction.  Requests the *)
(* handler refuses change nothing and are left out, and so is GET.         *)
(***************************************************************************)
EXTENDS SQLite

CONSTANTS
    Fields,         \* the columns a PATCH can set
    Values,
    Patches,        \* the requests of a run: functions from some fields to values
    Defaults,       \* the row of a new room
    Indexes,        \* values playback and reorder set current_index to
    FirstIndex,     \* current_index of a new room
    NoPatch, Applied

ASSUME ConfigAssumption ==
    /\ Patches \subseteq UNION {[S -> Values] : S \in SUBSET Fields}
    /\ Defaults \in [Fields -> Values]
    /\ FirstIndex \in Indexes
    /\ {NoPatch, Applied} \cap Patches = {}

VARIABLES
    config,     \* the columns of room_config a PATCH can set
    index,      \* room_config.current_index
    creq        \* what each goroutine is doing

vars == <<config, index, creq, snap, writer>>

ConfigRequests ==
         [at : {"idle", "notify", "respond"}]
    \cup [at : {"read"}, patch : Patches]
    \cup [at : {"write", "commit"}, patch : Patches, params : [Fields -> Values]]

TypeOK ==
    /\ config \in [Fields -> Values]
    /\ index \in Indexes
    /\ creq \in [TxReq -> ConfigRequests]
    /\ LocksTypeOK

Init ==
    /\ config = Defaults
    /\ index = FirstIndex
    /\ creq = [c \in TxReq |-> [at |-> "idle"]]
    /\ LocksInit

CGoto(c, state) == creq' = [creq EXCEPT ![c] = state]

-----------------------------------------------------------------------------

\* Mutant: the params are not filled from the current row.
Patched_OnlyPatch(row, patch) == patch

\* The params of the UPDATE: the current row with the non-nil fields of the request.
Patched(row, patch) == [f \in Fields |-> IF f \in DOMAIN patch THEN patch[f] ELSE row[f]]

PatchBegin(c) ==
    /\ creq[c].at = "idle"
    /\ \E patch \in Patches : CGoto(c, [at |-> "read", patch |-> patch])
    /\ UNCHANGED <<config, index, snap, writer>>

PatchRead(c) ==
    /\ creq[c].at = "read"
    /\ snap' = TxOpened(c)
    /\ CGoto(c, [at |-> "write", patch |-> creq[c].patch,
                 params |-> Patched(config, creq[c].patch)])
    /\ UNCHANGED <<config, index, writer>>

\* UpdateRoomConfig takes the write lock, or fails.
PatchWrite(c) ==
    /\ creq[c].at = "write"
    /\ TxMayWrite(c)
    /\ writer' = c
    /\ CGoto(c, [creq[c] EXCEPT !.at = "commit"])
    /\ UNCHANGED <<config, index, snap>>

PatchCommit(c) ==
    /\ creq[c].at = "commit"
    /\ config' = creq[c].params
    /\ snap' = [Outdated EXCEPT ![c] = "none"]
    /\ writer' = NoReq
    /\ CGoto(c, [at |-> "notify"])
    /\ UNCHANGED index

PatchNotify(c) ==
    /\ creq[c].at = "notify"
    /\ CGoto(c, [at |-> "respond"])
    /\ UNCHANGED <<config, index, snap, writer>>

\* The answer is read back outside the transaction, or that read fails.
PatchRespond(c) ==
    /\ creq[c].at = "respond"
    /\ CGoto(c, [at |-> "idle"])
    /\ UNCHANGED <<config, index, snap, writer>>

\* A statement fails and the deferred Rollback ends the transaction.
PatchFails(c) ==
    /\ creq[c].at \in {"read", "write", "commit"}
    /\ snap' = TxClosed(c)
    /\ writer' = IF writer = c THEN NoReq ELSE writer
    /\ CGoto(c, [at |-> "idle"])
    /\ UNCHANGED <<config, index>>

\* Playback or a reorder commits to the database, or any other service does.
OtherCommit ==
    /\ WriteLockFree
    /\ index' \in Indexes
    /\ snap' = Outdated
    /\ UNCHANGED <<config, creq, writer>>

\* The server goes down and comes up again.
Restart ==
    /\ creq' = [c \in TxReq |-> [at |-> "idle"]]
    /\ snap' = [c \in TxReq |-> "none"]
    /\ writer' = NoReq
    /\ UNCHANGED <<config, index>>

Next ==
    \/ \E c \in TxReq :
          \/ PatchBegin(c)
          \/ PatchRead(c)
          \/ PatchWrite(c)
          \/ PatchCommit(c)
          \/ PatchNotify(c)
          \/ PatchRespond(c)
          \/ PatchFails(c)
    \/ OtherCommit
    \/ Restart

Spec == Init /\ [][Next]_vars

-----------------------------------------------------------------------------

\* What is pending for a request of the specification.
Asked(request) ==
    IF request.at = "idle" THEN NoPatch
    ELSE IF request.at \in {"notify", "respond"} THEN Applied
    ELSE request.patch

Pending == [c \in TxReq |-> Asked(creq[c])]

PC == INSTANCE PatchedConfig WITH Reqs <- TxReq, pending <- Pending

\* Two PATCH requests that overlap, with each other, with an advance or a reorder, with
\* failures and a restart, act as if they had come one after the other: "two PATCH
\* requests arriving simultaneously could otherwise cause one update to be silently
\* lost" (config.go:48-57,86-104).
NoLostUpdate == PC!Spec

\* The inductive invariant behind it: what a transaction is about to write is the row
\* there is with its own fields on top, until its snapshot is outdated; the one that
\* holds the write lock has a snapshot that is not.
ParamsCurrent ==
    \A c \in TxReq :
        /\ snap[c] # "none" <=> creq[c].at \in {"write", "commit"}
        /\ writer = c <=> creq[c].at = "commit"
        /\ creq[c].at = "commit" => snap[c] = "fresh"
        /\ snap[c] = "fresh" => creq[c].params = Patched(config, creq[c].patch)

===============================================================================
