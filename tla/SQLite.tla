-------------------------------- MODULE SQLite --------------------------------
(***************************************************************************)
(* The locks and snapshots of the SQLite database the services share.      *)
(*                                                                         *)
(* The database runs in WAL mode over a pool of connections                *)
(* (database.New).  A reader never waits and sees the last commit.  There  *)
(* is one writer at a time.  A statement outside a transaction waits for   *)
(* the write lock (a bounded time, after which it fails) and commits by    *)
(* itself.  A transaction that has read keeps its snapshot, and its first  *)
(* write fails at once when another connection holds the lock or has       *)
(* committed since the snapshot was taken (SQLITE_BUSY_SNAPSHOT).          *)
(***************************************************************************)
EXTENDS Integers

CONSTANTS
    TxReq,      \* the goroutines whose requests may run a transaction
    NoReq       \* no goroutine

ASSUME SQLiteAssumption == NoReq \notin TxReq

VARIABLES
    snap,       \* the snapshot of each goroutine's transaction
    writer      \* the goroutine whose transaction holds the write lock

SnapStates == {"none", "fresh", "stale"}

LocksTypeOK ==
    /\ snap \in [TxReq -> SnapStates]
    /\ writer \in TxReq \cup {NoReq}

LocksInit ==
    /\ snap = [q \in TxReq |-> "none"]
    /\ writer = NoReq

WriteLockFree == writer = NoReq

\* A transaction that begins and reads.
TxOpened(q) == [snap EXCEPT ![q] = "fresh"]

\* The snapshots after a commit: every other open one is out of date.
Outdated == [q \in TxReq |-> IF snap[q] = "none" THEN "none" ELSE "stale"]

\* Mutant: the snapshot is not looked at (READ COMMITTED).
TxMayWrite_NoSnapshotCheck(q) == WriteLockFree

\* The first write of q's transaction: it neither waits for the lock nor
\* writes over what was committed since the snapshot.
TxMayWrite(q) == WriteLockFree /\ snap[q] = "fresh"

\* The transaction of q ends, by commit or rollback.
TxClosed(q) == [snap EXCEPT ![q] = "none"]

===============================================================================
