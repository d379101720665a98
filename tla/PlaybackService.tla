--------------------------- MODULE PlaybackService ---------------------------
(***************************************************************************)
(* services/playback.go: the goroutines that serve play, next, prev and    *)
(* the viewers' video-ended signals of one room.  Every statement is its   *)
(* own transaction, so whatever was read can be out of date when it is     *)
(* used.  preq[p] holds the locals that live from one statement, lock or   *)
(* broadcast to the next.  What reaches the viewers is in ViewerSync;      *)
(* pause only broadcasts to their players and is left out.                 *)
(***************************************************************************)
EXTENDS RoomStore

CONSTANTS
    PReq,           \* the goroutines that serve playback requests
    PCommands,      \* the playback requests the clients of a run send
    DebounceDur,    \* s.debounceDur, in clock ticks
    MaxClock        \* bound: the clock stops here

ASSUME PlaybackAssumption ==
    /\ NoReq \notin PReq
    /\ PCommands \subseteq {"play", "next", "prev", "video-ended"}
    /\ DebounceDur \in Nat \ {0}
    /\ MaxClock \in Nat

VARIABLES
    preq,           \* what each playback goroutine is doing
    mu,             \* the goroutine that holds s.mu
    lastAdvance,    \* s.lastAdvance[sessionID]; Never when there is no entry
    clock           \* time.Now()

playbackVars == <<preq, mu, lastAdvance, clock>>

Never == -1

PlaybackRequests ==
         [at : {"idle", "lock", "check", "advance", "notifyBoth", "notifyConfig"}]
    \cup [at : {"stamp"}, now : Nat]
    \cup [at : {"lookup", "playLookup"}, target : Nat]
    \cup [at : {"update"}, target : Nat, item : Items]
    \cup [at : {"load"}, item : Items]

PlaybackTypeOK ==
    /\ preq \in [PReq -> PlaybackRequests]
    /\ mu \in PReq \cup {NoReq}
    /\ lastAdvance \in Nat \cup {Never}
    /\ clock \in Nat

PIdle == [at |-> "idle"]

PlaybackInit ==
    /\ preq = [p \in PReq |-> PIdle]
    /\ mu = NoReq
    /\ lastAdvance = Never
    /\ clock = 0

\* A request arrives at an idle goroutine.
PAccept(p, command) == command \in PCommands /\ preq[p].at = "idle"

PGoto(p, state) == preq' = [preq EXCEPT ![p] = state]

-----------------------------------------------------------------------------
(* VideoEnded: the debounce under s.mu.                                    *)

\* Mutant: no mutex.
Lock_NotTaken(p) == mu' = NoReq

Lock(p) == mu = NoReq /\ mu' = p

Ended(p) ==
    /\ PAccept(p, "video-ended")
    /\ PGoto(p, [at |-> "lock"])
    /\ UNCHANGED <<mu, lastAdvance, clock, storeVars>>

EndedLock(p) ==
    /\ preq[p].at = "lock"
    /\ Lock(p)
    /\ PGoto(p, [at |-> "check"])
    /\ UNCHANGED <<lastAdvance, clock, storeVars>>

\* Mutant: every signal advances.
Debounced_Never == FALSE

Debounced == lastAdvance # Never /\ clock - lastAdvance < DebounceDur

\* Mutant: a debounced signal returns without s.mu.Unlock().
EndedCheck_NoUnlock(p) ==
    /\ preq[p].at = "check"
    /\ UNCHANGED mu
    /\ PGoto(p, IF Debounced THEN PIdle ELSE [at |-> "stamp", now |-> clock])
    /\ UNCHANGED <<lastAdvance, clock, storeVars>>

EndedCheck(p) ==
    /\ preq[p].at = "check"
    /\ IF Debounced
         THEN mu' = NoReq /\ PGoto(p, PIdle)
         ELSE UNCHANGED mu /\ PGoto(p, [at |-> "stamp", now |-> clock])
    /\ UNCHANGED <<lastAdvance, clock, storeVars>>

EndedStamp(p) ==
    /\ preq[p].at = "stamp"
    /\ lastAdvance' = preq[p].now
    /\ mu' = NoReq
    /\ PGoto(p, [at |-> "advance"])
    /\ UNCHANGED <<clock, storeVars>>

-----------------------------------------------------------------------------
(* advance: next, prev, and an accepted video-ended signal.                *)

\* Mutant: prev at the first item goes to -1.
AtLeastZero_NoClamp(n) == n

AtLeastZero(n) == IF n < 0 THEN 0 ELSE n

Advance(p, delta) ==
    /\ PGoto(p, [at |-> "lookup", target |-> AtLeastZero(curIdx + delta)])
    /\ UNCHANGED <<mu, lastAdvance, clock, storeVars>>

NextOrPrev(p) ==
    \/ PAccept(p, "next") /\ Advance(p, 1)
    \/ PAccept(p, "prev") /\ Advance(p, -1)

EndedAdvance(p) ==
    /\ preq[p].at = "advance"
    /\ Advance(p, 1)

AdvanceLookup(p) ==
    /\ preq[p].at = "lookup"
    /\ \E found \in FetchedAt(preq[p].target) :
          PGoto(p, IF found = NoItem THEN PIdle
                   ELSE [at |-> "update", target |-> preq[p].target, item |-> found])
    /\ UNCHANGED <<mu, lastAdvance, clock, storeVars>>

AdvanceUpdate(p) ==
    /\ preq[p].at = "update"
    /\ WriteLockFree
    /\ curIdx' = preq[p].target
    /\ snap' = Outdated
    /\ behind' = behind \cup {"config"}
    /\ PGoto(p, [at |-> "load", item |-> preq[p].item])
    /\ UNCHANGED <<mu, lastAdvance, clock, pos, used, writer>>

\* The load event, of advance and of playOrLoad.
Load(p) ==
    /\ preq[p].at = "load"
    /\ PGoto(p, [at |-> "notifyBoth"])
    /\ UNCHANGED <<mu, lastAdvance, clock, storeVars>>

-----------------------------------------------------------------------------
(* play.                                                                   *)

PlayRead(p) ==
    /\ PAccept(p, "play")
    /\ PGoto(p, [at |-> "playLookup", target |-> curIdx])
    /\ UNCHANGED <<mu, lastAdvance, clock, storeVars>>

PlayLookup(p) ==
    /\ preq[p].at = "playLookup"
    /\ \E found \in FetchedAt(preq[p].target) :
          PGoto(p, IF found = NoItem THEN PIdle ELSE [at |-> "load", item |-> found])
    /\ UNCHANGED <<mu, lastAdvance, clock, storeVars>>

-----------------------------------------------------------------------------
(* broadcastQueueUpdated and broadcastConfigUpdated.                       *)

\* Mutant: playback announces the queue only.
PNotifyQueue_QueueOnly(p) ==
    /\ preq[p].at = "notifyBoth"
    /\ behind' = behind \ {"queue"}
    /\ PGoto(p, PIdle)
    /\ UNCHANGED <<mu, lastAdvance, clock, pos, used, curIdx, snap, writer>>

PNotifyQueue(p) ==
    /\ preq[p].at = "notifyBoth"
    /\ behind' = behind \ {"queue"}
    /\ PGoto(p, [at |-> "notifyConfig"])
    /\ UNCHANGED <<mu, lastAdvance, clock, pos, used, curIdx, snap, writer>>

PNotifyConfig(p) ==
    /\ preq[p].at = "notifyConfig"
    /\ behind' = behind \ {"config"}
    /\ PGoto(p, PIdle)
    /\ UNCHANGED <<mu, lastAdvance, clock, pos, used, curIdx, snap, writer>>

\* A statement fails: the lock was not free in time, or the context is
\* cancelled.  An accepted video-ended signal stays stamped.
PlaybackFails(p) ==
    /\ preq[p].at \in {"advance", "lookup", "playLookup", "update"}
    /\ PGoto(p, PIdle)
    /\ UNCHANGED <<mu, lastAdvance, clock, storeVars>>

Tick ==
    /\ clock < MaxClock
    /\ clock' = clock + 1
    /\ UNCHANGED <<preq, mu, lastAdvance, storeVars>>

-----------------------------------------------------------------------------

\* What a request does once it has started.
PProceed(p) ==
    \/ EndedLock(p)
    \/ EndedCheck(p)
    \/ EndedStamp(p)
    \/ EndedAdvance(p)
    \/ AdvanceLookup(p)
    \/ AdvanceUpdate(p)
    \/ Load(p)
    \/ PlayLookup(p)
    \/ PNotifyQueue(p)
    \/ PNotifyConfig(p)
    \/ PlaybackFails(p)

PNext ==
    \/ \E p \in PReq :
          \/ Ended(p)
          \/ NextOrPrev(p)
          \/ PlayRead(p)
          \/ PProceed(p)
    \/ Tick

=============================================================================
