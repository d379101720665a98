------------------------------- MODULE Playlist -------------------------------
(***************************************************************************)
(* What the requests of one room promise their clients, whatever overlaps  *)
(* (services/queue.go:40-43,99-110, services/playback.go:119-128): each    *)
(* takes effect in one step, before it is announced and answered, and at   *)
(* most once; one that fails leaves nothing behind.  A reorder gives the   *)
(* rows it lists their places and takes the current row along, as if it    *)
(* had found the queue just then.  Next and prev go one position on or     *)
(* back from where the room was when they began, if a row is there.        *)
(***************************************************************************)
EXTENDS Integers, FiniteSets

CONSTANTS
    Items, NoItem,
    Admins,         \* who edits the queue
    Players         \* who moves the room on

VARIABLES
    pos,            \* the rows and their positions
    used,           \* the ids there ever were
    curIdx,
    edits, moves    \* what each one has asked for

vars == <<pos, used, curIdx, edits, moves>>

Rows == DOMAIN pos
None == [op |-> "none"]
Done == [op |-> "done"]

\* What a reorder of the rows in S may give each of them.
Places(S) == {place \in [S -> 0..(Cardinality(S) - 1)] :
                 \A i, j \in S : place[i] = place[j] => i = j}

At(n) == {i \in Rows : pos[i] = n}
Current == IF At(curIdx) = {} THEN {NoItem} ELSE At(curIdx)

Init ==
    /\ pos = [i \in {} |-> 0]
    /\ used = {}
    /\ curIdx = 0
    /\ edits = [q \in Admins |-> None]
    /\ moves = [p \in Players |-> None]

Asks(q, edit) ==
    /\ edits[q] = None
    /\ edits' = [edits EXCEPT ![q] = edit]
    /\ UNCHANGED <<pos, used, curIdx, moves>>

AskAdd(q) == Asks(q, [op |-> "add", at |-> Cardinality(Rows)])

\* follows: the current row could be read.
AskReorder(q) ==
    \E S \in SUBSET Items, follows \in BOOLEAN : \E place \in Places(S) :
        Asks(q, [op |-> "reorder", place |-> place, follows |-> follows])

\* q's edit takes effect.
Effect(q) == edits' = [edits EXCEPT ![q] = Done] /\ UNCHANGED moves

Add(q) ==
    /\ edits[q].op = "add"
    /\ \E i \in Items \ used :
          /\ pos' = [j \in Rows \cup {i} |-> IF j = i THEN edits[q].at ELSE pos[j]]
          /\ used' = used \cup {i}
    /\ Effect(q)
    /\ UNCHANGED curIdx

Rearrange(q) ==
    LET place == edits[q].place
    IN  /\ edits[q].op = "reorder"
        /\ pos' = [j \in Rows |-> IF j \in DOMAIN place THEN place[j] ELSE pos[j]]
        /\ IF edits[q].follows
             THEN \E i \in Current :
                     curIdx' = IF i \in DOMAIN place THEN place[i] ELSE curIdx
             ELSE UNCHANGED curIdx
        /\ Effect(q)
        /\ UNCHANGED used

Delete(q) ==
    /\ edits[q] = None
    /\ \E i \in used : pos' = [j \in Rows \ {i} |-> pos[j]]
    /\ Effect(q)
    /\ UNCHANGED <<used, curIdx>>

\* A marquee text; it is not part of this.
Label(q) == edits[q] = None /\ Effect(q) /\ UNCHANGED <<pos, used, curIdx>>

Move(p, from, to) ==
    /\ moves[p] = from
    /\ moves' = [moves EXCEPT ![p] = to]
    /\ UNCHANGED <<pos, used, edits>>

AskMove(p) ==
    /\ \E n \in {curIdx + 1, IF curIdx = 0 THEN 0 ELSE curIdx - 1} :
          Move(p, None, [op |-> "look", to |-> n])
    /\ UNCHANGED curIdx

Finds(p) ==
    /\ moves[p].op = "look"
    /\ At(moves[p].to) # {}
    /\ Move(p, moves[p], [moves[p] EXCEPT !.op = "go"])
    /\ UNCHANGED curIdx

Go(p) ==
    /\ moves[p].op = "go"
    /\ curIdx' = moves[p].to
    /\ Move(p, moves[p], Done)

\* Play sends the current video again.
Reload(p) == Move(p, None, Done) /\ UNCHANGED curIdx

\* Requests are answered, or fail, or are cut short by a restart.
End(S, T) ==
    /\ edits' = [q \in Admins |-> IF q \in S THEN None ELSE edits[q]]
    /\ moves' = [p \in Players |-> IF p \in T THEN None ELSE moves[p]]
    /\ UNCHANGED <<pos, used, curIdx>>

Next ==
    \/ \E q \in Admins :
          AskAdd(q) \/ AskReorder(q) \/ Add(q) \/ Rearrange(q) \/ Delete(q) \/ Label(q)
    \/ \E p \in Players : AskMove(p) \/ Finds(p) \/ Go(p) \/ Reload(p)
    \/ \E S \in SUBSET Admins, T \in SUBSET Players : End(S, T)

Spec == Init /\ [][Next]_vars

===============================================================================
