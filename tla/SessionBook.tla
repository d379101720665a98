------------------------------ MODULE SessionBook ------------------------------
(***************************************************************************)
(* What SessionService promises: a book that gives every session its own   *)
(* friend key, to which entries are only added, and clients that are told  *)
(* nothing but what stands in it.                                          *)
(***************************************************************************)
CONSTANTS Ids, Keys, NoKey

VARIABLES
    book,       \* the friend key of each session; NoKey while there is no session
    told        \* the entries clients were told

bookVars == <<book, told>>

Entry(s) == [session |-> s, key |-> book[s]]

Init ==
    /\ book = [s \in Ids |-> NoKey]
    /\ told = {}

\* A new session, under a key no session has.
Register(s, k) ==
    /\ book[s] = NoKey
    /\ \A t \in Ids : book[t] # k
    /\ book' = [book EXCEPT ![s] = k]
    /\ UNCHANGED told

Tell(s) ==
    /\ book[s] # NoKey
    /\ told' = told \cup {Entry(s)}
    /\ UNCHANGED book

Next == \E s \in Ids : Tell(s) \/ \E k \in Keys : Register(s, k)

Spec == Init /\ [][Next]_bookVars

================================================================================
