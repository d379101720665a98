----------------------------- MODULE FixedWindow -----------------------------
(***************************************************************************)
(* What the rate limiter promises (middleware/ratelimit.go:17-20): a fixed *)
(* window per address.  The first request of an address opens a window;    *)
(* Quota requests are admitted until it ends, the others are rejected, and *)
(* nothing but time ends it.                                               *)
(***************************************************************************)
EXTENDS Integers

CONSTANTS IPs, Quota, Window, MaxTime

VARIABLES
    now,
    open,       \* the windows that are open: address -> requests admitted and last instant
    answer      \* the last request and its answer

fwVars == <<now, open, answer>>

Windows == [admitted : 1..Quota, until : Nat]

Init ==
    /\ now = 0
    /\ open = [ip \in {} |-> 0]
    /\ answer = [ip |-> "nobody", allowed |-> TRUE]

SetWindow(ip, w) ==
    open' = [x \in DOMAIN open \cup {ip} |-> IF x = ip THEN w ELSE open[x]]

Open(ip) ==
    /\ ip \notin DOMAIN open
    /\ SetWindow(ip, [admitted |-> 1, until |-> now + Window])
    /\ answer' = [ip |-> ip, allowed |-> TRUE]
    /\ UNCHANGED now

Admit(ip) ==
    /\ ip \in DOMAIN open
    /\ open[ip].admitted < Quota
    /\ SetWindow(ip, [admitted |-> open[ip].admitted + 1, until |-> open[ip].until])
    /\ answer' = [ip |-> ip, allowed |-> TRUE]
    /\ UNCHANGED now

Reject(ip) ==
    /\ ip \in DOMAIN open
    /\ open[ip].admitted >= Quota
    /\ answer' = [ip |-> ip, allowed |-> FALSE]
    /\ UNCHANGED <<now, open>>

\* Time passes; the windows whose last instant is gone are closed.
Tick ==
    /\ now < MaxTime
    /\ now' = now + 1
    /\ open' = [ip \in {x \in DOMAIN open : open[x].until >= now + 1} |-> open[ip]]
    /\ UNCHANGED answer

Next == Tick \/ \E ip \in IPs : Open(ip) \/ Admit(ip) \/ Reject(ip)

Spec == Init /\ [][Next]_fwVars

=============================================================================
