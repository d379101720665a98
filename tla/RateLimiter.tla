----------------------------- MODULE RateLimiter -----------------------------
(***************************************************************************)
(* middleware/ratelimit.go: one visitor entry per client address, counted  *)
(* in a fixed window, and the goroutine that evicts the expired ones.      *)
(* rl.mu makes each of allow and a sweep of cleanup one step.  Requests    *)
(* come from their client or through proxies (nginx.conf), and clientIP    *)
(* finds the address to count them at.                                     *)
(***************************************************************************)
EXTENDS Integers, Sequences

CONSTANTS
    IPs,        \* addresses
    Trusted,    \* those in rl.trustedProxies
    NoIP,       \* a text that is no address, the empty one too
    MaxHops,    \* bound: the proxies a request passes
    MaxClaims,  \* bound: the addresses in the header a request is sent with
    Limit,      \* rl.limit: parseInt takes any integer, zero and negative too
    Window,     \* rl.window, in clock ticks
    MaxTime,    \* bound: the clock stops here
    MaxCount    \* bound: a count stays here, above any limit it is compared with

ASSUME LimiterAssumption ==
    /\ Trusted \subseteq IPs
    /\ NoIP \notin IPs
    /\ Limit \in Int
    /\ Window \in Nat \ {0}
    /\ MaxHops \in Nat
    /\ MaxClaims \in Nat
    /\ MaxTime \in Nat
    /\ MaxCount \in Nat \ {0}
    /\ MaxCount > Limit

VARIABLES
    now,        \* time.Now()
    visitors,   \* rl.visitors: address -> count and resetAt
    stopped,    \* rl.stop is closed
    answer      \* whose the last request was, and what allow returned

vars == <<now, visitors, stopped, answer>>

Known == DOMAIN visitors
Visitor == [count : 1..MaxCount, resetAt : Nat]

TypeOK ==
    /\ now \in Nat
    /\ Known \subseteq IPs
    /\ visitors \in [Known -> Visitor]
    /\ stopped \in BOOLEAN
    /\ answer \in [ip : IPs \cup {"nobody"}, allowed : BOOLEAN]

Init ==
    /\ now = 0
    /\ visitors = [ip \in {} |-> 0]
    /\ stopped = FALSE
    /\ answer = [ip |-> "nobody", allowed |-> TRUE]

-----------------------------------------------------------------------------
(* clientIP                                                                *)

Headers == UNION {[1..n -> IPs \cup {NoIP}] : n \in 0..MaxClaims}
Routes == UNION {[1..n -> Trusted] : n \in 0..MaxHops}

\* The request of client c as it reaches the server: with the X-Forwarded-For and
\* X-Real-IP it was sent with, or through proxies, each of which appends the address it
\* got the request from to the one and puts it into the other.
Received(c, claimed, real, proxies) ==
    IF proxies = <<>> THEN [remote |-> c, forwarded |-> claimed, real |-> real]
    ELSE LET n == Len(proxies) IN
         [remote    |-> proxies[n],
          forwarded |-> claimed \o <<c>> \o SubSeq(proxies, 1, n - 1),
          real      |-> IF n = 1 THEN c ELSE proxies[n - 1]]

Untrusted(req) == {k \in DOMAIN req.forwarded : req.forwarded[k] \in IPs \ Trusted}
Leftmost(req) == {k \in Untrusted(req) : \A j \in Untrusted(req) : k <= j}
Rightmost(req) == {k \in Untrusted(req) : \A j \in Untrusted(req) : j <= k}

\* Mutant: the chain is walked from the left.
ClientIP_Leftmost(req) ==
    IF req.remote \notin Trusted THEN req.remote
    ELSE IF Leftmost(req) # {} THEN req.forwarded[CHOOSE k \in Leftmost(req) : TRUE]
    ELSE IF req.real \in IPs THEN req.real
    ELSE req.remote

ClientIP(req) ==
    IF req.remote \notin Trusted THEN req.remote
    ELSE IF Rightmost(req) # {} THEN req.forwarded[CHOOSE k \in Rightmost(req) : TRUE]
    ELSE IF req.real \in IPs THEN req.real
    ELSE req.remote

-----------------------------------------------------------------------------
(* allow                                                                   *)

Expired(ip) == now > visitors[ip].resetAt

Store(ip, v) ==
    visitors' = [x \in Known \cup {ip} |-> IF x = ip THEN v ELSE visitors[x]]

\* Mutant: the window is never renewed.
StartsWindow_Never(ip) == ip \notin Known

StartsWindow(ip) == ip \in Known => Expired(ip)

\* Mutant: the request that starts a window is not counted.
AllowFirst_NotCounted(ip, client) ==
    /\ StartsWindow(ip)
    /\ Store(ip, [count |-> 0, resetAt |-> now + Window])
    /\ answer' = [ip |-> client, allowed |-> TRUE]
    /\ UNCHANGED <<now, stopped>>

\* A request that starts a window is allowed whatever the limit is.
AllowFirst(ip, client) ==
    /\ StartsWindow(ip)
    /\ Store(ip, [count |-> 1, resetAt |-> now + Window])
    /\ answer' = [ip |-> client, allowed |-> TRUE]
    /\ UNCHANGED <<now, stopped>>

\* v.count++
Counted(ip) == IF visitors[ip].count < MaxCount THEN visitors[ip].count + 1 ELSE MaxCount

\* Any other is counted, and allowed while the count is within the limit.
AllowCounted(ip, client) ==
    /\ ~ StartsWindow(ip)
    /\ Store(ip, [count |-> Counted(ip), resetAt |-> visitors[ip].resetAt])
    /\ answer' = [ip |-> client, allowed |-> Counted(ip) <= Limit]
    /\ UNCHANGED <<now, stopped>>

\* Whose request it is: a host that counts as a proxy speaks for the address it names.
Owner(c, req) == IF c \in Trusted THEN ClientIP(req) ELSE c

\* Handler
Handle(req, client) ==
    AllowFirst(ClientIP(req), client) \/ AllowCounted(ClientIP(req), client)

Request ==
    \E c \in IPs, claimed \in Headers, real \in IPs \cup {NoIP}, proxies \in Routes :
        LET req == Received(c, claimed, real, proxies) IN Handle(req, Owner(c, req))

-----------------------------------------------------------------------------

\* Mutants: a window is closed one instant early; the sweep drops nothing.
Evicted_Due == {ip \in Known : now >= visitors[ip].resetAt}
Evicted_None == {}

Evicted == {ip \in Known : Expired(ip)}

\* One sweep of cleanup.
Cleanup ==
    /\ ~ stopped
    /\ visitors' = [ip \in Known \ Evicted |-> visitors[ip]]
    /\ UNCHANGED <<now, stopped, answer>>

Stop ==
    /\ ~ stopped
    /\ stopped' = TRUE
    /\ UNCHANGED <<now, visitors, answer>>

Tick ==
    /\ now < MaxTime
    /\ now' = now + 1
    /\ UNCHANGED <<visitors, stopped, answer>>

Next ==
    \/ Request
    \/ Cleanup
    \/ Stop
    \/ Tick

Spec == Init /\ [][Next]_vars

\* The ticker of cleanup keeps firing.
FairSpec == Spec /\ WF_vars(Cleanup)

-----------------------------------------------------------------------------

\* What a window admits: the request that opens it, and the others up to the limit.
Quota == IF Limit >= 1 THEN Limit ELSE 1

Capped(n) == IF n > Quota THEN Quota ELSE n

\* The refinement mapping: the windows that are still open.
Live == {ip \in Known : ~ Expired(ip)}
OpenWindows ==
    [ip \in Live |-> [admitted |-> Capped(visitors[ip].count), until |-> visitors[ip].resetAt]]

FW == INSTANCE FixedWindow WITH open <- OpenWindows

\* The limiter is a fixed-window limiter per client: whatever proxies a client's requests
\* pass and whatever headers they come with, they are counted together and apart from
\* those of others; a sweep at any moment changes no answer, a client is admitted Quota
\* times from the first request of a window to its last instant, and rejected requests
\* do not prolong the window (ratelimit.go:17-20,65-148).
FixedWindowSpec == FW!Spec

\* An expired entry does not stay: a sweep drops it or a new request renews it, until the
\* limiter is stopped (ratelimit.go:82-85).
ExpiredEvicted ==
    \A ip \in IPs :
        ip \in Known /\ Expired(ip) ~> stopped \/ ip \notin Known \/ ~ Expired(ip)

=============================================================================
