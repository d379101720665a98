-------------------------- MODULE RateLimiterProofs --------------------------
(***************************************************************************)
(* The rate limiter is a fixed-window limiter per client, for any          *)
(* addresses, proxies, limit, window and bounds.                           *)
(***************************************************************************)
EXTENDS RateLimiter, SequenceTheorems, TLAPS

(* Whose request it is                                                     *)

\* Whatever a request carries, it is counted at an address.
LEMMA CountedAtAnAddress ==
    ASSUME NEW req, req.remote \in IPs
    PROVE  ClientIP(req) \in IPs
<1>1. ASSUME NEW k \in Rightmost(req) PROVE req.forwarded[k] \in IPs
  BY <1>1 DEF Rightmost, Untrusted
<1>2. Rightmost(req) # {} => (CHOOSE k \in Rightmost(req) : TRUE) \in Rightmost(req)
  OBVIOUS
<1> QED
  BY <1>1, <1>2 DEF ClientIP

\* A request that comes from its client or through trusted proxies is counted at the
\* client's address.
LEMMA ClientIsFound ==
    ASSUME NEW c \in IPs \ Trusted, NEW claimed \in Headers, NEW real,
           NEW proxies \in Routes
    PROVE  ClientIP(Received(c, claimed, real, proxies)) = c
<1> USE LimiterAssumption
<1> DEFINE req == Received(c, claimed, real, proxies)
           m == Len(claimed) + 1
           n == Len(proxies)
<1>1. claimed \in Seq(IPs \cup {NoIP}) /\ proxies \in Seq(Trusted)
  BY DEF Headers, Routes
<1>2. CASE proxies = <<>>
  BY <1>2 DEF Received, ClientIP
<1>3. CASE proxies # <<>>
  <2>1. n \in Nat \ {0} /\ m \in Nat \ {0}
    BY <1>1, <1>3
  <2>2. req.remote \in Trusted
    BY <1>1, <1>3, <2>1 DEF Received
  <2>3. req.forwarded = claimed \o <<c>> \o SubSeq(proxies, 1, n - 1)
    BY <1>3 DEF Received
  <2>4. /\ DOMAIN req.forwarded = 1..(m + n - 1)
        /\ req.forwarded[m] = c
        /\ \A j \in (m + 1)..(m + n - 1) : req.forwarded[j] \in Trusted
    <3> DEFINE tail == SubSeq(proxies, 1, n - 1)
               head == claimed \o <<c>>
    <3>1. /\ tail \in Seq(Trusted) /\ tail \in Seq(IPs \cup {NoIP})
          /\ Len(tail) = n - 1
      <4>1. \A i \in 1..(n - 1) : proxies[i] \in Trusted /\ proxies[i] \in IPs \cup {NoIP}
        BY <1>1, <2>1
      <4>2. n - 1 \in Int /\ (1 <= n - 1 => n - 1 - 1 + 1 = n - 1) /\ (~ (1 <= n - 1) => n - 1 = 0)
        BY <2>1
      <4> HIDE DEF n
      <4> QED
        BY <4>1, <4>2, SubSeqProperties
    <3>2. head \in Seq(IPs \cup {NoIP}) /\ Len(head) = m /\ head[m] = c
      BY <1>1, <2>1
    <3> HIDE DEF tail, head
    <3>3. req.forwarded = head \o tail
      BY <2>3 DEF head, tail
    <3> HIDE DEF req, m, n
    <3>4. m \in Nat \ {0} /\ n \in Nat \ {0}
      BY <2>1
    <3>5. DOMAIN req.forwarded = 1..(m + n - 1)
      <4>1. Len(req.forwarded) = m + n - 1 /\ req.forwarded \in Seq(IPs \cup {NoIP})
        BY <3>1, <3>2, <3>3, <3>4, ConcatProperties
      <4> QED
        BY <4>1, LenProperties
    <3>6. req.forwarded[m] = c
      BY <3>1, <3>2, <3>3, <3>4
    <3>7. ASSUME NEW j \in (m + 1)..(m + n - 1) PROVE req.forwarded[j] \in Trusted
      <4>1. req.forwarded[j] = tail[j - m] /\ j - m \in 1..Len(tail)
        BY <3>1, <3>2, <3>3, <3>4
      <4> QED
        BY <3>1, <4>1
    <3> QED
      BY <3>5, <3>6, <3>7
  <2>5. m \in Untrusted(req) /\ \A j \in Untrusted(req) : j <= m
    BY <2>1, <2>4 DEF Untrusted
  <2>6. Rightmost(req) = {m}
    <3>1. Untrusted(req) \subseteq Nat
      BY <2>1, <2>4 DEF Untrusted
    <3> QED
      BY <2>1, <2>5, <3>1 DEF Rightmost
  <2> QED
    BY <2>2, <2>4, <2>6 DEF ClientIP
<1> QED
  BY <1>2, <1>3

\* A request is counted at its owner's address.
LEMMA CountedAtOwner ==
    ASSUME Request
    PROVE  \E ip \in IPs : AllowFirst(ip, ip) \/ AllowCounted(ip, ip)
<1> USE LimiterAssumption
<1> PICK c \in IPs, claimed \in Headers, real \in IPs \cup {NoIP}, proxies \in Routes :
        Handle(Received(c, claimed, real, proxies), Owner(c, Received(c, claimed, real, proxies)))
  BY DEF Request
<1> DEFINE req == Received(c, claimed, real, proxies)
<1>0. claimed \in Seq(IPs \cup {NoIP}) /\ proxies \in Seq(Trusted)
  BY DEF Headers, Routes
<1>1. req.remote \in IPs
  <2>1. CASE proxies = <<>>
    BY <1>0, <2>1 DEF Received
  <2>2. CASE proxies # <<>>
    BY <1>0, <2>2 DEF Received
  <2> QED
    BY <2>1, <2>2
<1>2. ClientIP(req) \in IPs
  <2> HIDE DEF req
  <2> QED
    BY <1>1, CountedAtAnAddress
<1>3. Owner(c, req) = ClientIP(req)
  BY ClientIsFound DEF Owner
<1> QED
  BY <1>2, <1>3 DEF Handle

-----------------------------------------------------------------------------

LEMMA StepTypes == TypeOK /\ [Next]_vars => TypeOK'
<1> SUFFICES ASSUME TypeOK, [Next]_vars PROVE TypeOK'
  OBVIOUS
<1> USE LimiterAssumption DEF TypeOK, Known, Visitor
<1>1. ASSUME NEW ip \in IPs, AllowFirst(ip, ip) PROVE TypeOK'
  BY <1>1 DEF AllowFirst, Store
<1>2. ASSUME NEW ip \in IPs, AllowCounted(ip, ip) PROVE TypeOK'
  <2>1. ip \in Known
    BY <1>2 DEF AllowCounted, StartsWindow
  <2>2. Counted(ip) \in 1..MaxCount
    BY <2>1 DEF Counted
  <2> QED
    BY <1>2, <2>1, <2>2 DEF AllowCounted, Store
<1>3. CASE Request
  BY <1>1, <1>2, <1>3, CountedAtOwner
<1>4. CASE Cleanup
  BY <1>4 DEF Cleanup, Evicted
<1>5. CASE Stop
  BY <1>5 DEF Stop
<1>6. CASE Tick
  BY <1>6 DEF Tick
<1>7. CASE UNCHANGED vars
  BY <1>7 DEF vars
<1> QED
  BY <1>3, <1>4, <1>5, <1>6, <1>7 DEF Next

\* Every entry is an address with a count of at least one (ratelimit.go:11-15).
THEOREM LimiterTypes == Spec => []TypeOK
<1>1. Init => TypeOK
  <2> SUFFICES ASSUME Init PROVE TypeOK
    OBVIOUS
  <2>1. Known = {} /\ visitors \in [Known -> Visitor]
    BY DEF Init, Known
  <2>2. answer \in [ip : IPs \cup {"nobody"}, allowed : BOOLEAN]
    BY DEF Init
  <2> QED
    BY <2>1, <2>2 DEF Init, TypeOK
<1> QED
  BY <1>1, StepTypes, PTL DEF Spec

-----------------------------------------------------------------------------
(* Refinement                                                              *)

\* The first request of a window opens it.
LEMMA FirstOpens ==
    ASSUME TypeOK, NEW ip \in IPs, AllowFirst(ip, ip)
    PROVE  FW!Open(ip)
<1> USE LimiterAssumption DEF TypeOK
<1>1. ip \notin Live
  BY DEF AllowFirst, StartsWindow, Live
<1>2. now' = now /\ now + Window \in Nat
  BY DEF AllowFirst
<1>3. Live' = Live \cup {ip}
  BY <1>2 DEF AllowFirst, Store, Live, Expired, Known, Visitor
<1>4. visitors'[ip] = [count |-> 1, resetAt |-> now + Window]
      /\ \A x \in Live : visitors'[x] = visitors[x]
  BY <1>1 DEF AllowFirst, Store, Known, Live
<1>5. Capped(1) = 1
  BY DEF Capped, Quota
<1>6. OpenWindows' = [x \in Live \cup {ip} |->
        IF x = ip THEN [admitted |-> 1, until |-> now + Window] ELSE OpenWindows[x]]
  BY <1>1, <1>3, <1>4, <1>5 DEF OpenWindows
<1>7. DOMAIN OpenWindows = Live
  BY DEF OpenWindows
<1> QED
  BY <1>1, <1>6, <1>7 DEF AllowFirst, FW!Open, FW!SetWindow

\* Any other request is admitted or rejected as the window says.
LEMMA CountedAdmitsOrRejects ==
    ASSUME TypeOK, NEW ip \in IPs, AllowCounted(ip, ip)
    PROVE  FW!Admit(ip) \/ FW!Reject(ip)
<1> USE LimiterAssumption DEF TypeOK
<1> DEFINE n == visitors[ip].count
<1>1. ip \in Known /\ ip \in Live
  BY DEF AllowCounted, StartsWindow, Live
<1>2. n \in 1..MaxCount /\ visitors[ip].resetAt \in Nat
  BY <1>1 DEF Visitor
<1>3. Known' = Known
  BY <1>1 DEF AllowCounted, Store, Known
<1>4. /\ visitors'[ip] = [count |-> Counted(ip), resetAt |-> visitors[ip].resetAt]
      /\ \A x \in Known : x # ip => visitors'[x] = visitors[x]
  BY <1>1 DEF AllowCounted, Store
<1>5. now' = now
  BY DEF AllowCounted
<1>6. Live' = Live
  BY <1>3, <1>4, <1>5 DEF Live, Expired
<1>7. OpenWindows' = [x \in Live |->
        IF x = ip THEN [admitted |-> Capped(Counted(ip)), until |-> visitors[ip].resetAt]
                  ELSE OpenWindows[x]]
  BY <1>1, <1>4, <1>6 DEF OpenWindows, Live
<1>8. DOMAIN OpenWindows = Live /\ Live \cup {ip} = Live
  BY <1>1 DEF OpenWindows
<1>9. OpenWindows[ip] = [admitted |-> Capped(n), until |-> visitors[ip].resetAt]
  BY <1>1 DEF OpenWindows
<1>10. CASE Counted(ip) <= Limit
  <2>0. Counted(ip) = n + 1
    BY <1>2, <1>10 DEF Counted
  <2>1. Capped(n) < Quota /\ Capped(n + 1) = Capped(n) + 1
    BY <1>2, <1>10, <2>0 DEF Capped, Quota
  <2>2. FW!SetWindow(ip, [admitted |-> OpenWindows[ip].admitted + 1, until |-> OpenWindows[ip].until])
    BY <1>7, <1>8, <1>9, <2>0, <2>1 DEF FW!SetWindow
  <2>3. (Counted(ip) <= Limit) = TRUE
    BY <1>10
  <2>4. answer' = [ip |-> ip, allowed |-> TRUE]
    BY <2>3, Zenon DEF AllowCounted
  <2> QED
    BY <1>1, <1>5, <1>8, <1>9, <2>1, <2>2, <2>4 DEF FW!Admit
<1>11. CASE ~ (Counted(ip) <= Limit)
  <2>0. n + 1 > Limit /\ Counted(ip) \in {n, n + 1} /\ (Counted(ip) = n => n > Limit)
    BY <1>2, <1>11 DEF Counted
  <2>1. Capped(n) >= Quota /\ Capped(Counted(ip)) = Capped(n)
    BY <1>2, <2>0 DEF Capped, Quota
  <2>2. OpenWindows' = OpenWindows
    BY <1>7, <1>9, <2>1 DEF OpenWindows
  <2>3. (Counted(ip) <= Limit) = FALSE
    BY <1>11
  <2>4. answer' = [ip |-> ip, allowed |-> FALSE]
    BY <2>3, Zenon DEF AllowCounted
  <2> QED
    BY <1>1, <1>5, <1>8, <1>9, <2>1, <2>2, <2>4 DEF FW!Reject
<1> QED
  BY <1>10, <1>11

\* A sweep drops closed windows only.
LEMMA CleanupStutters ==
    ASSUME TypeOK, Cleanup
    PROVE  UNCHANGED <<now, OpenWindows, answer>>
<1>1. now' = now /\ answer' = answer
  BY DEF Cleanup
<1>2. /\ Known' = Known \ Evicted
      /\ \A x \in Known \ Evicted : visitors'[x] = visitors[x]
  BY DEF Cleanup, Known
<1>3. Live' = Live
  BY <1>1, <1>2 DEF Live, Evicted, Expired
<1>4. \A x \in Live : visitors'[x] = visitors[x]
  BY <1>2 DEF Live, Evicted
<1> QED
  BY <1>1, <1>3, <1>4 DEF OpenWindows

\* The clock closes the windows that it leaves behind.
LEMMA TickCloses ==
    ASSUME TypeOK, Tick
    PROVE  FW!Tick
<1> USE DEF TypeOK
<1>1. now' = now + 1 /\ visitors' = visitors /\ now < MaxTime /\ answer' = answer
  BY DEF Tick
<1>2. \A x \in Known : visitors[x].resetAt \in Nat
  BY DEF Visitor
<1>3. Live' = {x \in Live : visitors[x].resetAt >= now + 1}
  BY <1>1, <1>2 DEF Live, Expired, Known
<1>4. DOMAIN OpenWindows = Live /\ \A x \in Live : OpenWindows[x].until = visitors[x].resetAt
  BY DEF OpenWindows
<1>5. Live' = {x \in DOMAIN OpenWindows : OpenWindows[x].until >= now + 1}
  BY <1>3, <1>4
<1>6. OpenWindows' = [x \in Live' |-> OpenWindows[x]]
  BY <1>1, <1>3 DEF OpenWindows
<1> QED
  BY <1>1, <1>5, <1>6 DEF FW!Tick

\* The rate limiter implements a fixed window per client: the requests of a client are
\* counted at its address whatever trusted proxies they pass, sweeps are invisible, and a
\* window admits Quota requests and nothing prolongs it (ratelimit.go:17-20,65-148).
THEOREM LimiterIsFixedWindow == Spec => FixedWindowSpec
<1>1. Init => FW!Init
  BY DEF Init, FW!Init, OpenWindows, Live, Known
<1>2. TypeOK /\ [Next]_vars => [FW!Next]_(FW!fwVars)
  <2> SUFFICES ASSUME TypeOK, [Next]_vars PROVE [FW!Next]_(FW!fwVars)
    OBVIOUS
  <2>1. CASE Request
    <3>1. PICK ip \in IPs : AllowFirst(ip, ip) \/ AllowCounted(ip, ip)
      BY <2>1, CountedAtOwner
    <3> QED
      BY <3>1, FirstOpens, CountedAdmitsOrRejects DEF FW!Next
  <2>2. CASE Cleanup
    BY <2>2, CleanupStutters DEF FW!fwVars
  <2>3. CASE Stop
    BY <2>3 DEF Stop, FW!fwVars, OpenWindows, Live, Known, Expired
  <2>4. CASE Tick
    BY <2>4, TickCloses DEF FW!Next
  <2>5. CASE UNCHANGED vars
    BY <2>5 DEF vars, FW!fwVars, OpenWindows, Live, Known, Expired
  <2> QED
    BY <2>1, <2>2, <2>3, <2>4, <2>5 DEF Next
<1> QED
  BY <1>1, <1>2, LimiterTypes, PTL DEF Spec, FixedWindowSpec, FW!Spec

==============================================================================
