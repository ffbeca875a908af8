---------------------------- MODULE RateLimiter ----------------------------
(***************************************************************************)
(* The fixed-window quota in front of the API: the middleware decides who  *)
(* is asking, one Redis script counts the request, and the request is      *)
(* served, rejected (429) or refused because nothing can be decided (503). *)
(* Counters of different routes never meet; one route is modelled.         *)
(***************************************************************************)
EXTENDS Naturals, SequencesExt

CONSTANTS
    Peers,     \* addresses of clients
    Proxies,   \* addresses in trusted_proxy_networks
    Limit,     \* requests of a window
    Window,    \* window_seconds
    MaxHops    \* _MAX_FORWARDED_HOPS

VARIABLES
    counter,   \* Redis: count and seconds to live per identity, 0 and 0 without a key
    admitted   \* requests of each client, with a readable header, served since its key was created

limiterVars == <<counter, admitted>>

Malformed == "malformed"
NoKey     == [count |-> 0, ttl |-> 0]

Init ==
    /\ counter = [a \in Peers \cup Proxies |-> NoKey]
    /\ admitted = [p \in Peers |-> 0]

(* The hops of X-Forwarded-For, or none when they cannot be used. *)
Forwarded(hops) == IF Len(hops) > MaxHops \/ Malformed \in ToSet(hops) THEN <<>> ELSE hops

(* The hops that are no trusted proxy. *)
Outside(hops) == {i \in 1..Len(hops) : hops[i] \notin Proxies}

(* Mutant: the first untrusted hop, not the last. *)
IdentityFromLeft(direct, hops) ==
    LET usable == Forwarded(hops)
    IN IF direct \notin Proxies \/ Outside(usable) = {} THEN direct ELSE usable[Min(Outside(usable))]

(* The last untrusted hop, if the connection comes from a trusted proxy. *)
Identity(direct, hops) ==
    LET usable == Forwarded(hops)
    IN IF direct \notin Proxies \/ Outside(usable) = {} THEN direct ELSE usable[Max(Outside(usable))]

(* Mutant: every request sets the expiry again. *)
CountAndRenew(a) == [count |-> IF counter[a].count > Limit THEN Limit + 1 ELSE counter[a].count + 1, ttl |-> Window]

(* INCR, and EXPIRE when the key is new.  Counts above Limit are alike. *)
Count(a) ==
    [count |-> IF counter[a].count > Limit THEN Limit + 1 ELSE counter[a].count + 1,
     ttl   |-> IF counter[a].count = 0 THEN Window ELSE counter[a].ttl]

(* Claimed is what the client wrote into the header; each trusted proxy    *)
(* appends the address it was connected from.                              *)
Path(p, claimed, proxies) ==
    IF proxies = <<>> THEN [direct |-> p, hops |-> claimed]
    ELSE [direct |-> Last(proxies), hops |-> claimed \o <<p>> \o Front(proxies)]

(* The request is counted, and then served, rejected, or refused because   *)
(* the reply of Redis is lost.                                             *)
Request(p, claimed, proxies) ==
    LET path == Path(p, claimed, proxies)
        who  == Identity(path.direct, path.hops)
        readable == proxies = <<>> \/ Forwarded(path.hops) # <<>>
    IN  /\ counter' = [counter EXCEPT ![who] = Count(who)]
        /\ \/ /\ Count(who).count <= Limit
              /\ admitted' = [admitted EXCEPT ![p] = IF readable THEN @ + 1 ELSE @]
           \/ UNCHANGED admitted

(* A second passes; Redis drops keys whose time is over. *)
Second ==
    /\ \E a \in DOMAIN counter : counter[a].ttl > 0
    /\ counter' = [a \in DOMAIN counter |->
                     IF counter[a].ttl <= 1 THEN NoKey ELSE [counter[a] EXCEPT !.ttl = @ - 1]]
    /\ admitted' = [p \in Peers |-> IF counter[p].ttl <= 1 THEN 0 ELSE admitted[p]]

Claims == {<<>>} \cup {<<a>> : a \in Peers \cup Proxies \cup {Malformed}}
Routes == {<<>>} \cup {<<a>> : a \in Proxies} \cup {<<a, b>> : a, b \in Proxies}

Next == Second \/ \E p \in Peers, claimed \in Claims, proxies \in Routes : Request(p, claimed, proxies)

Fairness == WF_limiterVars(Second)

Spec == Init /\ [][Next]_limiterVars /\ Fairness

-----------------------------------------------------------------------------
(* Whatever a client writes into the forwarded header, and through however *)
(* many trusted proxies it comes, its readable requests of a window share  *)
(* one quota.                                                              *)
QuotaPerClient == \A p \in Peers : admitted[p] <= Limit

(* The inductive strengthening: the counter of a client has counted every  *)
(* request it was let in with.                                             *)
LimiterInv ==
    /\ counter \in [Peers \cup Proxies -> [count : Nat, ttl : Nat]]
    /\ admitted \in [Peers -> Nat]
    /\ QuotaPerClient
    /\ \A p \in Peers : admitted[p] <= counter[p].count

(* A rejected client that keeps asking is not locked out: its counter is   *)
(* gone when its window ends.                                              *)
WindowEnds == \A p \in Peers : counter[p].count > Limit ~> counter[p].count = 0
=============================================================================
