----------------------------- MODULE RateLimiter -----------------------------
(***************************************************************************)
(* The agent's sliding-window rate limiter (_RateLimiter of                *)
(* securepanel-agent.py).  is_allowed and purge_stale hold an asyncio.Lock *)
(* and await nothing while they hold it, so each is one step.              *)
(*                                                                         *)
(* A bucket is a list of time stamps in the code.  Equal stamps are told   *)
(* apart here by the number of the request, so that a bucket is a set.     *)
(***************************************************************************)
EXTENDS Integers, FiniteSets

CONSTANTS
    Peers,      \* peer identities: the descriptors of client sockets
    Max,        \* RATE_LIMIT_MAX
    Window,     \* RATE_LIMIT_WINDOW
    MaxTime     \* bound: the clock of a run stops here

ASSUME LimiterAssumption == Max \in Nat /\ Window \in Nat /\ MaxTime \in Nat

VARIABLES
    now,        \* time.monotonic()
    buckets,    \* self._buckets, a function on the peers that have one
    next,       \* number of the peer's next admitted request
    admitted    \* history: every request this agent process admitted

vars == <<now, buckets, next, admitted>>

Stamp == [time : Nat, id : Nat]

\* defaultdict(list)
Bucket(p) == IF p \in DOMAIN buckets THEN buckets[p] ELSE {}

\* Mutant: a time stamp stays one tick too long.
RecentInclusive(S) == {s \in S : s.time >= now - Window}

\* Discard the time stamps outside the current window.
Recent(S) == {s \in S : s.time > now - Window}

\* buckets with the list of p replaced.
Put(p, S) ==
    [q \in DOMAIN buckets \cup {p} |-> IF q = p THEN S ELSE buckets[q]]

\* The requests of p admitted in the window of length Window that ends at t.
InWindow(p, t) ==
    {s \in admitted[p] : s.time > t - Window /\ s.time <= t}

Init ==
    /\ now = 0
    /\ buckets = [p \in {} |-> {}]
    /\ next = [p \in Peers |-> 0]
    /\ admitted = [p \in Peers |-> {}]

Tick ==
    /\ now < MaxTime
    /\ now' = now + 1
    /\ UNCHANGED <<buckets, next, admitted>>

\* Mutant: one request too many.
FullOffByOne(p) == Cardinality(Recent(Bucket(p))) > Max

Full(p) == Cardinality(Recent(Bucket(p))) >= Max

\* Mutant: the cutoff is recorded in place of the time of the request.
AdmitAtCutoff(p) ==
    /\ ~Full(p)
    /\ LET s == [time |-> now - Window, id |-> next[p]] IN
        /\ buckets' = Put(p, Recent(Bucket(p)) \cup {s})
        /\ admitted' = [admitted EXCEPT ![p] = @ \cup {s}]
    /\ next' = [next EXCEPT ![p] = @ + 1]
    /\ UNCHANGED now

Admit(p) ==
    /\ ~Full(p)
    /\ LET s == [time |-> now, id |-> next[p]] IN
        /\ buckets' = Put(p, Recent(Bucket(p)) \cup {s})
        /\ admitted' = [admitted EXCEPT ![p] = @ \cup {s}]
    /\ next' = [next EXCEPT ![p] = @ + 1]
    /\ UNCHANGED now

\* The list is pruned all the same.
Reject(p) ==
    /\ Full(p)
    /\ buckets' = Put(p, Recent(Bucket(p)))
    /\ UNCHANGED <<now, next, admitted>>

PurgeStale ==
    /\ buckets' = [p \in {q \in DOMAIN buckets : Recent(buckets[q]) # {}} |-> buckets[p]]
    /\ UNCHANGED <<now, next, admitted>>

\* Restart=always: a new process with an empty dictionary and a new history.
Restart ==
    /\ buckets' = [p \in {} |-> {}]
    /\ admitted' = [p \in Peers |-> {}]
    /\ next' = [p \in Peers |-> 0]
    /\ UNCHANGED now

Next ==
    \/ Tick \/ PurgeStale \/ Restart
    \/ \E p \in Peers : Admit(p) \/ Reject(p)

Spec == Init /\ [][Next]_vars

-----------------------------------------------------------------------------
TypeOK ==
    /\ now \in Nat
    /\ next \in [Peers -> Nat]
    /\ admitted \in [Peers -> SUBSET Stamp]
    /\ DOMAIN buckets \subseteq Peers
    /\ \A p \in DOMAIN buckets : buckets[p] \subseteq Stamp

\* No window of length Window, wherever it ends, holds more than Max admitted
\* requests of one peer, although the code only ever prunes and counts at the
\* moment of a request and purges buckets in between.
WindowBound ==
    \A p \in Peers : \A t \in Nat : Cardinality(InWindow(p, t)) <= Max

\* The same for the windows a run can tell apart.
WindowBoundSoFar ==
    \A p \in Peers : \A t \in 0..MaxTime : Cardinality(InWindow(p, t)) <= Max

\* A request that is_allowed would refuse finds Max requests of the same peer
\* admitted within the last Window: neither pruning, nor purging, nor other
\* peers cost a peer a request.
RefusedOnlyWhenFull ==
    \A p \in Peers : Full(p) => Cardinality(InWindow(p, now)) >= Max

=============================================================================
