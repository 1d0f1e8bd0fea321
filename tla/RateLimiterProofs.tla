-------------------------- MODULE RateLimiterProofs --------------------------
(***************************************************************************)
(* Proofs about RateLimiter, for any peers, limit, window and clock bound.  *)
(***************************************************************************)
EXTENDS RateLimiter, FiniteSetTheorems, TLAPS

(* The history is finite, no younger than the clock, numbered below next,   *)
(* and a bucket holds of it at least what lies in the current window.       *)
HistoryInv ==
    \A p \in Peers :
        /\ IsFiniteSet(admitted[p])
        /\ \A s \in admitted[p] : s.time <= now /\ s.id < next[p]
        /\ Bucket(p) \subseteq admitted[p]
        /\ Recent(admitted[p]) \subseteq Bucket(p)

IInv == TypeOK /\ HistoryInv /\ WindowBound

-----------------------------------------------------------------------------
(* What the code counts is the window that ends now.                        *)
LEMMA RecentIsWindow ==
    ASSUME TypeOK, HistoryInv, NEW p \in Peers
    PROVE  Recent(Bucket(p)) = InWindow(p, now)
<1>1. ASSUME NEW s \in Recent(Bucket(p)) PROVE s \in InWindow(p, now)
    BY <1>1 DEF Recent, InWindow, HistoryInv
<1>2. ASSUME NEW s \in InWindow(p, now) PROVE s \in Recent(Bucket(p))
    BY <1>2 DEF Recent, InWindow, HistoryInv
<1> QED
    BY <1>1, <1>2

(* The list of a peer after its bucket was replaced.                        *)
LEMMA PutBucket ==
    ASSUME TypeOK, NEW p \in Peers, NEW S \in SUBSET Stamp, buckets' = Put(p, S)
    PROVE  /\ DOMAIN buckets' \subseteq Peers
           /\ \A q \in DOMAIN buckets' : buckets'[q] \subseteq Stamp
           /\ \A q \in Peers : Bucket(q)' = IF q = p THEN S ELSE Bucket(q)
BY DEF TypeOK, Put, Bucket

LEMMA BucketType ==
    ASSUME TypeOK, NEW p \in Peers
    PROVE  Bucket(p) \in SUBSET Stamp
BY DEF TypeOK, Bucket

(* The code's conditions change neither the clock nor its order.            *)
LEMMA WindowFinite ==
    ASSUME HistoryInv, NEW p \in Peers, NEW t \in Nat
    PROVE  IsFiniteSet(InWindow(p, t))
<1>1. InWindow(p, t) \subseteq admitted[p]
    BY DEF InWindow
<1> QED
    BY <1>1, FS_Subset DEF HistoryInv

LEMMA InitIInv == Init => IInv
<1> SUFFICES ASSUME Init PROVE IInv
    OBVIOUS
<1>1. TypeOK
    BY DEF Init, TypeOK
<1>2. HistoryInv
    BY FS_EmptySet DEF Init, HistoryInv, Bucket, Recent
<1>3. ASSUME NEW p \in Peers, NEW t \in Nat
      PROVE  Cardinality(InWindow(p, t)) <= Max
    <2>1. InWindow(p, t) = {}
        BY DEF Init, InWindow
    <2> QED
        BY <2>1, FS_EmptySet, LimiterAssumption
<1> QED
    BY <1>1, <1>2, <1>3 DEF IInv, WindowBound

-----------------------------------------------------------------------------
(* is_allowed, admitting: the only step that can fill a window.             *)
LEMMA AdmitIInv ==
    ASSUME IInv, NEW p \in Peers, Admit(p)
    PROVE  IInv'
<1> DEFINE s == [time |-> now, id |-> next[p]]
           S == Recent(Bucket(p)) \cup {s}
<1>0. TypeOK /\ HistoryInv /\ WindowBound
    BY DEF IInv
<1>1. s \in Stamp /\ S \in SUBSET Stamp
    BY <1>0, BucketType DEF Stamp, TypeOK, Recent
<1>2. /\ now' = now /\ buckets' = Put(p, S)
      /\ admitted' = [admitted EXCEPT ![p] = @ \cup {s}]
      /\ next' = [next EXCEPT ![p] = @ + 1]
      /\ ~Full(p)
    BY DEF Admit
<1>3. /\ DOMAIN buckets' \subseteq Peers
      /\ \A q \in DOMAIN buckets' : buckets'[q] \subseteq Stamp
      /\ \A q \in Peers : Bucket(q)' = IF q = p THEN S ELSE Bucket(q)
    <2> HIDE DEF S
    <2> QED BY <1>0, <1>1, <1>2, PutBucket
<1>4. TypeOK'
    <2> HIDE DEF s, S
    <2> QED BY <1>0, <1>1, <1>2, <1>3 DEF TypeOK
<1>5. HistoryInv'
    <2> SUFFICES ASSUME NEW q \in Peers
                 PROVE  /\ IsFiniteSet(admitted'[q])
                        /\ \A r \in admitted'[q] : r.time <= now' /\ r.id < next'[q]
                        /\ Bucket(q)' \subseteq admitted'[q]
                        /\ Recent(admitted[q])' \subseteq Bucket(q)'
        BY DEF HistoryInv
    <2>1. CASE q # p
        <3>1. admitted'[q] = admitted[q] /\ next'[q] = next[q] /\ Bucket(q)' = Bucket(q)
            BY <2>1, <1>0, <1>2, <1>3 DEF TypeOK
        <3>2. Recent(admitted[q])' = Recent(admitted[q])
            BY <3>1, <1>2 DEF Recent
        <3> QED
            BY <3>1, <3>2, <1>0, <1>2 DEF HistoryInv
    <2>2. CASE q = p
        <3>1. /\ admitted'[q] = admitted[q] \cup {s} /\ next'[q] = next[q] + 1
              /\ Bucket(q)' = S
            BY <2>2, <1>0, <1>2, <1>3 DEF TypeOK
        <3>2. IsFiniteSet(admitted'[q])
            <4>1. IsFiniteSet(admitted[q])
                BY <1>0 DEF HistoryInv
            <4> HIDE DEF s
            <4> QED BY <3>1, <4>1, FS_AddElement
        <3>3. ASSUME NEW r \in admitted'[q] PROVE r.time <= now' /\ r.id < next'[q]
            <4>1. CASE r \in admitted[q]
                BY <4>1, <3>1, <1>0, <1>2 DEF HistoryInv, TypeOK, Stamp
            <4>2. CASE r = s
                BY <4>2, <2>2, <3>1, <1>0, <1>2 DEF TypeOK
            <4> QED BY <3>1, <4>1, <4>2
        <3>4. Bucket(q)' \subseteq admitted'[q]
            BY <3>1, <1>0, <2>2 DEF HistoryInv, Recent
        <3>5. Recent(admitted[q])' \subseteq Bucket(q)'
            BY <3>1, <1>0, <1>2, <2>2 DEF HistoryInv, Recent
        <3> QED BY <3>2, <3>3, <3>4, <3>5
    <2> QED BY <2>1, <2>2
<1>6. ASSUME NEW q \in Peers, NEW t \in Nat
      PROVE  Cardinality(InWindow(q, t)') <= Max
    <2>1. CASE q # p \/ ~(now > t - Window /\ now <= t)
        <3>1. InWindow(q, t)' = InWindow(q, t)
            <4>1. CASE q # p
                BY <4>1, <1>0, <1>2 DEF InWindow, TypeOK
            <4>2. CASE q = p
                <5>1. admitted'[q] = admitted[q] \cup {s}
                    BY <4>2, <1>0, <1>2 DEF TypeOK
                <5>2. s.time = now /\ ~(s.time > t - Window /\ s.time <= t)
                    BY <4>2, <2>1
                <5> QED BY <5>1, <5>2 DEF InWindow
            <4> QED BY <4>1, <4>2
        <3> QED BY <3>1, <1>0 DEF WindowBound
    <2>2. CASE q = p /\ now > t - Window /\ now <= t
        <3> DEFINE W == InWindow(p, now)
        <3>1. W = Recent(Bucket(p))
            BY <1>0, RecentIsWindow
        <3>2. IsFiniteSet(W) /\ Cardinality(W) \in Nat
            BY <1>0, WindowFinite, FS_CardinalityType DEF TypeOK
        <3>3. Cardinality(W) < Max
            BY <3>1, <3>2, <1>2, LimiterAssumption DEF Full
        <3>4. InWindow(q, t)' \subseteq W \cup {s}
            <4>1. admitted'[q] = admitted[q] \cup {s}
                BY <2>2, <1>0, <1>2 DEF TypeOK
            <4>2. ASSUME NEW r \in InWindow(q, t)', r # s PROVE r \in W
                <5>1. r \in admitted[p] /\ r.time > t - Window
                    BY <4>1, <4>2, <2>2 DEF InWindow
                <5>2. r.time \in Nat /\ r.time <= now
                    BY <5>1, <1>0 DEF HistoryInv, TypeOK, Stamp
                <5>3. r.time > now - Window
                    BY <5>1, <5>2, <2>2, <1>0, LimiterAssumption DEF TypeOK
                <5> QED BY <5>1, <5>2, <5>3 DEF InWindow
            <4> QED BY <4>2
        <3>5. /\ IsFiniteSet(W \cup {s})
              /\ Cardinality(W \cup {s}) <= Cardinality(W) + 1
            <4> HIDE DEF W, s
            <4> QED BY <3>2, FS_AddElement
        <3>6. /\ Cardinality(InWindow(q, t)') <= Cardinality(W \cup {s})
              /\ Cardinality(InWindow(q, t)') \in Nat
              /\ Cardinality(W \cup {s}) \in Nat
            <4> HIDE DEF W, s
            <4> QED BY <3>4, <3>5, FS_Subset, FS_CardinalityType
        <3> QED BY <3>2, <3>3, <3>5, <3>6, LimiterAssumption
    <2> QED BY <2>1, <2>2
<1> QED
    BY <1>4, <1>5, <1>6 DEF IInv, WindowBound

(* The clock moves: what leaves the current window may leave the bucket.    *)
LEMMA TickIInv ==
    ASSUME IInv, Tick
    PROVE  IInv'
<1>0. TypeOK /\ HistoryInv /\ WindowBound
    BY DEF IInv
<1>1. now' = now + 1 /\ buckets' = buckets /\ next' = next /\ admitted' = admitted
    BY DEF Tick
<1>2. TypeOK'
    BY <1>0, <1>1 DEF TypeOK
<1>3. ASSUME NEW q \in Peers
      PROVE  /\ IsFiniteSet(admitted'[q])
             /\ \A r \in admitted'[q] : r.time <= now' /\ r.id < next'[q]
             /\ Bucket(q)' \subseteq admitted'[q]
             /\ Recent(admitted[q])' \subseteq Bucket(q)'
    <2>1. Bucket(q)' = Bucket(q)
        BY <1>1 DEF Bucket
    <2>2. \A r \in admitted[q] : r.time \in Nat
        BY <1>0 DEF TypeOK, Stamp
    <2>3. Recent(admitted[q])' \subseteq Recent(admitted[q])
        BY <1>0, <1>1, <2>2, LimiterAssumption DEF Recent, TypeOK
    <2>4. \A r \in admitted'[q] : r.time <= now' /\ r.id < next'[q]
        BY <1>0, <1>1, <2>2 DEF HistoryInv, TypeOK
    <2> QED
        BY <1>0, <1>1, <2>1, <2>3, <2>4 DEF HistoryInv
<1>4. WindowBound'
    BY <1>0, <1>1 DEF WindowBound, InWindow
<1> QED
    BY <1>2, <1>3, <1>4 DEF IInv, HistoryInv

(* A step that leaves clock and history alone and takes from a bucket only  *)
(* what is outside the current window.                                      *)
LEMMA PruneIInv ==
    ASSUME IInv,
           UNCHANGED <<now, next, admitted>>,
           DOMAIN buckets' \subseteq Peers,
           \A q \in DOMAIN buckets' : buckets'[q] \subseteq Stamp,
           \A q \in Peers : /\ Bucket(q)' \subseteq Bucket(q)
                            /\ Recent(Bucket(q)) \subseteq Bucket(q)'
    PROVE  IInv'
<1>0. TypeOK /\ HistoryInv /\ WindowBound
    BY DEF IInv
<1>1. TypeOK'
    BY <1>0 DEF TypeOK
<1>2. ASSUME NEW q \in Peers
      PROVE  /\ Bucket(q)' \subseteq admitted'[q]
             /\ Recent(admitted[q])' \subseteq Bucket(q)'
    BY <1>0 DEF HistoryInv, Recent
<1>3. HistoryInv'
    BY <1>0, <1>2 DEF HistoryInv
<1>4. WindowBound'
    BY <1>0 DEF WindowBound, InWindow
<1> QED
    BY <1>1, <1>3, <1>4 DEF IInv

LEMMA RejectIInv ==
    ASSUME IInv, NEW p \in Peers, Reject(p)
    PROVE  IInv'
<1>1. TypeOK /\ buckets' = Put(p, Recent(Bucket(p))) /\ UNCHANGED <<now, next, admitted>>
    BY DEF IInv, Reject
<1>2. Recent(Bucket(p)) \in SUBSET Stamp
    BY <1>1, BucketType DEF Recent
<1>3. /\ DOMAIN buckets' \subseteq Peers
      /\ \A q \in DOMAIN buckets' : buckets'[q] \subseteq Stamp
      /\ \A q \in Peers : Bucket(q)' = IF q = p THEN Recent(Bucket(p)) ELSE Bucket(q)
    BY <1>1, <1>2, PutBucket
<1>4. \A q \in Peers : /\ Bucket(q)' \subseteq Bucket(q)
                       /\ Recent(Bucket(q)) \subseteq Bucket(q)'
    BY <1>3 DEF Recent
<1> QED
    BY <1>1, <1>3, <1>4, PruneIInv

LEMMA PurgeIInv ==
    ASSUME IInv, PurgeStale
    PROVE  IInv'
<1>1. TypeOK /\ UNCHANGED <<now, next, admitted>>
    BY DEF IInv, PurgeStale
<1>2. buckets' = [p \in {q \in DOMAIN buckets : Recent(buckets[q]) # {}} |-> buckets[p]]
    BY DEF PurgeStale
<1>3. /\ DOMAIN buckets' \subseteq Peers
      /\ \A q \in DOMAIN buckets' : buckets'[q] \subseteq Stamp
    BY <1>1, <1>2 DEF TypeOK
<1>4. \A q \in Peers : /\ Bucket(q)' \subseteq Bucket(q)
                       /\ Recent(Bucket(q)) \subseteq Bucket(q)'
    BY <1>1, <1>2 DEF Bucket, Recent
<1> QED
    BY <1>1, <1>3, <1>4, PruneIInv

LEMMA RestartIInv ==
    ASSUME IInv, Restart
    PROVE  IInv'
<1>1. /\ now' = now /\ buckets' = [p \in {} |-> {}]
      /\ admitted' = [p \in Peers |-> {}] /\ next' = [p \in Peers |-> 0]
    BY DEF Restart
<1>2. TypeOK'
    BY <1>1 DEF TypeOK, IInv
<1>3. HistoryInv'
    BY <1>1, FS_EmptySet DEF HistoryInv, Bucket, Recent
<1>4. ASSUME NEW p \in Peers, NEW t \in Nat
      PROVE  Cardinality(InWindow(p, t)') <= Max
    <2>1. InWindow(p, t)' = {}
        BY <1>1 DEF InWindow
    <2> QED
        BY <2>1, FS_EmptySet, LimiterAssumption
<1> QED
    BY <1>2, <1>3, <1>4 DEF IInv, WindowBound

-----------------------------------------------------------------------------
LEMMA StepIInv == IInv /\ [Next]_vars => IInv'
<1> SUFFICES ASSUME IInv, [Next]_vars PROVE IInv'
    OBVIOUS
<1>1. CASE Tick
    BY <1>1, TickIInv
<1>2. CASE PurgeStale
    BY <1>2, PurgeIInv
<1>3. CASE Restart
    BY <1>3, RestartIInv
<1>4. ASSUME NEW p \in Peers, Admit(p) PROVE IInv'
    BY <1>4, AdmitIInv
<1>5. ASSUME NEW p \in Peers, Reject(p) PROVE IInv'
    BY <1>5, RejectIInv
<1>6. CASE UNCHANGED vars
    BY <1>6 DEF vars, IInv, TypeOK, HistoryInv, WindowBound, Bucket, Recent, InWindow
<1> QED
    BY <1>1, <1>2, <1>3, <1>4, <1>5, <1>6 DEF Next

(* The invariant behind every theorem below.                                *)
LEMMA SpecIInv == Spec => []IInv
<1> QED
    BY InitIInv, StepIInv, PTL DEF Spec

(* RateLimiter's variables keep their types.                                *)
THEOREM SpecTypeOK == Spec => []TypeOK
<1>1. IInv => TypeOK
    BY DEF IInv
<1> QED
    BY SpecIInv, <1>1, PTL

(* is_allowed never lets a peer exceed Max requests in any window, for every *)
(* limit, window and interleaving of requests, purges and restarts.          *)
THEOREM SpecWindowBound == Spec => []WindowBound
<1>1. IInv => WindowBound
    BY DEF IInv
<1> QED
    BY SpecIInv, <1>1, PTL

(* The bound of the run is an instance of it.                               *)
THEOREM SpecWindowBoundSoFar == Spec => []WindowBoundSoFar
<1>1. WindowBound => WindowBoundSoFar
    BY LimiterAssumption DEF WindowBound, WindowBoundSoFar
<1> QED
    BY SpecWindowBound, <1>1, PTL

(* is_allowed refuses only a peer that has used up its window.              *)
THEOREM SpecRefusedOnlyWhenFull == Spec => []RefusedOnlyWhenFull
<1>1. IInv => RefusedOnlyWhenFull
    <2> SUFFICES ASSUME IInv, NEW p \in Peers, Full(p)
                 PROVE  Cardinality(InWindow(p, now)) >= Max
        BY DEF RefusedOnlyWhenFull
    <2>1. Recent(Bucket(p)) = InWindow(p, now)
        BY RecentIsWindow DEF IInv
    <2> QED
        BY <2>1 DEF Full
<1> QED
    BY SpecIInv, <1>1, PTL

=============================================================================
