-------------------------- MODULE ReplayCacheProofs --------------------------
(***************************************************************************)
(* Proofs about the authentication of signed requests, for any requests,   *)
(* pairs, skews, TTL, capacity and clock.                                  *)
(*                                                                         *)
(* HandledOnce looks at two acceptances far apart.  Kept links them: as    *)
(* long as the record of an accepted pair has not reached its TTL and was  *)
(* not evicted, the cache holds it, whatever was recorded, expired or      *)
(* swept meanwhile.  InTime bounds when a pair can be verified at all.     *)
(***************************************************************************)
EXTENDS ReplayCache, FiniteSetTheorems, TLAPS

P == INSTANCE TTLCacheProofs WITH TTL <- ReplayTTL, Capacity <- Capacity

\* The cache that the specification uses is the one that the lemmas are about.
LEMMA SameCache ==
  /\ \A c, k, t : C!Record(c, k, t) = P!Record(c, k, t) /\ C!Evicted(c, k, t) = P!Evicted(c, k, t)
  /\ \A c, n : C!DropFront(c, n) = P!DropFront(c, n)
  /\ \A c, k : C!Element(c, k) = P!Element(c, k)
  /\ \A c : C!Agree(c) = P!Agree(c)
<1>1. \A m, ks : C!Without(m, ks) = P!Without(m, ks)
  BY DEF C!Without, P!Without
<1>2. \A c, k : C!Position(c, k) = P!Position(c, k)
  BY DEF C!Position, P!Position
<1>3. \A c, k : C!Element(c, k) = P!Element(c, k)
  BY <1>2 DEF C!Element, P!Element
<1>4. \A c, k : C!Remove(c, k) = P!Remove(c, k)
  BY <1>1, <1>2 DEF C!Remove, P!Remove
<1>5. \A c, k, t : C!PushBack(c, k, t) = P!PushBack(c, k, t)
  BY DEF C!PushBack, P!PushBack
<1>6. \A c : C!OverCapacity(c) = P!OverCapacity(c)
  BY DEF C!OverCapacity, P!OverCapacity
<1>7. \A c, n : C!DropFront(c, n) = P!DropFront(c, n)
  BY <1>1 DEF C!DropFront, P!DropFront
<1>8. \A c, k, t : C!Record(c, k, t) = P!Record(c, k, t) /\ C!Evicted(c, k, t) = P!Evicted(c, k, t)
  BY <1>4, <1>5, <1>6, <1>7 DEF C!Record, P!Record, C!Evicted, P!Evicted
<1>9. \A c : C!Agree(c) = P!Agree(c)
  BY DEF C!Agree, P!Agree
<1> QED BY <1>3, <1>7, <1>8, <1>9

\* NewCore's floor.
LEMMA Floor ==
  /\ Skew \in Nat /\ MaxFutureSkew \in Nat /\ Capacity \in Nat /\ MaxTime \in Nat /\ MaxBehind \in Nat
  /\ \A p \in Pairs : p.ts \in Nat
  /\ ReplayTTL \in Nat /\ (ReplayTTL > 0 => ReplayTTL >= Skew + MaxFutureSkew)
BY ReplayAssumption DEF ReplayTTL, EnsureMinTTL, ReplayFloor

-----------------------------------------------------------------------------
(* The inductive invariant *)

\* When a pair can have been verified.
InTime(p, v) == v <= p.ts + Skew + behind /\ p.ts <= v + MaxFutureSkew

CacheOK == P!Sound(cache, Pairs, now) /\ (Capacity > 0 => Len(cache.list) <= Capacity)

ClocksOK == now \in 0..MaxTime /\ behind \in 0..MaxBehind

RequestsOK ==
  /\ req \in [Requests -> [pc : {"new", "verified", "refused", "handled"}, pair : Pairs, at : 0..now]]
  /\ \A r \in Requests : req[r].pc = "verified" => InTime(req[r].pair, req[r].at)

AcceptedOK ==
  /\ accepted \in Seq([pair : Pairs, verified : 0..now, recorded : 0..now])
  /\ \A i \in 1..Len(accepted) :
       InTime(accepted[i].pair, accepted[i].verified) /\ accepted[i].verified <= accepted[i].recorded

Expired(at) == ReplayTTL > 0 /\ now >= at + ReplayTTL

Kept ==
  \A i \in 1..Len(accepted) :
    accepted[i].pair \notin evicted =>
      \/ \E x \in P!Entries(cache) : x.key = accepted[i].pair /\ x.at = accepted[i].recorded
      \/ Expired(accepted[i].recorded)

Separated ==
  \A i, j \in 1..Len(accepted) :
    i < j /\ accepted[i].pair = accepted[j].pair /\ accepted[i].pair \notin evicted =>
      ReplayTTL > 0 /\ accepted[j].recorded >= accepted[i].recorded + ReplayTTL

RestOK == janitor \in {"running", "stopping", "exited"} /\ evicted \subseteq Pairs

ReplayInv ==
  CacheOK /\ ClocksOK /\ RequestsOK /\ AcceptedOK /\ Kept /\ Separated /\ RestOK

\* The fields of an acceptance.
LEMMA AcceptedFields ==
  ASSUME ReplayInv, NEW i \in 1..Len(accepted)
  PROVE  accepted[i].pair \in Pairs /\ accepted[i].verified \in 0..now /\ accepted[i].recorded \in 0..now
<1> DEFINE T == [pair : Pairs, verified : 0..now, recorded : 0..now]
<1>1. accepted \in Seq(T)
  BY DEF ReplayInv, AcceptedOK
<1> HIDE DEF T
<1>2. accepted[i] \in T
  BY <1>1
<1> QED BY <1>2 DEF T

\* A new cache.
LEMMA ReplayInitInv == ReplayInit => ReplayInv
<1> SUFFICES ASSUME ReplayInit PROVE ReplayInv
  OBVIOUS
<1>1. cache.list = <<>> /\ DOMAIN cache.index = {} /\ cache.made = 0
  BY DEF ReplayInit, C!Empty
<1>2. now = 0 /\ behind = 0 /\ accepted = <<>> /\ Len(accepted) = 0
  BY DEF ReplayInit
<1>3. CacheOK
  <2>1. P!Sound(cache, Pairs, 0)
    BY <1>1, P!EmptySound
  <2> QED BY <1>1, <1>2, <2>1, Floor DEF CacheOK
<1>4. AcceptedOK /\ Kept /\ Separated
  BY <1>2 DEF AcceptedOK, Kept, Separated
<1>5. RequestsOK
  BY <1>2 DEF ReplayInit, RequestsOK
<1>6. ClocksOK /\ RestOK
  BY <1>2, Floor DEF ReplayInit, ClocksOK, RestOK
<1> QED BY <1>3, <1>4, <1>5, <1>6 DEF ReplayInv

-----------------------------------------------------------------------------
(* The steps *)

\* Steps that leave the cache, the clocks and the history alone.
LEMMA RequestStep ==
  ASSUME ReplayInv, UNCHANGED <<cache, now, behind, accepted, evicted>>, RequestsOK',
         janitor' \in {"running", "stopping", "exited"}
  PROVE  ReplayInv'
<1>1. CacheOK' /\ ClocksOK' /\ RestOK'
  BY DEF ReplayInv, CacheOK, ClocksOK, RestOK
<1>2. AcceptedOK' /\ Kept' /\ Separated'
  BY DEF ReplayInv, AcceptedOK, InTime, Kept, Expired, Separated
<1> QED BY <1>1, <1>2 DEF ReplayInv

\* A request is refused without a look at the cache.
LEMMA RefuseInv ==
  ASSUME ReplayInv, NEW r \in Requests, RefuseUnverified(r)
  PROVE  ReplayInv'
<1>1. RequestsOK'
  BY DEF RefuseUnverified, ReplayInv, RequestsOK, InTime
<1>2. UNCHANGED <<cache, now, behind, accepted, evicted, janitor>>
  BY DEF RefuseUnverified
<1> QED BY <1>1, <1>2, RequestStep DEF ReplayInv, RestOK

\* A verified pair is in its window by the wall clock.
LEMMA VerifyInv ==
  ASSUME ReplayInv, NEW r \in Requests, Verify(r)
  PROVE  ReplayInv'
<1>1. UNCHANGED <<cache, now, behind, accepted, evicted, janitor>>
      /\ req' = [req EXCEPT ![r].pc = "verified", ![r].at = now]
  BY DEF Verify
<1>2. now \in Nat /\ behind \in Nat /\ now \in 0..now
  BY Floor DEF ReplayInv, ClocksOK
<1>3. req[r].pair \in Pairs /\ req[r].pair.ts \in Nat
  BY Floor DEF ReplayInv, RequestsOK
<1>4. InTime(req[r].pair, now)
  BY <1>2, <1>3, Floor DEF Verify, InWindow, InTime
<1>5. RequestsOK'
  BY <1>1, <1>2, <1>4, ZenonT(60) DEF ReplayInv, RequestsOK, InTime
<1> QED BY <1>1, <1>5, RequestStep DEF ReplayInv, RestOK

\* A duplicate is refused.
LEMMA RefuseDuplicateInv ==
  ASSUME ReplayInv, NEW r \in Requests, req' = [req EXCEPT ![r].pc = "refused"],
         UNCHANGED <<cache, accepted, evicted, now, behind, janitor>>
  PROVE  ReplayInv'
<1>1. RequestsOK'
  BY DEF ReplayInv, RequestsOK, InTime
<1> QED BY <1>1, RequestStep DEF ReplayInv, RestOK

\* No hit for an accepted pair: its record was evicted, or has reached its TTL.
LEMMA NoHitNoRecord ==
  ASSUME ReplayInv, NEW p \in Pairs, ~C!Hit(cache, p, now), NEW i \in 1..Len(accepted),
         accepted[i].pair = p, p \notin evicted
  PROVE  Expired(accepted[i].recorded)
<1>1. now \in Nat /\ ReplayTTL \in Nat
  BY Floor DEF ReplayInv, ClocksOK
<1>2. ASSUME NEW x \in P!Entries(cache), x.key = p, x.at = accepted[i].recorded
      PROVE  Expired(accepted[i].recorded)
  <2>1. /\ P!Sound(cache, Pairs, now)
    BY DEF ReplayInv, CacheOK
  <2>2. p \in DOMAIN cache.index /\ P!Element(cache, p) = x /\ x \in P!Elem(Pairs, now, cache.made)
    BY <1>1, <1>2, <2>1, P!EntryIsElement
  <2>3. x.at \in Nat
    BY <2>2 DEF P!Elem
  <2>4. ~C!Within(x.at, now)
    BY <2>2, SameCache DEF C!Hit
  <2> QED BY <1>1, <1>2, <2>3, <2>4 DEF C!Within, Expired
<1> QED BY <1>2 DEF ReplayInv, Kept

\* A fresh pair is recorded.
LEMMA AcceptInv ==
  ASSUME ReplayInv, NEW r \in Requests, req[r].pc = "verified", ~C!Hit(cache, req[r].pair, now),
         req' = [req EXCEPT ![r].pc = "handled"],
         cache' = C!Record(cache, req[r].pair, now),
         accepted' = Append(accepted, [pair |-> req[r].pair, verified |-> req[r].at, recorded |-> now]),
         evicted' = evicted \cup C!Evicted(cache, req[r].pair, now),
         UNCHANGED <<now, behind, janitor>>
  PROVE  ReplayInv'
<1> DEFINE p == req[r].pair
           a == [pair |-> p, verified |-> req[r].at, recorded |-> now]
           n == Len(accepted)
           T == [pair : Pairs, verified : 0..now, recorded : 0..now]
<1>1. now \in Nat /\ behind \in Nat /\ ReplayTTL \in Nat
  BY Floor DEF ReplayInv, ClocksOK
<1>2. p \in Pairs /\ req[r].at \in 0..now /\ InTime(p, req[r].at)
  BY DEF ReplayInv, RequestsOK
<1>3. P!Recorded(cache', cache, p, Pairs, now)
  <2>1. P!Sound(cache, Pairs, now) /\ Capacity \in Nat
    BY Floor DEF ReplayInv, CacheOK
  <2>2. P!Recorded(P!Record(cache, p, now), cache, p, Pairs, now)
    BY <1>1, <1>2, <2>1, P!RecordSound
  <2> QED BY <2>2, SameCache
<1>4. evicted' = evicted \cup P!Evicted(cache, p, now)
  BY SameCache
<1>5. CacheOK'
  BY <1>3 DEF P!Recorded, CacheOK
<1>6. RestOK' /\ ClocksOK'
  BY <1>3, <1>4 DEF P!Recorded, ReplayInv, RestOK, ClocksOK
<1>7. RequestsOK'
  BY DEF ReplayInv, RequestsOK, InTime
<1>8. a \in T /\ a.pair = p /\ a.verified = req[r].at /\ a.recorded = now
  BY <1>1, <1>2
<1>9. accepted \in Seq(T) /\ n \in Nat /\ accepted' = Append(accepted, a)
  BY DEF ReplayInv, AcceptedOK
<1> HIDE DEF a, T
<1>10. accepted' \in Seq(T) /\ Len(accepted') = n + 1 /\ accepted'[n + 1] = a
       /\ \A i \in 1..n : accepted'[i] = accepted[i]
  BY <1>8, <1>9
<1>11. \A i \in 1..Len(accepted') : i \in 1..n \/ i = n + 1
  BY <1>9, <1>10
<1>12. \A i \in 1..n : accepted[i].recorded \in Nat /\ accepted[i].recorded <= now
  <2>1. \A i \in 1..n : accepted[i] \in T
    BY <1>9
  <2> QED BY <1>1, <2>1 DEF T
<1> HIDE DEF n
<1>13. AcceptedOK'
  <2>1. \A i \in 1..n : InTime(accepted[i].pair, accepted[i].verified)
                          /\ accepted[i].verified <= accepted[i].recorded
    BY DEF ReplayInv, AcceptedOK, n
  <2>2. \A i \in 1..Len(accepted') :
          InTime(accepted'[i].pair, accepted'[i].verified) /\ accepted'[i].verified <= accepted'[i].recorded
    BY <1>1, <1>2, <1>8, <1>10, <1>11, <2>1
  <2>3. accepted' \in Seq([pair : Pairs, verified : 0..now', recorded : 0..now'])
    BY <1>10 DEF T
  <2> QED BY <2>2, <2>3 DEF AcceptedOK, InTime
<1>14. \A i \in 1..n : accepted[i].pair = p /\ p \notin evicted => Expired(accepted[i].recorded)
  BY <1>2, NoHitNoRecord DEF n
<1>15. Kept'
  <2> SUFFICES ASSUME NEW i \in 1..Len(accepted'), accepted'[i].pair \notin evicted'
               PROVE  \/ \E x \in P!Entries(cache') : x.key = accepted'[i].pair /\ x.at = accepted'[i].recorded
                      \/ Expired(accepted'[i].recorded)
    BY DEF Kept, Expired, P!Entries
  <2>1. CASE i = n + 1
    <3> DEFINE e == [key |-> p, at |-> now, el |-> cache.made + 1]
    <3>1. e \in P!Entries(cache')
      BY <1>3, <1>4, <1>8, <1>10, <2>1 DEF P!Recorded
    <3> QED BY <1>8, <1>10, <2>1, <3>1
  <2>2. CASE i \in 1..n /\ accepted[i].pair = p
    BY <1>4, <1>10, <1>14, <2>2
  <2>3. CASE i \in 1..n /\ accepted[i].pair # p
    <3>1. accepted'[i] = accepted[i] /\ accepted[i].pair \notin evicted
          /\ accepted[i].pair \notin P!Evicted(cache, p, now)
      BY <1>4, <1>10, <2>3
    <3>2. CASE Expired(accepted[i].recorded)
      BY <3>1, <3>2
    <3>3. CASE \E x \in P!Entries(cache) : x.key = accepted[i].pair /\ x.at = accepted[i].recorded
      <4>1. PICK x \in P!Entries(cache) : x.key = accepted[i].pair /\ x.at = accepted[i].recorded
        BY <3>3
      <4>2. x \in P!Entries(cache')
        BY <1>3, <2>3, <3>1, <4>1 DEF P!Recorded
      <4> QED BY <3>1, <4>1, <4>2
    <3> QED BY <2>3, <3>1, <3>2, <3>3 DEF ReplayInv, Kept, n
  <2> QED BY <1>11, <2>1, <2>2, <2>3
<1>16. Separated'
  <2> SUFFICES ASSUME NEW i \in 1..Len(accepted'), NEW j \in 1..Len(accepted'), i < j,
                      accepted'[i].pair = accepted'[j].pair, accepted'[i].pair \notin evicted'
               PROVE  ReplayTTL > 0 /\ accepted'[j].recorded >= accepted'[i].recorded + ReplayTTL
    BY DEF Separated
  <2>1. i \in 1..n /\ accepted'[i] = accepted[i] /\ accepted[i].pair \notin evicted
    BY <1>4, <1>9, <1>10, <1>11 DEF n
  <2>2. CASE j = n + 1
    BY <1>1, <1>8, <1>10, <1>12, <1>14, <2>1, <2>2 DEF Expired
  <2>3. CASE j \in 1..n
    BY <1>10, <2>1, <2>3 DEF ReplayInv, Separated, n
  <2> QED BY <1>11, <2>2, <2>3
<1> QED BY <1>5, <1>6, <1>7, <1>13, <1>15, <1>16 DEF ReplayInv

\* CheckAndInsert.
LEMMA CheckAndInsertInv ==
  ASSUME ReplayInv, NEW r \in Requests, CheckAndInsert(r)
  PROVE  ReplayInv'
<1>1. CASE req' = [req EXCEPT ![r].pc = "refused"] /\ UNCHANGED <<cache, accepted, evicted, now, behind, janitor>>
  BY <1>1, RefuseDuplicateInv
<1>2. CASE ~C!Hit(cache, req[r].pair, now) /\ req' = [req EXCEPT ![r].pc = "handled"]
  BY <1>2, AcceptInv DEF CheckAndInsert
<1> QED BY <1>1, <1>2 DEF CheckAndInsert

\* A set of positions that has all positions before each of its own is counted by
\* its last one.
LEMMA CountOfPrefix ==
  ASSUME NEW n \in Nat, NEW S \in SUBSET (1..n), \A i \in S : 1..i \subseteq S
  PROVE  Cardinality(S) \in 0..n /\ \A i \in 1..n : i \in S <=> i <= Cardinality(S)
<1>1. IsFiniteSet(1..n) /\ Cardinality(1..n) = n
  <2>1. 1 \in Int /\ n \in Int
    OBVIOUS
  <2>2. IsFiniteSet(1..n) /\ Cardinality(1..n) = IF 1 > n THEN 0 ELSE n - 1 + 1
    BY ONLY <2>1, FS_Interval
  <2> QED BY <2>2
<1>2. IsFiniteSet(S) /\ Cardinality(S) \in Nat /\ Cardinality(S) <= n
  BY <1>1, FS_Subset, FS_CardinalityType, ZenonT(60)
<1>3. ASSUME NEW i \in S PROVE i <= Cardinality(S)
  <2>1. i \in Nat /\ i >= 1 /\ 1..i \subseteq S
    OBVIOUS
  <2>2. 1 \in Int /\ i \in Int
    BY <2>1
  <2>3. Cardinality(1..i) = IF 1 > i THEN 0 ELSE i - 1 + 1
    BY ONLY <2>2, FS_Interval
  <2>4. Cardinality(1..i) <= Cardinality(S)
    BY <1>2, <2>1, FS_Subset
  <2> QED BY <2>1, <2>3, <2>4
<1>4. ASSUME NEW i \in 1..n, i \notin S PROVE Cardinality(S) < i
  <2>1. i - 1 \in Nat /\ S \subseteq 1..(i - 1)
    <3> SUFFICES ASSUME NEW m \in S PROVE m \in 1..(i - 1)
      OBVIOUS
    <3>1. m \in 1..n /\ 1..m \subseteq S
      OBVIOUS
    <3>2. i \notin 1..m
      BY <1>4, <3>1
    <3> QED BY <3>1, <3>2
  <2>2. 1 \in Int /\ i - 1 \in Int
    BY <2>1
  <2>3. IsFiniteSet(1..(i - 1)) /\ Cardinality(1..(i - 1)) = IF 1 > i - 1 THEN 0 ELSE (i - 1) - 1 + 1
    BY ONLY <2>2, FS_Interval
  <2>4. Cardinality(S) <= Cardinality(1..(i - 1))
    BY <2>1, <2>3, FS_Subset
  <2> QED BY <1>2, <2>1, <2>3, <2>4
<1> QED BY <1>2, <1>3, <1>4

\* The list is in order, so that sweep stops at the first fresh entry and leaves no
\* stale one behind.
LEMMA SweepIsExact ==
  ASSUME P!Sound(cache, Pairs, now), now \in Nat, ReplayTTL \in Nat
  PROVE  /\ StaleCount \in 0..Len(cache.list)
         /\ \A i \in 1..Len(cache.list) : i <= StaleCount <=> Stale(cache.list[i].at)
<1> DEFINE n == Len(cache.list)
           S == {i \in 1..n : \A j \in 1..i : Stale(cache.list[j].at)}
<1>1. n \in Nat /\ \A i \in 1..n : cache.list[i].at \in Nat
  BY P!SoundEntries
<1>2. \A i, j \in 1..n : i < j => cache.list[i].at <= cache.list[j].at
  BY DEF P!Sound, P!Agree
<1>3. ASSUME NEW i \in S PROVE 1..i \subseteq S
  BY <1>1
<1>4. Cardinality(S) \in 0..n /\ \A i \in 1..n : i \in S <=> i <= Cardinality(S)
  <2>1. S \in SUBSET (1..n)
    OBVIOUS
  <2> HIDE DEF S, n
  <2> QED BY <1>1, <1>3, <2>1, CountOfPrefix
<1>5. ASSUME NEW i \in 1..n, Stale(cache.list[i].at) PROVE i \in S
  <2> SUFFICES ASSUME NEW j \in 1..i PROVE Stale(cache.list[j].at)
    OBVIOUS
  <2>1. j \in 1..n /\ (j < i \/ j = i)
    BY <1>1
  <2>2. CASE j = i
    BY <1>5, <2>2
  <2>3. CASE j < i
    <3>1. cache.list[j].at <= cache.list[i].at
      BY <1>2, <2>1, <2>3
    <3> QED BY <1>1, <1>5, <2>1, <3>1 DEF Stale
  <2> QED BY <2>1, <2>2, <2>3
<1>6. ASSUME NEW i \in S PROVE i \in 1..n /\ Stale(cache.list[i].at)
  BY <1>1
<1>7. StaleCount = Cardinality(S)
  BY DEF StaleCount
<1> HIDE DEF S
<1> QED BY <1>4, <1>5, <1>6, <1>7

\* sweep removes what has reached its TTL, and nothing else.
LEMMA SweepInv ==
  ASSUME ReplayInv, Sweep
  PROVE  ReplayInv'
<1>1. /\ ReplayTTL > 0 /\ cache' = C!DropFront(cache, StaleCount)
      /\ UNCHANGED <<now, behind, req, janitor, accepted, evicted>>
  BY DEF Sweep
<1>2. now \in Nat /\ ReplayTTL \in Nat /\ P!Sound(cache, Pairs, now)
  BY Floor DEF ReplayInv, ClocksOK, CacheOK
<1>3. /\ StaleCount \in 0..Len(cache.list) /\ Len(cache.list) \in Nat
      /\ \A i \in 1..Len(cache.list) : i <= StaleCount <=> Stale(cache.list[i].at)
  BY <1>2, SweepIsExact, P!SoundEntries
<1>4. PICK k \in 0..Len(cache.list) : k = StaleCount
  BY <1>3
<1>5. P!Dropped(cache', cache, k, Pairs, now)
  <2>1. P!Dropped(P!DropFront(cache, k), cache, k, Pairs, now)
    BY <1>2, P!DropFrontSound
  <2> QED BY <1>1, <1>4, <2>1, SameCache
<1>6. CacheOK'
  BY <1>1, <1>2, <1>3, <1>4, <1>5, Floor DEF P!Dropped, ReplayInv, CacheOK
<1>7. Kept'
  <2> SUFFICES ASSUME NEW i \in 1..Len(accepted), accepted[i].pair \notin evicted
               PROVE  \/ \E x \in P!Entries(cache') : x.key = accepted[i].pair /\ x.at = accepted[i].recorded
                      \/ Expired(accepted[i].recorded)
    BY <1>1 DEF Kept, Expired, P!Entries
  <2>1. CASE \E x \in P!Entries(cache) : x.key = accepted[i].pair /\ x.at = accepted[i].recorded
    <3>1. PICK x \in P!Entries(cache) : x.key = accepted[i].pair /\ x.at = accepted[i].recorded
      BY <2>1
    <3>2. CASE x \in P!Entries(cache')
      BY <3>1, <3>2
    <3>3. CASE \E m \in 1..k : cache.list[m] = x
      <4>1. PICK m \in 1..k : cache.list[m] = x
        BY <3>3
      <4>2. m \in 1..Len(cache.list) /\ m <= StaleCount
        BY <1>3, <1>4
      <4>3. Stale(x.at) /\ x.at \in Nat
        BY <1>2, <1>3, <4>1, <4>2, P!SoundEntries
      <4> QED BY <1>1, <1>2, <3>1, <4>3 DEF Stale, Expired
    <3> QED BY <1>5, <3>2, <3>3 DEF P!Dropped
  <2> QED BY <2>1 DEF ReplayInv, Kept
<1>8. RequestsOK' /\ AcceptedOK' /\ Separated' /\ ClocksOK' /\ RestOK'
  BY <1>1 DEF ReplayInv, RequestsOK, AcceptedOK, InTime, Separated, ClocksOK, RestOK
<1> QED BY <1>6, <1>7, <1>8 DEF ReplayInv

\* The monotonic clock goes on, or the wall clock is set back.
LEMMA ClockInv ==
  ASSUME ReplayInv, Tick \/ SetClockBack
  PROVE  ReplayInv'
<1>1. /\ UNCHANGED <<cache, req, janitor, accepted, evicted>>
      /\ now \in Nat /\ now' \in Nat /\ now <= now' /\ behind \in Nat /\ behind' \in Nat /\ behind <= behind'
      /\ ClocksOK'
  BY Floor DEF Tick, SetClockBack, ReplayInv, ClocksOK
<1>2. \A p \in Pairs, v \in 0..now : InTime(p, v) => InTime(p, v)'
  BY <1>1, Floor DEF InTime
<1>3. CacheOK'
  <2>1. P!Sound(cache, Pairs, now')
    BY <1>1, P!SoundLater DEF ReplayInv, CacheOK
  <2>2. Len(cache.list) = Len(cache'.list) /\ P!Sound(cache', Pairs, now')
    BY <1>1, <2>1
  <2> QED BY <1>1, <2>2 DEF ReplayInv, CacheOK
<1>4. \A v : v \in 0..now => v \in 0..now'
  BY <1>1
<1>5. RequestsOK'
  BY <1>1, <1>2, <1>4 DEF ReplayInv, RequestsOK
<1>6. \A i \in 1..Len(accepted) : /\ accepted[i].pair \in Pairs /\ accepted[i].verified \in 0..now
                                  /\ accepted[i].recorded \in 0..now
  BY AcceptedFields
<1>7. AcceptedOK'
  <2> DEFINE T(t) == [pair : Pairs, verified : 0..t, recorded : 0..t]
  <2>1. accepted \in Seq(T(now)) /\ Len(accepted) \in Nat
    BY DEF ReplayInv, AcceptedOK
  <2>2. \A x \in T(now) : x \in T(now')
    BY <1>4
  <2>3. accepted \in Seq(T(now'))
    <3> HIDE DEF T
    <3> QED BY <2>1, <2>2
  <2> QED BY <1>1, <1>2, <1>6, <2>3 DEF ReplayInv, AcceptedOK
<1>8. Kept'
  <2>1. \A i \in 1..Len(accepted) : Expired(accepted[i].recorded) => Expired(accepted[i].recorded)'
    BY <1>1, <1>6, Floor DEF Expired
  <2> QED BY <1>1, <2>1 DEF ReplayInv, Kept, P!Entries
<1>9. Separated' /\ RestOK'
  BY <1>1 DEF ReplayInv, Separated, RestOK
<1> QED BY <1>1, <1>3, <1>5, <1>7, <1>8, <1>9 DEF ReplayInv

-----------------------------------------------------------------------------
(* What holds in every reachable state *)

\* The invariant is inductive.
LEMMA ReplayNextInv == ReplayInv /\ [ReplayNext]_replayVars => ReplayInv'
<1> SUFFICES ASSUME ReplayInv, [ReplayNext]_replayVars PROVE ReplayInv'
  OBVIOUS
<1>1. ASSUME NEW r \in Requests, RefuseUnverified(r) \/ Verify(r) \/ CheckAndInsert(r)
      PROVE  ReplayInv'
  BY <1>1, RefuseInv, VerifyInv, CheckAndInsertInv
<1>2. CASE Sweep
  BY <1>2, SweepInv
<1>3. CASE StopJanitor \/ JanitorExit
  <2>1. UNCHANGED <<cache, now, behind, req, accepted, evicted>>
        /\ janitor' \in {"running", "stopping", "exited"}
    BY <1>3 DEF StopJanitor, JanitorExit
  <2>2. RequestsOK'
    BY <2>1 DEF ReplayInv, RequestsOK, InTime
  <2> QED BY <2>1, <2>2, RequestStep
<1>4. CASE Tick \/ SetClockBack
  BY <1>4, ClockInv
<1>5. CASE UNCHANGED replayVars
  <2>1. UNCHANGED <<cache, now, behind, req, janitor, accepted, evicted>>
    BY <1>5 DEF replayVars
  <2>2. RequestsOK'
    BY <2>1 DEF ReplayInv, RequestsOK, InTime
  <2> QED BY <2>1, <2>2, RequestStep DEF ReplayInv, RestOK
<1> QED BY <1>1, <1>2, <1>3, <1>4, <1>5 DEF ReplayNext

\* It holds in every reachable state.
LEMMA ReplayInvariant == ReplaySpec => []ReplayInv
BY ReplayInitInv, ReplayNextInv, PTL DEF ReplaySpec

\* List and index agree, oldest first, within the capacity, and a sweep would leave
\* nothing expired behind (CheckAndInsert, sweep).
THEOREM ReplayCacheWellFormed == ReplaySpec => []ReplayWellFormed
<1>1. ReplayInv => ReplayWellFormed
  <2> SUFFICES ASSUME ReplayInv PROVE ReplayWellFormed
    OBVIOUS
  <2>1. now \in Nat /\ ReplayTTL \in Nat /\ P!Sound(cache, Pairs, now)
    BY Floor DEF ReplayInv, ClocksOK, CacheOK
  <2>2. cache.list \in Seq([key : Pairs, at : 0..now, el : 1..cache.made])
    BY <2>1 DEF P!Sound, P!Elem
  <2>3. ReplayTypeOK
    BY <2>2 DEF ReplayInv, ClocksOK, RequestsOK, AcceptedOK, RestOK, ReplayTypeOK
  <2>4. C!WellFormed(cache)
    BY <2>1, SameCache DEF ReplayInv, CacheOK, P!Sound, C!WellFormed
  <2>5. \A i \in 1..Len(cache.list) : Stale(cache.list[i].at) => i <= StaleCount
    BY <2>1, SweepIsExact
  <2> QED BY <2>3, <2>4, <2>5 DEF ReplayWellFormed
<1> QED BY <1>1, ReplayInvariant, PTL

\* A pair reaches the handler a second time only if it was evicted, or if the
\* second request was verified before the record of the first expired and asked the
\* cache after that (Auth, CheckAndInsert, ensureMinTTL).
THEOREM ReplayHandledOnce == ReplaySpec => []HandledOnce
<1>1. ReplayInv => HandledOnce
  <2> SUFFICES ASSUME ReplayInv, NEW i \in 1..Len(accepted), NEW j \in 1..Len(accepted), i < j,
                      accepted[i].pair = accepted[j].pair, accepted[i].pair \notin evicted
               PROVE  /\ accepted[j].verified <= accepted[i].recorded + ReplayTTL + behind
                      /\ accepted[j].recorded >= accepted[i].recorded + ReplayTTL
                      /\ ReplayTTL > 0
    BY DEF HandledOnce
  <2>1. ReplayTTL > 0 /\ accepted[j].recorded >= accepted[i].recorded + ReplayTTL
    BY DEF ReplayInv, Separated
  <2>2. /\ accepted[i].pair.ts \in Nat /\ accepted[i].verified \in Nat /\ accepted[i].recorded \in Nat
        /\ accepted[j].verified \in Nat
    BY AcceptedFields, Floor
  <2>3. InTime(accepted[i].pair, accepted[i].verified) /\ InTime(accepted[j].pair, accepted[j].verified)
        /\ accepted[i].verified <= accepted[i].recorded
    BY DEF ReplayInv, AcceptedOK
  <2>4. behind \in Nat /\ Skew \in Nat /\ MaxFutureSkew \in Nat /\ ReplayTTL \in Nat
        /\ (ReplayTTL > 0 => ReplayTTL >= Skew + MaxFutureSkew)
    BY Floor DEF ReplayInv, ClocksOK
  <2>5. accepted[j].verified <= accepted[i].pair.ts + Skew + behind
        /\ accepted[i].pair.ts <= accepted[i].verified + MaxFutureSkew
    BY <2>3 DEF InTime
  <2>6. accepted[j].verified <= accepted[i].recorded + ReplayTTL + behind
    <3>1. ASSUME NEW vj \in Nat, NEW ri \in Nat, NEW vi \in Nat, NEW ts \in Nat,
                 vj <= ts + Skew + behind, ts <= vi + MaxFutureSkew, vi <= ri
          PROVE  vj <= ri + ReplayTTL + behind
      BY <2>1, <2>4, <3>1
    <3> QED BY <2>2, <2>3, <2>5, <3>1
  <2> QED BY <2>1, <2>6
<1> QED BY <1>1, ReplayInvariant, PTL
=============================================================================
