-------------------------- MODULE DedupCacheProofs --------------------------
(***************************************************************************)
(* Proofs about the dedup cache and the handler around it, for any         *)
(* requests, messages, TTL, capacity and number of restarts, with the lock *)
(* and without it.                                                         *)
(*                                                                         *)
(* A delivery has a start, at which its message is recorded, and an end.   *)
(* The invariant speaks of both: of the requests that have started and of  *)
(* the deliveries of this life.  As long as a start has not reached its    *)
(* TTL and its message was neither evicted nor robbed, the cache holds its *)
(* record (StartKept, DeliveredKept), and two starts of a message are a    *)
(* TTL apart (Spacing).  A rollback of another request must be told from   *)
(* one's own: hence the elements.                                          *)
(***************************************************************************)
EXTENDS DedupCache, TLAPS

P == INSTANCE TTLCacheProofs

\* The cache that the specification uses is the one that the lemmas are about.
LEMMA SameCache ==
  /\ \A c, k, t : C!Record(c, k, t) = P!Record(c, k, t) /\ C!Evicted(c, k, t) = P!Evicted(c, k, t)
  /\ \A c, k : C!Remove(c, k) = P!Remove(c, k) /\ C!Element(c, k) = P!Element(c, k)
  /\ \A c : C!Agree(c) = P!Agree(c)
<1>1. \A m, ks : C!Without(m, ks) = P!Without(m, ks)
  BY DEF C!Without, P!Without
<1>2. \A c, k : C!Position(c, k) = P!Position(c, k)
  BY DEF C!Position, P!Position
<1>3. \A c, k : C!Element(c, k) = P!Element(c, k)
  BY <1>2 DEF C!Element, P!Element
<1>4. \A c, k : C!Remove(c, k) = P!Remove(c, k)
  BY <1>1, <1>2 DEF C!Remove, P!Remove
<1>5. \A c, k, t : C!PushBack(c, k, t) = P!PushBack(c, k, t)
  BY DEF C!PushBack, P!PushBack
<1>6. \A c : C!OverCapacity(c) = P!OverCapacity(c)
  BY DEF C!OverCapacity, P!OverCapacity
<1>7. \A c, n : C!DropFront(c, n) = P!DropFront(c, n)
  BY <1>1 DEF C!DropFront, P!DropFront
<1>8. \A c, k, t : C!Record(c, k, t) = P!Record(c, k, t) /\ C!Evicted(c, k, t) = P!Evicted(c, k, t)
  BY <1>4, <1>5, <1>6, <1>7 DEF C!Record, P!Record, C!Evicted, P!Evicted
<1>9. \A c : C!Agree(c) = P!Agree(c)
  BY DEF C!Agree, P!Agree
<1> QED BY <1>3, <1>4, <1>8, <1>9

-----------------------------------------------------------------------------
(* The inductive invariant *)

CacheOK ==
  /\ P!Sound(cache, Messages, now) /\ (Capacity > 0 => Len(cache.list) <= Capacity)
  /\ \A x \in P!Entries(cache) : x.key.id # NoID

RequestsOK ==
  req \in [Requests -> [pc : {"new", "check", "deliver", "acked", "failed", "lost"},
                        msg : Messages, at : 0..now, el : 0..cache.made]]

Delivery == [msg : Messages, recorded : 0..now, life : 0..life]

RestOK ==
  /\ now \in 0..MaxTime /\ life \in 0..MaxRestarts
  /\ locked \in BOOLEAN /\ lock \subseteq Scopes /\ (~locked => lock = {})
  /\ delivered \in Seq(Delivery)
  /\ evicted \subseteq Messages /\ robbed \subseteq Messages

\* The requests that hold the lock of their scope, and those that have recorded
\* their message and not yet delivered it.
Busy(r) == req[r].pc \in {"check", "deliver"}
Started(r) == req[r].pc = "deliver" /\ req[r].msg.id # NoID

LocksOK ==
  locked => \A r \in Requests : Busy(r) =>
              /\ req[r].msg.scope \in lock
              /\ \A s \in Requests : s # r /\ Busy(s) => req[s].msg.scope # req[r].msg.scope

OwnElements ==
  /\ \A r, s \in Requests : r # s /\ Started(r) /\ Started(s) => req[r].el # req[s].el
  /\ locked => \A r \in Requests, x \in P!Entries(cache) :
                 Started(r) /\ x.key = req[r].msg => x.el = req[r].el

\* Messages that DeliveredOnce makes no exception for.
Clean(m) == m.id # NoID /\ m \notin evicted /\ (locked \/ m \notin robbed)

After(a, b) == TTL > 0 /\ b > a + TTL
Apart(a, b) == After(a, b) \/ After(b, a)

StartKept ==
  \A r \in Requests : Started(r) /\ Clean(req[r].msg) =>
    \/ After(req[r].at, now)
    \/ \E x \in P!Entries(cache) : x.key = req[r].msg /\ x.at = req[r].at /\ x.el = req[r].el

DeliveredKept ==
  \A i \in 1..Len(delivered) : delivered[i].life = life /\ Clean(delivered[i].msg) =>
    \/ After(delivered[i].recorded, now)
    \/ \E x \in P!Entries(cache) : /\ x.key = delivered[i].msg /\ x.at = delivered[i].recorded
                                   /\ \A r \in Requests : Started(r) => req[r].el # x.el

Spacing ==
  /\ \A r, s \in Requests :
       r # s /\ Started(r) /\ Started(s) /\ req[r].msg = req[s].msg /\ Clean(req[r].msg) =>
         Apart(req[r].at, req[s].at)
  /\ \A r \in Requests, i \in 1..Len(delivered) :
       /\ Started(r) /\ delivered[i].life = life /\ delivered[i].msg = req[r].msg /\ Clean(req[r].msg)
       => Apart(req[r].at, delivered[i].recorded)
  /\ \A i, j \in 1..Len(delivered) :
       /\ i # j /\ delivered[i].msg = delivered[j].msg /\ delivered[i].life = delivered[j].life
       /\ Clean(delivered[i].msg)
       => Apart(delivered[i].recorded, delivered[j].recorded)

\* Under the lock, a record is of a message that was delivered or is about to be.
Delivered(m) == \E i \in 1..Len(delivered) : delivered[i].msg = m

Backed ==
  locked => /\ \A r \in Requests : req[r].pc = "acked" => Delivered(req[r].msg)
            /\ \A x \in P!Entries(cache) :
                 Delivered(x.key) \/ \E r \in Requests : req[r].pc = "deliver" /\ req[r].msg = x.key

DedupInv ==
  /\ CacheOK /\ RequestsOK /\ RestOK /\ LocksOK /\ OwnElements
  /\ StartKept /\ DeliveredKept /\ Spacing /\ Backed

\* The fields of a request.
LEMMA RequestFields ==
  ASSUME DedupInv, NEW r \in Requests
  PROVE  /\ req[r].msg \in Messages /\ req[r].at \in Nat /\ req[r].at <= now
         /\ req[r].el \in Nat /\ req[r].el <= cache.made /\ now \in Nat /\ cache.made \in Nat
<1>1. now \in Nat /\ cache.made \in Nat
  BY DedupAssumption DEF DedupInv, RestOK, CacheOK, P!Sound
<1> QED BY <1>1 DEF DedupInv, RequestsOK

\* The fields of a delivery.
LEMMA DeliveryFields ==
  ASSUME DedupInv
  PROVE  /\ Len(delivered) \in Nat
         /\ \A i \in 1..Len(delivered) :
              /\ delivered[i].msg \in Messages
              /\ delivered[i].recorded \in Nat /\ delivered[i].recorded <= now
              /\ delivered[i].life \in 0..life
<1>1. delivered \in Seq(Delivery) /\ now \in Nat
  BY DedupAssumption DEF DedupInv, RestOK
<1>2. Len(delivered) \in Nat /\ \A i \in 1..Len(delivered) : delivered[i] \in Delivery
  BY <1>1
<1> QED BY <1>1, <1>2 DEF Delivery

\* The fields of an entry.
LEMMA EntryFields ==
  ASSUME DedupInv, NEW x \in P!Entries(cache)
  PROVE  /\ x.key \in Messages /\ x.key.id # NoID /\ x.key \in DOMAIN cache.index
         /\ cache.index[x.key] = x.el /\ C!Element(cache, x.key) = x
         /\ x.at \in Nat /\ x.at <= now /\ x.el \in Nat /\ x.el <= cache.made
<1>1. now \in Nat /\ P!Sound(cache, Messages, now) /\ x.key.id # NoID
  BY DedupAssumption DEF DedupInv, RestOK, CacheOK
<1>2. /\ x.key \in DOMAIN cache.index /\ cache.index[x.key] = x.el /\ P!Element(cache, x.key) = x
      /\ x \in P!Elem(Messages, now, cache.made)
  BY <1>1, P!EntryIsElement
<1>3. cache.made \in Nat
  BY <1>1 DEF P!Sound
<1> QED BY <1>1, <1>2, <1>3, SameCache DEF P!Elem

\* A key of the index has an entry, and one only.
LEMMA IndexEntry ==
  ASSUME DedupInv, NEW m \in DOMAIN cache.index
  PROVE  C!Element(cache, m) \in P!Entries(cache) /\ C!Element(cache, m).key = m
<1>1. now \in Nat /\ P!Sound(cache, Messages, now)
  BY DedupAssumption DEF DedupInv, RestOK, CacheOK
<1> QED BY <1>1, P!IndexLeads, SameCache

\* A new cache.
LEMMA DedupInitInv == DedupInit => DedupInv
<1> SUFFICES ASSUME DedupInit PROVE DedupInv
  OBVIOUS
<1>1. cache.list = <<>> /\ DOMAIN cache.index = {} /\ cache.made = 0 /\ now = 0 /\ 0 \in Nat
  BY DEF DedupInit, C!Empty
<1>2. P!Sound(cache, Messages, now) /\ P!Entries(cache) = {}
  BY <1>1, P!EmptySound
<1>3. CacheOK
  BY <1>1, <1>2, DedupAssumption DEF CacheOK
<1>4. RequestsOK /\ \A r \in Requests : req[r].pc = "new"
  BY <1>1 DEF DedupInit, RequestsOK
<1>5. delivered = <<>> /\ Len(delivered) = 0
  BY DEF DedupInit
<1>6. RestOK
  BY <1>1, <1>5, DedupAssumption DEF DedupInit, RestOK
<1>7. LocksOK /\ OwnElements /\ StartKept
  BY <1>4 DEF LocksOK, OwnElements, StartKept, Busy, Started
<1>8. DeliveredKept /\ Spacing
  BY <1>4, <1>5 DEF DeliveredKept, Spacing, Started
<1>9. Backed
  BY <1>2, <1>4 DEF Backed
<1> QED BY <1>3, <1>4, <1>6, <1>7, <1>8, <1>9 DEF DedupInv

-----------------------------------------------------------------------------
(* The steps *)

\* Steps at which nothing is recorded, removed or delivered.
LEMMA QuietStep ==
  ASSUME DedupInv, UNCHANGED <<cache, now, locked, life, delivered, evicted, robbed>>,
         RequestsOK', LocksOK', Backed', lock' \subseteq Scopes, ~locked => lock' = {},
         \A r \in Requests : Started(r)' <=> Started(r),
         \A r \in Requests : Started(r) => req'[r] = req[r]
  PROVE  DedupInv'
<1>1. CacheOK' /\ RestOK'
  BY DEF DedupInv, CacheOK, RestOK, Delivery, P!Entries
<1>2. OwnElements'
  BY DEF DedupInv, OwnElements, P!Entries
<1>3. StartKept'
  BY DEF DedupInv, StartKept, Clean, P!Entries
<1>4. DeliveredKept'
  BY DEF DedupInv, DeliveredKept, Clean, P!Entries
<1>5. Spacing'
  BY DEF DedupInv, Spacing, Clean
<1> QED BY <1>1, <1>2, <1>3, <1>4, <1>5 DEF DedupInv

\* A handler takes the lock of its scope, if there is one.
LEMMA LockInv ==
  ASSUME DedupInv, NEW r \in Requests, Lock(r)
  PROVE  DedupInv'
<1>1. /\ req[r].pc = "new" /\ req' = [req EXCEPT ![r].pc = "check"]
      /\ UNCHANGED <<cache, now, locked, life, delivered, evicted, robbed>>
      /\ lock' = IF locked THEN lock \cup {req[r].msg.scope} ELSE lock
      /\ locked => req[r].msg.scope \notin lock
  BY DEF Lock
<1>2. /\ req'[r].pc = "check" /\ req'[r].msg = req[r].msg
      /\ \A s \in Requests : s # r => req'[s] = req[s]
  BY <1>1 DEF DedupInv, RequestsOK
<1>3. RequestsOK'
  BY <1>1 DEF DedupInv, RequestsOK
<1>4. LocksOK'
  <2>1. \A s \in Requests : s # r => (Busy(s)' <=> Busy(s)) /\ req'[s] = req[s]
    BY <1>2 DEF Busy
  <2>2. ASSUME locked, NEW s \in Requests, s # r, Busy(s)
        PROVE  req[s].msg.scope \in lock /\ req[s].msg.scope # req[r].msg.scope
    BY <1>1, <2>2 DEF DedupInv, LocksOK
  <2> QED BY <1>1, <1>2, <2>1, <2>2 DEF DedupInv, LocksOK
<1>5. Backed'
  BY <1>1, <1>2 DEF DedupInv, Backed, Delivered, P!Entries
<1>6. lock' \subseteq Scopes /\ (~locked => lock' = {})
  BY <1>1, RequestFields DEF DedupInv, RestOK, Messages
<1>7. (\A s \in Requests : Started(s)' <=> Started(s)) /\ \A s \in Requests : Started(s) => req'[s] = req[s]
  BY <1>1, <1>2 DEF Started
<1> QED BY <1>1, <1>3, <1>4, <1>5, <1>6, <1>7, QuietStep

\* A handler ends and gives up its lock.
LEMMA FinishLocks ==
  ASSUME DedupInv, NEW r \in Requests, NEW pc \in {"acked", "failed"}, Finish(r, pc), Busy(r),
         locked' = locked
  PROVE  /\ LocksOK' /\ lock' \subseteq Scopes /\ (~locked => lock' = {})
         /\ req'[r].pc = pc /\ req'[r].msg = req[r].msg /\ req' = [req EXCEPT ![r].pc = pc]
         /\ \A s \in Requests : s # r => req'[s] = req[s]
<1>1. req' = [req EXCEPT ![r].pc = pc] /\ lock' = lock \ {req[r].msg.scope}
  BY DEF Finish
<1>2. /\ req'[r].pc = pc /\ req'[r].msg = req[r].msg
      /\ \A s \in Requests : s # r => req'[s] = req[s]
  BY <1>1 DEF DedupInv, RequestsOK
<1>3. LocksOK'
  <2>1. ~Busy(r)' /\ \A s \in Requests : s # r => (Busy(s)' <=> Busy(s)) /\ req'[s] = req[s]
    BY <1>2 DEF Busy
  <2>2. ASSUME locked, NEW s \in Requests, s # r, Busy(s)
        PROVE  req[s].msg.scope \in lock /\ req[s].msg.scope # req[r].msg.scope
    BY <2>2 DEF DedupInv, LocksOK
  <2> QED BY <1>1, <2>1, <2>2 DEF DedupInv, LocksOK
<1> QED BY <1>1, <1>2, <1>3 DEF DedupInv, RestOK

\* A duplicate is acknowledged: under the lock, its record was followed by a delivery.
LEMMA AckDuplicateInv ==
  ASSUME DedupInv, NEW r \in Requests, AckDuplicate(r)
  PROVE  DedupInv'
<1>1. /\ req[r].pc = "check" /\ Duplicate(req[r].msg) /\ Finish(r, "acked")
      /\ UNCHANGED <<cache, now, locked, life, delivered, evicted, robbed>>
  BY DEF AckDuplicate
<1>2. Busy(r)
  BY <1>1 DEF Busy
<1>3. /\ LocksOK' /\ lock' \subseteq Scopes /\ (~locked => lock' = {})
      /\ req'[r].pc = "acked" /\ req'[r].msg = req[r].msg /\ req' = [req EXCEPT ![r].pc = "acked"]
      /\ \A s \in Requests : s # r => req'[s] = req[s]
  BY <1>1, <1>2, FinishLocks
<1>4. RequestsOK'
  BY <1>1, <1>3 DEF DedupInv, RequestsOK
<1>5. locked => Delivered(req[r].msg)
  <2> SUFFICES ASSUME locked PROVE Delivered(req[r].msg)
    OBVIOUS
  <2>1. PICK x \in P!Entries(cache) : x.key = req[r].msg
    BY <1>1, IndexEntry DEF Duplicate, C!Hit
  <2>2. ASSUME NEW s \in Requests, req[s].pc = "deliver", req[s].msg = x.key PROVE FALSE
    BY <1>1, <1>2, <2>1, <2>2 DEF DedupInv, LocksOK, Busy
  <2> QED BY <2>1, <2>2 DEF DedupInv, Backed
<1>6. Backed'
  <2>1. \A m : Delivered(m)' <=> Delivered(m)
    BY <1>1 DEF Delivered
  <2>2. P!Entries(cache)' = P!Entries(cache)
    BY <1>1 DEF P!Entries
  <2> QED BY <1>1, <1>3, <1>5, <2>1, <2>2 DEF DedupInv, Backed
<1>7. (\A s \in Requests : Started(s)' <=> Started(s)) /\ \A s \in Requests : Started(s) => req'[s] = req[s]
  BY <1>1, <1>3 DEF Started
<1> QED BY <1>1, <1>3, <1>4, <1>6, <1>7, QuietStep

\* What a request that records its message finds: no record, or an expired one.
LEMMA OldRecordExpired ==
  ASSUME DedupInv, NEW m \in Messages, ~Duplicate(m), m.id # NoID,
         NEW x \in P!Entries(cache), x.key = m
  PROVE  After(x.at, now)
<1>1. now \in Nat /\ x.at \in Nat /\ m \in DOMAIN cache.index /\ C!Element(cache, m) = x
  BY EntryFields, DedupAssumption DEF DedupInv, RestOK
<1>2. ~C!Within(x.at, now)
  BY <1>1 DEF Duplicate, C!Hit
<1> QED BY <1>1, <1>2, DedupAssumption DEF C!Within, After

\* A message without id is delivered and not recorded.
LEMMA StartUnrecordedInv ==
  ASSUME DedupInv, NEW r \in Requests, StartDelivery(r), req[r].msg.id = NoID
  PROVE  DedupInv'
<1>1. /\ req[r].pc = "check"
      /\ UNCHANGED <<cache, now, locked, lock, life, delivered, evicted, robbed>>
      /\ req' = [req EXCEPT ![r].pc = "deliver", ![r].at = now, ![r].el = cache.made]
  BY DEF StartDelivery, CheckAndRecord
<1>2. /\ req'[r].pc = "deliver" /\ req'[r].msg = req[r].msg
      /\ \A s \in Requests : s # r => req'[s] = req[s]
  BY <1>1 DEF DedupInv, RequestsOK
<1>3. RequestsOK'
  <2>1. now \in 0..now /\ cache.made \in 0..cache.made
    BY RequestFields
  <2>2. req[r] \in [pc : {"new", "check", "deliver", "acked", "failed", "lost"},
                    msg : Messages, at : 0..now, el : 0..cache.made]
    BY DEF DedupInv, RequestsOK
  <2>3. [req[r] EXCEPT !.pc = "deliver", !.at = now, !.el = cache.made] \in
          [pc : {"new", "check", "deliver", "acked", "failed", "lost"},
           msg : Messages, at : 0..now, el : 0..cache.made]
    BY <2>1, <2>2
  <2> QED BY <1>1, <2>3 DEF DedupInv, RequestsOK
<1>4. LocksOK'
  <2>1. \A s \in Requests : (Busy(s)' <=> Busy(s)) /\ req'[s].msg = req[s].msg
    BY <1>1, <1>2 DEF Busy
  <2>2. ASSUME locked, NEW s \in Requests, Busy(s)
        PROVE  /\ req[s].msg.scope \in lock
               /\ \A u \in Requests : u # s /\ Busy(u) => req[u].msg.scope # req[s].msg.scope
    BY <2>2 DEF DedupInv, LocksOK
  <2>3. ASSUME locked, NEW s \in Requests, Busy(s)'
        PROVE  /\ req'[s].msg.scope \in lock
               /\ \A u \in Requests : u # s /\ Busy(u)' => req'[u].msg.scope # req'[s].msg.scope
    <3>1. Busy(s) /\ req'[s].msg = req[s].msg
      BY <2>1, <2>3
    <3>2. ASSUME NEW u \in Requests, u # s, Busy(u)' PROVE req'[u].msg.scope # req'[s].msg.scope
      BY <2>1, <2>2, <2>3, <3>1, <3>2
    <3> QED BY <2>2, <2>3, <3>1, <3>2
  <2> QED BY <1>1, <2>3 DEF LocksOK
<1>5. Backed'
  <2>1. \A m : Delivered(m)' <=> Delivered(m)
    BY <1>1 DEF Delivered
  <2>2. P!Entries(cache)' = P!Entries(cache)
    BY <1>1 DEF P!Entries
  <2>3. \A s \in Requests : req[s].pc = "deliver" => req'[s] = req[s]
    BY <1>1, <1>2
  <2> QED BY <1>1, <1>2, <2>1, <2>2, <2>3, ZenonT(60) DEF DedupInv, Backed
<1>6. (\A s \in Requests : Started(s)' <=> Started(s)) /\ \A s \in Requests : Started(s) => req'[s] = req[s]
  BY <1>1, <1>2 DEF Started
<1>7. lock' \subseteq Scopes /\ (~locked => lock' = {})
  BY <1>1 DEF DedupInv, RestOK
<1> QED BY <1>1, <1>3, <1>4, <1>5, <1>6, <1>7, QuietStep

\* A message with an id is recorded, and its delivery starts.  Nothing in the
\* cache spoke against it: earlier starts that count are a TTL ago.
LEMMA StartRecordedInv ==
  ASSUME DedupInv, NEW r \in Requests, StartDelivery(r), req[r].msg.id # NoID
  PROVE  DedupInv'
<1>0. PICK m : m = req[r].msg
  OBVIOUS
<1>1. /\ req[r].pc = "check" /\ ~Duplicate(m)
      /\ cache' = C!Record(cache, m, now) /\ evicted' = evicted \cup C!Evicted(cache, m, now)
      /\ UNCHANGED <<now, locked, lock, life, delivered, robbed>>
      /\ req' = [req EXCEPT ![r].pc = "deliver", ![r].at = now, ![r].el = cache'.made]
  BY <1>0 DEF StartDelivery, CheckAndRecord
<1>2. m \in Messages /\ m.id # NoID /\ now \in Nat /\ cache.made \in Nat
  BY <1>0, RequestFields
<1>3. P!Recorded(cache', cache, m, Messages, now)
  <2>1. P!Sound(cache, Messages, now) /\ Capacity \in Nat
    BY DedupAssumption DEF DedupInv, CacheOK
  <2>2. P!Recorded(P!Record(cache, m, now), cache, m, Messages, now)
    BY <1>2, <2>1, P!RecordSound
  <2> QED BY <1>1, <2>2, SameCache
<1>4. evicted' = evicted \cup P!Evicted(cache, m, now)
  BY <1>1, SameCache
<1>5. PICK e : e = [key |-> m, at |-> now, el |-> cache.made + 1]
  OBVIOUS
<1>6. e.key = m /\ e.at = now /\ e.el = cache.made + 1
  BY <1>5
<1>7. /\ P!Sound(cache', Messages, now) /\ cache'.made = cache.made + 1
      /\ Capacity > 0 => Len(cache'.list) <= Capacity
      /\ \A x \in P!Entries(cache') : x = e \/ (x \in P!Entries(cache) /\ x.key # m)
      /\ \A x \in P!Entries(cache) : x.key # m => x \in P!Entries(cache') \/ x.key \in P!Evicted(cache, m, now)
      /\ e \in P!Entries(cache') \/ m \in P!Evicted(cache, m, now)
      /\ P!Evicted(cache, m, now) \subseteq Messages
  BY <1>3, <1>5 DEF P!Recorded
<1>8. /\ req'[r].pc = "deliver" /\ req'[r].msg = m /\ req'[r].at = now /\ req'[r].el = cache.made + 1
      /\ \A s \in Requests : s # r => req'[s] = req[s]
  BY <1>0, <1>1, <1>7 DEF DedupInv, RequestsOK
<1>9. CacheOK'
  BY <1>1, <1>2, <1>6, <1>7 DEF DedupInv, CacheOK
<1>10. RequestsOK'
  <2>1. now \in 0..now /\ cache.made + 1 \in 0..(cache.made + 1)
        /\ \A n \in 0..cache.made : n \in 0..(cache.made + 1)
    BY <1>2
  <2>2. req[r] \in [pc : {"new", "check", "deliver", "acked", "failed", "lost"},
                    msg : Messages, at : 0..now, el : 0..cache.made]
    BY DEF DedupInv, RequestsOK
  <2>3. \A s \in Requests : req[s] \in
          [pc : {"new", "check", "deliver", "acked", "failed", "lost"},
           msg : Messages, at : 0..now, el : 0..(cache.made + 1)]
    BY <2>1 DEF DedupInv, RequestsOK
  <2>4. [req[r] EXCEPT !.pc = "deliver", !.at = now, !.el = cache.made + 1] \in
          [pc : {"new", "check", "deliver", "acked", "failed", "lost"},
           msg : Messages, at : 0..now, el : 0..(cache.made + 1)]
    BY <2>1, <2>2
  <2> QED BY <1>1, <1>7, <2>3, <2>4 DEF DedupInv, RequestsOK
<1>11. RestOK'
  BY <1>1, <1>4, <1>7 DEF DedupInv, RestOK, Delivery
<1>12. LocksOK'
  <2>1. \A s \in Requests : (Busy(s)' <=> Busy(s)) /\ req'[s].msg = req[s].msg
    BY <1>0, <1>1, <1>8 DEF Busy
  <2>2. ASSUME locked, NEW s \in Requests, Busy(s)
        PROVE  /\ req[s].msg.scope \in lock
               /\ \A u \in Requests : u # s /\ Busy(u) => req[u].msg.scope # req[s].msg.scope
    BY <2>2 DEF DedupInv, LocksOK
  <2>3. ASSUME locked, NEW s \in Requests, Busy(s)'
        PROVE  /\ req'[s].msg.scope \in lock
               /\ \A u \in Requests : u # s /\ Busy(u)' => req'[u].msg.scope # req'[s].msg.scope
    <3>1. Busy(s) /\ req'[s].msg = req[s].msg
      BY <2>1, <2>3
    <3>2. ASSUME NEW u \in Requests, u # s, Busy(u)' PROVE req'[u].msg.scope # req'[s].msg.scope
      BY <2>1, <2>2, <2>3, <3>1, <3>2
    <3> QED BY <2>2, <2>3, <3>1, <3>2
  <2> QED BY <1>1, <2>3 DEF LocksOK
<1>13. /\ Started(r)'
       /\ \A s \in Requests : s # r => (Started(s)' <=> Started(s))
  BY <1>2, <1>8 DEF Started
<1>14. \A q : Clean(q)' => Clean(q) /\ q \notin P!Evicted(cache, m, now)
  BY <1>1, <1>4 DEF Clean
<1>15. \A x \in P!Entries(cache) : x.key = m => After(x.at, now)
  BY <1>1, <1>2, OldRecordExpired
<1>16. \A x \in P!Entries(cache) : x.el \in Nat /\ x.el <= cache.made
  BY EntryFields
<1>17. \A s \in Requests : req[s].el \in Nat /\ req[s].el <= cache.made
  BY RequestFields
<1>18. OwnElements'
  <2>1. ASSUME NEW s \in Requests, NEW u \in Requests, s # u, Started(s)', Started(u)'
        PROVE  req'[s].el # req'[u].el
    <3>1. CASE s # r /\ u # r
      BY <1>8, <1>13, <2>1, <3>1 DEF DedupInv, OwnElements
    <3>2. CASE s = r \/ u = r
      BY <1>2, <1>8, <1>17, <2>1, <3>2
    <3> QED BY <3>1, <3>2
  <2>2. ASSUME locked, NEW s \in Requests, NEW x \in P!Entries(cache'), Started(s)', x.key = req'[s].msg
        PROVE  x.el = req'[s].el
    <3>1. CASE s = r
      BY <1>6, <1>7, <1>8, <2>2, <3>1
    <3>2. CASE s # r
      <4>1. req[s].msg # m
        <5>1. Busy(s) /\ Busy(r)
          BY <1>1, <1>13, <2>2, <3>2 DEF Busy, Started
        <5> QED BY <1>0, <2>2, <3>2, <5>1 DEF DedupInv, LocksOK
      <4>2. x \in P!Entries(cache) /\ Started(s) /\ x.key = req[s].msg
        BY <1>6, <1>7, <1>8, <1>13, <2>2, <3>2, <4>1
      <4> QED BY <1>8, <2>2, <3>2, <4>2 DEF DedupInv, OwnElements
    <3> QED BY <3>1, <3>2
  <2> QED BY <1>1, <2>1, <2>2 DEF OwnElements
<1>19. ASSUME NEW s \in Requests, s # r, Started(s), Clean(req[s].msg), req[s].msg = m
       PROVE  After(req[s].at, now)
  <2>1. CASE After(req[s].at, now)
    BY <2>1
  <2>2. CASE \E x \in P!Entries(cache) : x.key = req[s].msg /\ x.at = req[s].at
    BY <1>15, <1>19, <2>2
  <2> QED BY <1>19, <2>1, <2>2 DEF DedupInv, StartKept
<1>20. ASSUME NEW i \in 1..Len(delivered), delivered[i].life = life, Clean(delivered[i].msg), delivered[i].msg = m
       PROVE  After(delivered[i].recorded, now)
  <2>1. CASE After(delivered[i].recorded, now)
    BY <2>1
  <2>2. CASE \E x \in P!Entries(cache) : x.key = delivered[i].msg /\ x.at = delivered[i].recorded
    BY <1>15, <1>20, <2>2
  <2> QED BY <1>20, <2>1, <2>2 DEF DedupInv, DeliveredKept
<1>21. StartKept'
  <2> SUFFICES ASSUME NEW s \in Requests, Started(s)', Clean(req[s].msg)'
               PROVE  \/ After(req'[s].at, now)
                      \/ \E x \in P!Entries(cache') : x.key = req'[s].msg /\ x.at = req'[s].at /\ x.el = req'[s].el
    BY <1>1 DEF StartKept, After
  <2>1. CASE s = r
    <3>1. PICK q : q = req'[s].msg
      OBVIOUS
    <3>2. Clean(q)' /\ q = m
      BY <1>8, <2>1, <3>1 DEF Clean
    <3>3. e \in P!Entries(cache')
      BY <1>7, <1>14, <3>2
    <3> QED BY <1>6, <1>8, <2>1, <3>3
  <2>2. CASE s # r
    <3>1. PICK q : q = req[s].msg
      OBVIOUS
    <3>2. Clean(q)' /\ req'[s] = req[s] /\ Started(s)
      BY <1>8, <1>13, <2>2, <3>1 DEF Clean
    <3>3. Clean(q) /\ q \notin P!Evicted(cache, m, now)
      BY <1>14, <3>2
    <3>4. CASE q = m
      BY <1>19, <2>2, <3>1, <3>2, <3>3, <3>4
    <3>5. CASE q # m
      <4>1. CASE After(req[s].at, now)
        BY <3>2, <4>1
      <4>2. CASE \E x \in P!Entries(cache) : x.key = req[s].msg /\ x.at = req[s].at /\ x.el = req[s].el
        BY <1>7, <3>1, <3>2, <3>3, <3>5, <4>2
      <4> QED BY <3>1, <3>2, <3>3, <4>1, <4>2 DEF DedupInv, StartKept
    <3> QED BY <3>4, <3>5
  <2> QED BY <2>1, <2>2
<1>22. DeliveredKept'
  <2> SUFFICES ASSUME NEW i \in 1..Len(delivered), delivered[i].life = life, Clean(delivered[i].msg)'
               PROVE  \/ After(delivered[i].recorded, now)
                      \/ \E x \in P!Entries(cache') : /\ x.key = delivered[i].msg /\ x.at = delivered[i].recorded
                                                      /\ \A s \in Requests : Started(s)' => req'[s].el # x.el
    BY <1>1 DEF DeliveredKept, After
  <2>1. PICK q : q = delivered[i].msg
    OBVIOUS
  <2>2. Clean(q)'
    BY <1>1, <2>1 DEF Clean
  <2>3. Clean(q) /\ q \notin P!Evicted(cache, m, now)
    BY <1>14, <2>2
  <2>4. CASE q = m
    BY <1>20, <2>1, <2>3, <2>4
  <2>5. CASE q # m
    <3>1. CASE After(delivered[i].recorded, now)
      BY <3>1
    <3>2. ASSUME NEW x \in P!Entries(cache), x.key = delivered[i].msg, x.at = delivered[i].recorded,
                 \A s \in Requests : Started(s) => req[s].el # x.el
          PROVE  /\ x \in P!Entries(cache')
                 /\ \A s \in Requests : Started(s)' => req'[s].el # x.el
      <4>1. x \in P!Entries(cache')
        BY <1>7, <2>1, <2>3, <2>5, <3>2
      <4>2. x.el # cache.made + 1
        BY <1>2, <1>16
      <4> QED BY <1>8, <1>13, <3>2, <4>1, <4>2
    <3> QED BY <2>1, <2>3, <3>1, <3>2 DEF DedupInv, DeliveredKept
  <2> QED BY <2>4, <2>5
<1>23. Spacing'
  <2>1. ASSUME NEW s \in Requests, NEW u \in Requests, s # u, Started(s)', Started(u)',
               req'[s].msg = req'[u].msg, Clean(req[s].msg)'
        PROVE  Apart(req'[s].at, req'[u].at)
    <3>1. PICK q : q = req'[s].msg
      OBVIOUS
    <3>2. Clean(q)' /\ q = req'[s].msg /\ q = req'[u].msg
      BY <2>1, <3>1 DEF Clean
    <3>3. Clean(q)
      BY <1>14, <3>2
    <3>4. CASE s # r /\ u # r
      BY <1>8, <1>13, <2>1, <3>2, <3>3, <3>4 DEF DedupInv, Spacing
    <3>5. CASE s = r
      BY <1>8, <1>13, <1>19, <2>1, <3>2, <3>3, <3>5 DEF Apart
    <3>6. CASE u = r
      BY <1>8, <1>13, <1>19, <2>1, <3>2, <3>3, <3>6 DEF Apart
    <3> QED BY <3>4, <3>5, <3>6
  <2>2. ASSUME NEW s \in Requests, NEW i \in 1..Len(delivered), Started(s)', delivered[i].life = life,
               delivered[i].msg = req'[s].msg, Clean(req[s].msg)'
        PROVE  Apart(req'[s].at, delivered[i].recorded)
    <3>1. PICK q : q = req'[s].msg
      OBVIOUS
    <3>2. Clean(q)' /\ q = req'[s].msg /\ q = delivered[i].msg
      BY <2>2, <3>1 DEF Clean
    <3>3. Clean(q)
      BY <1>14, <3>2
    <3>4. CASE s # r
      BY <1>8, <1>13, <2>2, <3>2, <3>3, <3>4 DEF DedupInv, Spacing
    <3>5. CASE s = r
      BY <1>8, <1>20, <2>2, <3>2, <3>3, <3>5 DEF Apart
    <3> QED BY <3>4, <3>5
  <2>3. ASSUME NEW i \in 1..Len(delivered), NEW j \in 1..Len(delivered), i # j,
               delivered[i].msg = delivered[j].msg, delivered[i].life = delivered[j].life,
               Clean(delivered[i].msg)'
        PROVE  Apart(delivered[i].recorded, delivered[j].recorded)
    <3>1. Clean(delivered[i].msg)
      BY <1>1, <1>4, <2>3 DEF Clean
    <3> QED BY <2>3, <3>1 DEF DedupInv, Spacing
  <2> QED BY <1>1, <2>1, <2>2, <2>3 DEF Spacing, Apart, After
<1>24. Backed'
  <2>1. \A q : Delivered(q)' <=> Delivered(q)
    BY <1>1 DEF Delivered
  <2>2. \A s \in Requests : req[s].pc = "deliver" => req'[s] = req[s]
    BY <1>1, <1>8
  <2>3. \A s \in Requests : req'[s].pc = "acked" => req'[s] = req[s]
    BY <1>8
  <2>4. ASSUME locked, NEW x \in P!Entries(cache')
        PROVE  Delivered(x.key) \/ \E s \in Requests : req'[s].pc = "deliver" /\ req'[s].msg = x.key
    BY <1>6, <1>7, <1>8, <2>2, <2>4 DEF DedupInv, Backed
  <2> QED BY <1>1, <2>1, <2>3, <2>4 DEF DedupInv, Backed
<1> QED BY <1>9, <1>10, <1>11, <1>12, <1>18, <1>21, <1>22, <1>23, <1>24 DEF DedupInv

\* A delivery succeeds: what was kept of its start is now kept of the delivery.
LEMMA DeliverInv ==
  ASSUME DedupInv, NEW r \in Requests, Deliver(r)
  PROVE  DedupInv'
<1>0. PICK m : m = req[r].msg
  OBVIOUS
<1> DEFINE d == [msg |-> m, recorded |-> req[r].at, life |-> life]
           n == Len(delivered)
<1>1. /\ req[r].pc = "deliver" /\ Finish(r, "acked") /\ delivered' = Append(delivered, d)
      /\ UNCHANGED <<cache, now, locked, life, evicted, robbed>>
  BY <1>0 DEF Deliver
<1>2. Busy(r)
  BY <1>1 DEF Busy
<1>3. /\ LocksOK' /\ lock' \subseteq Scopes /\ (~locked => lock' = {})
      /\ req'[r].pc = "acked" /\ req'[r].msg = m /\ req' = [req EXCEPT ![r].pc = "acked"]
      /\ \A s \in Requests : s # r => req'[s] = req[s]
  BY <1>0, <1>1, <1>2, FinishLocks
<1>4. RequestsOK'
  BY <1>1, <1>3, ZenonT(60) DEF DedupInv, RequestsOK
<1>5. d \in Delivery /\ d.msg = m /\ d.recorded = req[r].at /\ d.life = life
  BY <1>0, RequestFields, DedupAssumption DEF Delivery, DedupInv, RestOK
<1>6. delivered \in Seq(Delivery) /\ n \in Nat
  BY DeliveryFields DEF DedupInv, RestOK
<1> HIDE DEF d
<1>7. /\ delivered' \in Seq(Delivery) /\ Len(delivered') = n + 1 /\ delivered'[n + 1] = d
      /\ \A i \in 1..n : delivered'[i] = delivered[i]
  BY <1>1, <1>5, <1>6
<1>8. \A i \in 1..Len(delivered') : i \in 1..n \/ i = n + 1
  BY <1>6, <1>7
<1>9. n + 1 \in 1..Len(delivered') /\ \A i \in 1..n : i \in 1..Len(delivered')
  BY <1>6, <1>7
<1> HIDE DEF n
<1>10. CacheOK' /\ P!Entries(cache') = P!Entries(cache)
  BY <1>1 DEF DedupInv, CacheOK, P!Entries
<1>11. RestOK'
  BY <1>1, <1>3, <1>7 DEF DedupInv, RestOK, Delivery
<1>12. ~Started(r)' /\ \A s \in Requests : s # r => (Started(s)' <=> Started(s))
  BY <1>3 DEF Started
<1>13. \A q : Clean(q)' <=> Clean(q)
  BY <1>1 DEF Clean
<1>14. OwnElements'
  BY <1>1, <1>3, <1>10, <1>12 DEF DedupInv, OwnElements
<1>15. StartKept'
  <2> SUFFICES ASSUME NEW s \in Requests, Started(s)', Clean(req[s].msg)'
               PROVE  \/ After(req'[s].at, now)
                      \/ \E x \in P!Entries(cache) : x.key = req'[s].msg /\ x.at = req'[s].at /\ x.el = req'[s].el
    BY <1>1, <1>10 DEF StartKept, After
  <2>1. s # r /\ Started(s) /\ req'[s] = req[s]
    BY <1>3, <1>12
  <2>2. Clean(req[s].msg)
    BY <1>1, <2>1 DEF Clean
  <2> QED BY <2>1, <2>2 DEF DedupInv, StartKept
<1>16. Clean(m) => Started(r)
  BY <1>0, <1>1 DEF Clean, Started
<1>17. DeliveredKept'
  <2> SUFFICES ASSUME NEW i \in 1..Len(delivered'), delivered'[i].life = life, Clean(delivered[i].msg)'
               PROVE  \/ After(delivered'[i].recorded, now)
                      \/ \E x \in P!Entries(cache) : /\ x.key = delivered'[i].msg /\ x.at = delivered'[i].recorded
                                                     /\ \A s \in Requests : Started(s)' => req'[s].el # x.el
    BY <1>1, <1>10 DEF DeliveredKept, After
  <2>1. Clean(delivered'[i].msg)
    BY <1>1 DEF Clean
  <2>2. CASE i \in 1..n
    <3>1. delivered'[i] = delivered[i]
      BY <1>7, <2>2
    <3>2. \/ After(delivered[i].recorded, now)
          \/ \E x \in P!Entries(cache) : /\ x.key = delivered[i].msg /\ x.at = delivered[i].recorded
                                         /\ \A s \in Requests : Started(s) => req[s].el # x.el
      BY <2>1, <2>2, <3>1 DEF DedupInv, DeliveredKept, n
    <3> QED BY <1>3, <1>12, <3>1, <3>2
  <2>3. CASE i = n + 1
    <3>1. delivered'[i] = d /\ Clean(m) /\ Started(r)
      BY <1>5, <1>7, <1>16, <2>1, <2>3
    <3>2. CASE After(req[r].at, now)
      BY <1>5, <3>1, <3>2
    <3>3. ASSUME NEW x \in P!Entries(cache), x.key = req[r].msg, x.at = req[r].at, x.el = req[r].el
          PROVE  /\ x.key = d.msg /\ x.at = d.recorded
                 /\ \A s \in Requests : Started(s)' => req'[s].el # x.el
      <4>1. ASSUME NEW s \in Requests, Started(s)' PROVE req'[s].el # x.el
        <5>1. s # r /\ Started(s) /\ req'[s] = req[s]
          BY <1>3, <1>12, <4>1
        <5> QED BY <3>1, <3>3, <5>1 DEF DedupInv, OwnElements
      <4> QED BY <1>0, <1>5, <3>3, <4>1
    <3> QED BY <1>0, <3>1, <3>2, <3>3 DEF DedupInv, StartKept
  <2> QED BY <1>8, <2>2, <2>3
<1>18. Spacing'
  <2>1. ASSUME NEW s \in Requests, NEW u \in Requests, s # u, Started(s)', Started(u)',
               req'[s].msg = req'[u].msg, Clean(req[s].msg)'
        PROVE  Apart(req'[s].at, req'[u].at)
    <3>1. /\ s # r /\ Started(s) /\ req'[s] = req[s]
          /\ u # r /\ Started(u) /\ req'[u] = req[u]
      BY <1>3, <1>12, <2>1
    <3>2. Clean(req[s].msg)
      BY <1>1, <2>1, <3>1 DEF Clean
    <3> QED BY <2>1, <3>1, <3>2 DEF DedupInv, Spacing
  <2>2. ASSUME NEW s \in Requests, NEW i \in 1..Len(delivered'), Started(s)', delivered'[i].life = life,
               delivered'[i].msg = req'[s].msg, Clean(req[s].msg)'
        PROVE  Apart(req'[s].at, delivered'[i].recorded)
    <3>1. s # r /\ Started(s) /\ req'[s] = req[s]
      BY <1>3, <1>12, <2>2
    <3>2. Clean(req[s].msg)
      BY <1>1, <2>2, <3>1 DEF Clean
    <3>3. CASE i \in 1..n
      BY <1>7, <2>2, <3>1, <3>2, <3>3 DEF DedupInv, Spacing, n
    <3>4. CASE i = n + 1
      BY <1>0, <1>5, <1>7, <1>16, <2>2, <3>1, <3>2, <3>4 DEF DedupInv, Spacing
    <3> QED BY <1>8, <3>3, <3>4
  <2>3. ASSUME NEW i \in 1..n, delivered[i].msg = m, delivered[i].life = life, Clean(m)
        PROVE  Apart(req[r].at, delivered[i].recorded)
    BY <1>0, <1>16, <2>3 DEF DedupInv, Spacing, n
  <2>4. ASSUME NEW i \in 1..Len(delivered'), NEW j \in 1..Len(delivered'), i # j,
               delivered'[i].msg = delivered'[j].msg, delivered'[i].life = delivered'[j].life,
               Clean(delivered[i].msg)'
        PROVE  Apart(delivered'[i].recorded, delivered'[j].recorded)
    <3>1. Clean(delivered'[i].msg)
      BY <1>1, <2>4 DEF Clean
    <3>2. CASE i \in 1..n /\ j \in 1..n
      BY <1>7, <2>4, <3>1, <3>2 DEF DedupInv, Spacing, n
    <3>3. CASE i \in 1..n /\ j = n + 1
      BY <1>5, <1>7, <2>3, <2>4, <3>1, <3>3 DEF Apart
    <3>4. CASE i = n + 1 /\ j \in 1..n
      BY <1>5, <1>7, <2>3, <2>4, <3>1, <3>4 DEF Apart
    <3> QED BY <1>8, <2>4, <3>2, <3>3, <3>4
  <2> QED BY <1>1, <2>1, <2>2, <2>4 DEF Spacing, Apart, After
<1>19. Backed'
  <2>1. Delivered(m)'
    BY <1>5, <1>7, <1>9 DEF Delivered
  <2>2. ASSUME NEW q, Delivered(q) PROVE Delivered(q)'
    BY <1>7, <1>9, <2>2 DEF Delivered, n
  <2>3. ASSUME locked, NEW s \in Requests, req'[s].pc = "acked" PROVE Delivered(req[s].msg)'
    <3>1. PICK q : q = req'[s].msg
      OBVIOUS
    <3>2. Delivered(q)'
      BY <1>3, <2>1, <2>2, <2>3, <3>1 DEF DedupInv, Backed
    <3> QED BY <3>1, <3>2 DEF Delivered
  <2>4. ASSUME locked, NEW x \in P!Entries(cache)
        PROVE  Delivered(x.key)' \/ \E s \in Requests : req'[s].pc = "deliver" /\ req'[s].msg = x.key
    <3>1. Delivered(x.key) \/ \E s \in Requests : req[s].pc = "deliver" /\ req[s].msg = x.key
      BY <2>4 DEF DedupInv, Backed
    <3>2. PICK q : q = x.key
      OBVIOUS
    <3> QED BY <1>0, <1>3, <2>1, <2>2, <3>1, <3>2
  <2> QED BY <1>1, <1>10, <2>3, <2>4 DEF Backed, Delivered
<1> QED BY <1>3, <1>4, <1>10, <1>11, <1>14, <1>15, <1>17, <1>18, <1>19 DEF DedupInv

\* The process dies.
LEMMA RestartInv ==
  ASSUME DedupInv, Restart
  PROVE  DedupInv'
<1>1. /\ life' = life + 1 /\ life < MaxRestarts /\ lock' = {}
      /\ UNCHANGED <<now, locked, delivered, evicted, robbed>>
      /\ req' = [r \in Requests |->
                   IF req[r].pc \in {"check", "deliver"} THEN [req[r] EXCEPT !.pc = "lost"] ELSE req[r]]
  BY DEF Restart
<1>2. cache'.list = <<>> /\ DOMAIN cache'.index = {} /\ cache'.made = cache.made
  BY DEF Restart, C!Empty
<1>3. now \in Nat /\ cache.made \in Nat /\ life \in Nat /\ life' \in 0..MaxRestarts
  BY <1>1, DedupAssumption DEF DedupInv, RestOK, CacheOK, P!Sound
<1>4. P!Sound(cache', Messages, now) /\ P!Entries(cache') = {}
  BY <1>2, <1>3, P!EmptySound
<1>5. CacheOK'
  BY <1>1, <1>2, <1>4, DedupAssumption DEF CacheOK
<1>6. RequestsOK'
  BY <1>1, <1>2 DEF DedupInv, RequestsOK
<1>7. \A r \in Requests : /\ req'[r].pc \notin {"check", "deliver"}
                          /\ req'[r].pc = "acked" => req[r].pc = "acked" /\ req'[r].msg = req[r].msg
  BY <1>1 DEF DedupInv, RequestsOK
<1>8. delivered \in Seq(Delivery')
  <2>1. \A x : x \in Delivery => x \in Delivery'
    BY <1>1, <1>3 DEF Delivery
  <2>2. delivered \in Seq(Delivery)
    BY DEF DedupInv, RestOK
  <2> QED BY <2>1, <2>2
<1>9. RestOK'
  BY <1>1, <1>3, <1>8 DEF DedupInv, RestOK
<1>10. LocksOK' /\ OwnElements' /\ StartKept'
  BY <1>7 DEF LocksOK, OwnElements, StartKept, Busy, Started
<1>11. DeliveredKept'
  <2>1. \A i \in 1..Len(delivered) : delivered[i].life # life + 1
    BY <1>3, DeliveryFields
  <2> QED BY <1>1, <2>1 DEF DeliveredKept
<1>12. Spacing'
  BY <1>1, <1>7 DEF DedupInv, Spacing, Started, Clean
<1>13. Backed'
  BY <1>1, <1>4, <1>7 DEF DedupInv, Backed, Delivered
<1> QED BY <1>5, <1>6, <1>9, <1>10, <1>11, <1>12, <1>13 DEF DedupInv

\* Time goes by.
LEMMA TickInv ==
  ASSUME DedupInv, Tick
  PROVE  DedupInv'
<1>1. /\ UNCHANGED <<cache, req, locked, lock, life, delivered, evicted, robbed>>
      /\ now \in Nat /\ now' = now + 1 /\ now' \in 0..MaxTime
  BY DedupAssumption DEF Tick, DedupInv, RestOK
<1>2. CacheOK'
  <2>1. P!Sound(cache, Messages, now')
    BY <1>1, P!SoundLater DEF DedupInv, CacheOK
  <2>2. Len(cache.list) = Len(cache'.list) /\ P!Sound(cache', Messages, now')
        /\ P!Entries(cache') = P!Entries(cache)
    BY <1>1, <2>1
  <2> QED BY <1>1, <2>2 DEF DedupInv, CacheOK
<1>3. RequestsOK'
  <2>1. \A v : v \in 0..now => v \in 0..now'
    BY <1>1
  <2> QED BY <1>1, <2>1 DEF DedupInv, RequestsOK
<1>4. delivered \in Seq(Delivery')
  <2>1. \A x : x \in Delivery => x \in Delivery'
    BY <1>1 DEF Delivery
  <2>2. delivered \in Seq(Delivery)
    BY DEF DedupInv, RestOK
  <2> QED BY <2>1, <2>2
<1>5. RestOK'
  BY <1>1, <1>4 DEF DedupInv, RestOK
<1>6. LocksOK' /\ OwnElements' /\ Spacing' /\ Backed'
  BY <1>1 DEF DedupInv, LocksOK, OwnElements, Spacing, Backed, Busy, Started, Clean, Delivered, P!Entries
<1>7. \A a \in Nat : After(a, now) => After(a, now')
  BY <1>1, DedupAssumption DEF After
<1>8. P!Entries(cache') = P!Entries(cache)
  BY <1>1
<1>9. StartKept'
  <2>1. \A r \in Requests : req[r].at \in Nat
    BY RequestFields
  <2> QED BY <1>1, <1>7, <1>8, <2>1 DEF DedupInv, StartKept, Started, Clean
<1>10. DeliveredKept'
  <2>1. \A i \in 1..Len(delivered) : delivered[i].recorded \in Nat
    BY DeliveryFields
  <2> QED BY <1>1, <1>7, <1>8, <2>1 DEF DedupInv, DeliveredKept, Started, Clean
<1> QED BY <1>2, <1>3, <1>5, <1>6, <1>9, <1>10 DEF DedupInv

\* A failed delivery takes back the record, if the message has an id.  A record of
\* another request goes only where there is no lock, and then counts as robbed.
LEMMA FailUnrecordedInv ==
  ASSUME DedupInv, NEW r \in Requests, FailDelivery(r), req[r].msg.id = NoID
  PROVE  DedupInv'
<1>0. PICK m : m = req[r].msg
  OBVIOUS
<1>1. /\ req[r].pc = "deliver" /\ Finish(r, "failed")
      /\ UNCHANGED <<cache, now, locked, life, delivered, evicted>>
      /\ robbed' = IF m \in DOMAIN cache.index /\ cache.index[m] # req[r].el
                   THEN robbed \cup {m} ELSE robbed
  BY <1>0 DEF FailDelivery, Rollback
<1>2. m \notin DOMAIN cache.index
  BY <1>0, IndexEntry, EntryFields
<1>3. robbed' = robbed /\ Busy(r)
  BY <1>1, <1>2 DEF Busy
<1>4. /\ LocksOK' /\ lock' \subseteq Scopes /\ (~locked => lock' = {})
      /\ req'[r].pc = "failed" /\ req' = [req EXCEPT ![r].pc = "failed"]
      /\ \A s \in Requests : s # r => req'[s] = req[s]
  BY <1>1, <1>3, FinishLocks
<1>5. RequestsOK'
  BY <1>1, <1>4 DEF DedupInv, RequestsOK
<1>6. Backed'
  <2>1. \A q : Delivered(q)' <=> Delivered(q)
    BY <1>1 DEF Delivered
  <2>2. P!Entries(cache)' = P!Entries(cache) /\ \A x \in P!Entries(cache) : x.key # m
    BY <1>1, <1>2, EntryFields DEF P!Entries
  <2> QED BY <1>0, <1>1, <1>4, <2>1, <2>2 DEF DedupInv, Backed
<1>7. (\A s \in Requests : Started(s)' <=> Started(s)) /\ \A s \in Requests : Started(s) => req'[s] = req[s]
  BY <1>4 DEF Started
<1> QED BY <1>1, <1>3, <1>4, <1>5, <1>6, <1>7, QuietStep

\* The same for a message with an id.
LEMMA FailRecordedInv ==
  ASSUME DedupInv, NEW r \in Requests, FailDelivery(r), req[r].msg.id # NoID
  PROVE  DedupInv'
<1>0. PICK m : m = req[r].msg
  OBVIOUS
<1>1. /\ req[r].pc = "deliver" /\ Finish(r, "failed") /\ cache' = C!Remove(cache, m)
      /\ UNCHANGED <<now, locked, life, delivered, evicted>>
      /\ robbed' = IF m \in DOMAIN cache.index /\ cache.index[m] # req[r].el
                   THEN robbed \cup {m} ELSE robbed
  BY <1>0 DEF FailDelivery, Rollback
<1>2. Busy(r) /\ Started(r) /\ m \in Messages /\ now \in Nat
  BY <1>0, <1>1, RequestFields DEF Busy, Started
<1>3. P!Removed(cache', cache, m, Messages, now)
  <2>1. P!Sound(cache, Messages, now)
    BY DEF DedupInv, CacheOK
  <2>2. P!Removed(P!Remove(cache, m), cache, m, Messages, now)
    BY <1>2, <2>1, P!RemoveSound
  <2> QED BY <1>1, <2>2, SameCache
<1>4. /\ P!Sound(cache', Messages, now) /\ cache'.made = cache.made
      /\ \A x : x \in P!Entries(cache') <=> x \in P!Entries(cache) /\ x.key # m
      /\ Len(cache'.list) <= Len(cache.list)
  BY <1>3 DEF P!Removed
<1>5. /\ LocksOK' /\ lock' \subseteq Scopes /\ (~locked => lock' = {})
      /\ req'[r].pc = "failed" /\ req' = [req EXCEPT ![r].pc = "failed"]
      /\ \A s \in Requests : s # r => req'[s] = req[s]
  BY <1>1, <1>2, FinishLocks
<1>6. CacheOK'
  <2>1. Len(cache.list) \in Nat /\ Len(cache'.list) \in Nat
    BY <1>4 DEF DedupInv, CacheOK, P!Sound
  <2> QED BY <1>1, <1>4, <2>1, DedupAssumption DEF DedupInv, CacheOK
<1>7. RequestsOK'
  BY <1>1, <1>4, <1>5 DEF DedupInv, RequestsOK
<1>8. RestOK'
  BY <1>1, <1>2, <1>5 DEF DedupInv, RestOK, Delivery
<1>9. ~Started(r)' /\ \A s \in Requests : s # r => (Started(s)' <=> Started(s))
  BY <1>5 DEF Started
<1>10. \A q : Clean(q)' => Clean(q)
  BY <1>1 DEF Clean
<1>11. ASSUME Clean(m)', NEW x \in P!Entries(cache), x.key = m PROVE x.el = req[r].el
  <2>1. CASE locked
    BY <1>0, <1>2, <1>11, <2>1 DEF DedupInv, OwnElements
  <2>2. CASE ~locked
    <3>1. m \in DOMAIN cache.index /\ cache.index[m] = x.el
      BY <1>11, EntryFields
    <3>2. m \notin robbed'
      BY <1>1, <1>11, <2>2 DEF Clean
    <3> QED BY <1>1, <3>1, <3>2
  <2> QED BY <2>1, <2>2
<1>12. OwnElements'
  <2>1. \A s \in Requests : Started(s)' => s # r /\ Started(s) /\ req'[s] = req[s]
    BY <1>5, <1>9
  <2>2. ASSUME NEW s \in Requests, NEW u \in Requests, s # u, Started(s)', Started(u)'
        PROVE  req'[s].el # req'[u].el
    BY <2>1, <2>2 DEF DedupInv, OwnElements
  <2>3. ASSUME locked, NEW s \in Requests, NEW x \in P!Entries(cache'), Started(s)', x.key = req'[s].msg
        PROVE  x.el = req'[s].el
    BY <1>4, <2>1, <2>3 DEF DedupInv, OwnElements
  <2> QED BY <1>1, <2>2, <2>3 DEF OwnElements
<1>13. StartKept'
  <2> SUFFICES ASSUME NEW s \in Requests, Started(s)', Clean(req[s].msg)'
               PROVE  \/ After(req'[s].at, now)
                      \/ \E x \in P!Entries(cache') : x.key = req'[s].msg /\ x.at = req'[s].at /\ x.el = req'[s].el
    BY <1>1 DEF StartKept, After
  <2>1. s # r /\ Started(s) /\ req'[s] = req[s]
    BY <1>5, <1>9
  <2>2. PICK q : q = req[s].msg
    OBVIOUS
  <2>3. Clean(q)'
    BY <2>1, <2>2 DEF Clean
  <2>4. CASE After(req[s].at, now)
    BY <2>1, <2>4
  <2>5. ASSUME NEW x \in P!Entries(cache), x.key = req[s].msg, x.at = req[s].at, x.el = req[s].el
        PROVE  x \in P!Entries(cache')
    <3>1. x.key # m
      BY <1>2, <1>11, <2>1, <2>2, <2>3, <2>5 DEF DedupInv, OwnElements
    <3> QED BY <1>4, <3>1
  <2> QED BY <1>10, <2>1, <2>2, <2>3, <2>4, <2>5 DEF DedupInv, StartKept
<1>14. DeliveredKept'
  <2> SUFFICES ASSUME NEW i \in 1..Len(delivered), delivered[i].life = life, Clean(delivered[i].msg)'
               PROVE  \/ After(delivered[i].recorded, now)
                      \/ \E x \in P!Entries(cache') : /\ x.key = delivered[i].msg /\ x.at = delivered[i].recorded
                                                      /\ \A s \in Requests : Started(s)' => req'[s].el # x.el
    BY <1>1 DEF DeliveredKept, After
  <2>1. PICK q : q = delivered[i].msg
    OBVIOUS
  <2>2. Clean(q)'
    BY <1>1, <2>1 DEF Clean
  <2>3. CASE After(delivered[i].recorded, now)
    BY <2>3
  <2>4. ASSUME NEW x \in P!Entries(cache), x.key = delivered[i].msg, x.at = delivered[i].recorded,
               \A s \in Requests : Started(s) => req[s].el # x.el
        PROVE  /\ x \in P!Entries(cache')
               /\ \A s \in Requests : Started(s)' => req'[s].el # x.el
    <3>1. x.key # m
      BY <1>2, <1>11, <2>1, <2>2, <2>4
    <3> QED BY <1>4, <1>5, <1>9, <2>4, <3>1
  <2> QED BY <1>10, <2>1, <2>2, <2>3, <2>4 DEF DedupInv, DeliveredKept
<1>15. Spacing'
  <2>1. ASSUME NEW s \in Requests, NEW u \in Requests, s # u, Started(s)', Started(u)',
               req'[s].msg = req'[u].msg, Clean(req[s].msg)'
        PROVE  Apart(req'[s].at, req'[u].at)
    <3>1. /\ Started(s) /\ req'[s] = req[s] /\ Started(u) /\ req'[u] = req[u]
      BY <1>5, <1>9, <2>1
    <3>2. Clean(req[s].msg)
      BY <1>1, <2>1, <3>1 DEF Clean
    <3> QED BY <2>1, <3>1, <3>2 DEF DedupInv, Spacing
  <2>2. ASSUME NEW s \in Requests, NEW i \in 1..Len(delivered), Started(s)', delivered[i].life = life,
               delivered[i].msg = req'[s].msg, Clean(req[s].msg)'
        PROVE  Apart(req'[s].at, delivered[i].recorded)
    <3>1. Started(s) /\ req'[s] = req[s]
      BY <1>5, <1>9, <2>2
    <3>2. Clean(req[s].msg)
      BY <1>1, <2>2, <3>1 DEF Clean
    <3> QED BY <2>2, <3>1, <3>2 DEF DedupInv, Spacing
  <2>3. ASSUME NEW i \in 1..Len(delivered), NEW j \in 1..Len(delivered), i # j,
               delivered[i].msg = delivered[j].msg, delivered[i].life = delivered[j].life,
               Clean(delivered[i].msg)'
        PROVE  Apart(delivered[i].recorded, delivered[j].recorded)
    <3>1. Clean(delivered[i].msg)
      BY <1>1, <2>3 DEF Clean
    <3> QED BY <2>3, <3>1 DEF DedupInv, Spacing
  <2> QED BY <1>1, <2>1, <2>2, <2>3 DEF Spacing, Apart, After
<1>16. Backed'
  <2>1. \A q : Delivered(q)' <=> Delivered(q)
    BY <1>1 DEF Delivered
  <2>2. ASSUME locked, NEW x \in P!Entries(cache')
        PROVE  Delivered(x.key) \/ \E s \in Requests : req'[s].pc = "deliver" /\ req'[s].msg = x.key
    BY <1>0, <1>4, <1>5, <2>2 DEF DedupInv, Backed
  <2> QED BY <1>1, <1>5, <2>1, <2>2 DEF DedupInv, Backed
<1> QED BY <1>5, <1>6, <1>7, <1>8, <1>12, <1>13, <1>14, <1>15, <1>16 DEF DedupInv

-----------------------------------------------------------------------------
(* The theorems *)

\* No step breaks the invariant.
LEMMA DedupNextInv == DedupInv /\ [DedupNext]_dedupVars => DedupInv'
<1> SUFFICES ASSUME DedupInv, [DedupNext]_dedupVars PROVE DedupInv'
  OBVIOUS
<1>1. ASSUME NEW r \in Requests, StartDelivery(r) PROVE DedupInv'
  BY <1>1, StartRecordedInv, StartUnrecordedInv
<1>2. ASSUME NEW r \in Requests, FailDelivery(r) PROVE DedupInv'
  BY <1>2, FailRecordedInv, FailUnrecordedInv
<1>3. CASE UNCHANGED dedupVars
  BY <1>3, SMTT(60) DEF dedupVars, DedupInv, CacheOK, RequestsOK, RestOK, Delivery, LocksOK, OwnElements, StartKept,
     DeliveredKept, Spacing, Backed, Busy, Started, Clean, Delivered, P!Entries
<1> QED BY <1>1, <1>2, <1>3, LockInv, AckDuplicateInv, DeliverInv, RestartInv, TickInv DEF DedupNext

\* The invariant holds throughout.
LEMMA DedupInvariant == DedupSpec => []DedupInv
BY DedupInitInv, DedupNextInv, PTL DEF DedupSpec

\* The list and the index agree after every mixture of records, expiries,
\* evictions, rollbacks and restarts, and nothing without an id is recorded.
THEOREM DedupCacheWellFormed == DedupSpec => []DedupWellFormed
<1>1. DedupInv => DedupWellFormed
  <2> SUFFICES ASSUME DedupInv PROVE DedupWellFormed
    OBVIOUS
  <2>1. cache.list \in Seq([key : Messages, at : 0..now, el : 1..cache.made]) /\ P!Agree(cache)
    BY DEF DedupInv, CacheOK, P!Sound, P!Elem
  <2>2. DedupTypeOK
    BY <2>1 DEF DedupTypeOK, DedupInv, RequestsOK, RestOK, Delivery
  <2>3. C!WellFormed(cache)
    BY <2>1, SameCache DEF DedupInv, CacheOK, C!WellFormed
  <2>4. \A m \in DOMAIN cache.index : m.id # NoID
    BY IndexEntry, EntryFields
  <2> QED BY <2>2, <2>3, <2>4 DEF DedupWellFormed
<1> QED BY <1>1, DedupInvariant, PTL

\* Under the lock, whoever is told that a message was accepted can rely on a
\* delivery of it, over any number of failures, retries, expiries and restarts.
THEOREM DedupAckedWasDelivered == DedupSpec => []AckedWasDelivered
<1>1. DedupInv => AckedWasDelivered
  BY DEF DedupInv, Backed, Delivered, AckedWasDelivered
<1> QED BY <1>1, DedupInvariant, PTL

\* One process delivers a message twice only once its record is gone for a
\* reason: evicted, expired or, without the lock, rolled back by another request.
THEOREM DedupDeliversOnce == DedupSpec => []DeliveredOnce
<1>1. DedupInv => DeliveredOnce
  <2> SUFFICES ASSUME DedupInv,
                      NEW i \in 1..Len(delivered), NEW j \in 1..Len(delivered), i # j,
                      delivered[i].recorded <= delivered[j].recorded,
                      delivered[i].msg = delivered[j].msg, delivered[i].life = delivered[j].life,
                      delivered[i].msg.id # NoID, delivered[i].msg \notin evicted,
                      ~(~locked /\ delivered[i].msg \in robbed)
               PROVE  TTL > 0 /\ delivered[j].recorded > delivered[i].recorded + TTL
    BY DEF DeliveredOnce
  <2>1. Clean(delivered[i].msg)
    BY DEF Clean
  <2>2. Apart(delivered[i].recorded, delivered[j].recorded)
    BY <2>1 DEF DedupInv, Spacing
  <2>3. delivered[i].recorded \in Nat /\ delivered[j].recorded \in Nat
    BY DeliveryFields
  <2> QED BY <2>2, <2>3, DedupAssumption DEF Apart, After
<1> QED BY <1>1, DedupInvariant, PTL
=============================================================================
