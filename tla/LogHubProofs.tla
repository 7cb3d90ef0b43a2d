---------------------------- MODULE LogHubProofs ----------------------------
(***************************************************************************)
(* Proofs about the hub, for every set of keys, every buffer size and any  *)
(* number of subscribers, overlapping or not.                              *)
(*                                                                         *)
(* HubInv is inductive.  BacklogOnlyWhenDetached is what the others lean   *)
(* on in Unsubscribe: the backlog that requeue puts behind the unread      *)
(* entries is empty, so their concatenation is in order and its length is  *)
(* that of the channel.                                                    *)
(*                                                                         *)
(* The refinement of LogFeed needs more: with consumers of a key one at a  *)
(* time, a key has at most one subscriber (OneEach), and a channel has     *)
(* room for SubBufSize entries behind what was replayed into it (Rooms).   *)
(*                                                                         *)
(* LossesObservedOnce counts what the consumers of a key can no longer get *)
(* before and after a step.  A key has one place where its entries wait,   *)
(* its only subscriber or its backlog (LostRule), so each loss is the      *)
(* front of a backlog or an entry that met a full channel, and each of the *)
(* two is one report to the DropObserver.                                  *)
(***************************************************************************)
EXTENDS LogHubFeed, SequenceTheorems, FiniteSetTheorems, TLAPS

\* A queue of entries out of n published ones, in publish order.
Queue(q, n) ==
  /\ q \in Seq(Nat)
  /\ Increasing(q)
  /\ \A i \in 1..Len(q) : q[i] \in 1..n

HubInv ==
  /\ HubTypeOK
  /\ BacklogOnlyWhenDetached
  /\ QueuesInOrder
  /\ QueuesBounded

-----------------------------------------------------------------------------
(* Queues *)

\* The empty sequence is a queue: a new backlog, or a handed-over one.
LEMMA QueueEmpty ==
  ASSUME NEW n \in Nat
  PROVE  Queue(<<>>, n) /\ Len(<<>>) = 0
BY DEF Queue, Increasing

\* A queue stays one when another entry is published elsewhere.
LEMMA QueueGrow ==
  ASSUME NEW q, NEW n \in Nat, Queue(q, n)
  PROVE  Queue(q, n + 1)
BY DEF Queue

\* Publish appends the newest entry.
LEMMA QueueAppend ==
  ASSUME NEW q, NEW n \in Nat, Queue(q, n)
  PROVE  Queue(Append(q, n + 1), n + 1) /\ Len(Append(q, n + 1)) = Len(q) + 1
<1> DEFINE a == Append(q, n + 1)
<1>1. a \in Seq(Nat) /\ Len(a) = Len(q) + 1
  BY DEF Queue
<1>2. \A i \in 1..Len(q) : a[i] = q[i] /\ q[i] \in 1..n
  BY DEF Queue
<1>3. a[Len(q) + 1] = n + 1
  BY DEF Queue
<1>4. Len(q) \in Nat
  BY DEF Queue
<1>5. \A i \in 1..Len(a) : i \in 1..Len(q) \/ i = Len(q) + 1
  BY <1>1, <1>4
<1>6. \A i \in 1..Len(a) : a[i] \in 1..(n + 1)
  BY <1>2, <1>3, <1>5
<1>7. ASSUME NEW i \in 1..Len(a), NEW j \in 1..Len(a), i < j
      PROVE  a[i] < a[j]
  <2>1. i \in 1..Len(q)
    BY <1>1, <1>4, <1>7
  <2>2. CASE j \in 1..Len(q)
    BY <2>1, <2>2, <1>2, <1>7 DEF Queue, Increasing
  <2>3. CASE j = Len(q) + 1
    BY <2>1, <2>3, <1>2, <1>3
  <2> QED BY <2>2, <2>3, <1>5
<1> QED BY <1>1, <1>6, <1>7 DEF Queue, Increasing

\* Cutting a queue at its old end, by m entries, leaves a queue.
LEMMA QueueSuffix ==
  ASSUME NEW q, NEW n \in Nat, Queue(q, n), NEW m \in 0..Len(q)
  PROVE  /\ Queue(SubSeq(q, m + 1, Len(q)), n)
         /\ Len(SubSeq(q, m + 1, Len(q))) = Len(q) - m
<1> DEFINE s == SubSeq(q, m + 1, Len(q))
<1>1. Len(q) \in Nat /\ q \in Seq(Nat)
  BY DEF Queue
<1>2. s \in Seq(Nat) /\ Len(s) = Len(q) - m
  BY <1>1
<1>3. \A i \in 1..Len(s) : s[i] = q[i + m] /\ i + m \in 1..Len(q)
  BY <1>1, <1>2
<1> QED BY <1>1, <1>2, <1>3 DEF Queue, Increasing

\* The same for Tail: a full backlog loses its oldest entry, a reader takes one.
LEMMA QueueTail ==
  ASSUME NEW q, NEW n \in Nat, Queue(q, n), q # <<>>
  PROVE  Queue(Tail(q), n) /\ Len(Tail(q)) = Len(q) - 1 /\ Len(q) >= 1
<1>1. q \in Seq(Nat) /\ Len(q) >= 1
  BY DEF Queue
<1>2. Tail(q) = SubSeq(q, 2, Len(q))
  BY <1>1
<1>3. 1 \in 0..Len(q) /\ 1 + 1 = 2
  BY <1>1
<1>4. Queue(SubSeq(q, 1 + 1, Len(q)), n) /\ Len(SubSeq(q, 1 + 1, Len(q))) = Len(q) - 1
  BY <1>3, QueueSuffix
<1> QED BY <1>1, <1>2, <1>3, <1>4, Zenon

\* What requeue makes of a channel when the backlog behind it is empty.
LEMMA RequeueAlone ==
  ASSUME NEW q, NEW n \in Nat, Queue(q, n)
  PROVE  /\ Queue(Requeue(q, <<>>), n)
         /\ Len(Requeue(q, <<>>)) <= SubBufSize
         /\ Excess(q \o <<>>) \in Nat
<1>1. q \o <<>> = q /\ Len(q) \in Nat
  BY ConcatEmptySeq DEF Queue
<1>2. Excess(q) \in 0..Len(q) /\ Len(q) - Excess(q) <= SubBufSize
  BY <1>1, HubAssumption DEF Excess
<1>3. Requeue(q, <<>>) = SubSeq(q, Excess(q) + 1, Len(q))
  BY <1>1 DEF Requeue
<1>4. /\ Queue(SubSeq(q, Excess(q) + 1, Len(q)), n)
      /\ Len(SubSeq(q, Excess(q) + 1, Len(q))) = Len(q) - Excess(q)
  BY <1>2, QueueSuffix
<1>5. Queue(Requeue(q, <<>>), n) /\ Len(Requeue(q, <<>>)) = Len(q) - Excess(q)
  BY <1>3, <1>4, Zenon
<1>6. Excess(q \o <<>>) \in Nat
  <2>1. Excess(q) \in Nat
    BY <1>1, <1>2
  <2> QED BY <2>1, <1>1, Zenon
<1> QED BY <1>1, <1>2, <1>5, <1>6, HubAssumption

-----------------------------------------------------------------------------
(* The invariant, regrouped by the piece of state it speaks of *)

GoodSub(s, n) ==
  /\ s \in Sub
  /\ Queue(s.ch, n)
  /\ Len(s.ch) <= s.cap
  /\ s.cap <= 2 * SubBufSize

GoodBacklog(q, n) == Queue(q, n) /\ Len(q) <= SubBufSize

SubsOK ==
  /\ nextID \in 0..MaxSubscribe
  /\ DOMAIN subs \subseteq 1..nextID
  /\ \A id \in DOMAIN subs : GoodSub(subs[id], Len(log))

RetainedOK ==
  /\ DOMAIN retained \subseteq Keys
  /\ Keyed \/ DOMAIN retained = {}
  /\ \A k \in DOMAIN retained : GoodBacklog(retained[k], Len(log))

HistoryOK ==
  /\ drops \in [Filters -> Nat]
  /\ log \in Seq(Filters)
  /\ Len(log) <= MaxPublish
  /\ read \in [Filters -> Seq(Nat)]

\* The grouping loses nothing.
LEMMA Regroup ==
  HubInv <=> SubsOK /\ RetainedOK /\ HistoryOK /\ BacklogOnlyWhenDetached
<1>1. ASSUME HubInv
      PROVE  SubsOK /\ RetainedOK /\ HistoryOK /\ BacklogOnlyWhenDetached
  <2>1. SubsOK
    BY <1>1 DEF HubInv, HubTypeOK, QueuesInOrder, QueuesBounded, SubsOK, GoodSub, Queue,
                Published, Sub
  <2>2. RetainedOK
    BY <1>1 DEF HubInv, HubTypeOK, QueuesInOrder, QueuesBounded, RetainedOK, GoodBacklog,
                Queue, Published
  <2> QED BY <2>1, <2>2, <1>1 DEF HubInv, HubTypeOK, HistoryOK
<1>2. ASSUME SubsOK, RetainedOK, HistoryOK, BacklogOnlyWhenDetached
      PROVE  HubInv
  <2>1. HubTypeOK
    BY <1>2 DEF HubTypeOK, SubsOK, RetainedOK, HistoryOK, GoodSub, GoodBacklog, Queue
  <2>2. QueuesInOrder
    BY <1>2 DEF QueuesInOrder, SubsOK, RetainedOK, GoodSub, GoodBacklog, Queue, Published
  <2>3. QueuesBounded
    BY <1>2 DEF QueuesBounded, SubsOK, RetainedOK, GoodSub, GoodBacklog
  <2> QED BY <1>2, <2>1, <2>2, <2>3 DEF HubInv
<1> QED BY <1>1, <1>2

\* A subscriber and a backlog stay good when an entry is published elsewhere.
LEMMA GoodGrow ==
  ASSUME NEW n \in Nat
  PROVE  /\ \A s : GoodSub(s, n) => GoodSub(s, n + 1)
         /\ \A q : GoodBacklog(q, n) => GoodBacklog(q, n + 1)
BY QueueGrow DEF GoodSub, GoodBacklog

-----------------------------------------------------------------------------
(* Each action preserves the invariant *)

\* The hub NewHub builds satisfies the invariant.
LEMMA InitInv == HubInit => HubInv
<1> SUFFICES ASSUME HubInit PROVE HubInv
  OBVIOUS
<1>1. SubsOK
  BY HubAssumption DEF HubInit, SubsOK
<1>2. RetainedOK
  BY DEF HubInit, RetainedOK
<1>3. HistoryOK
  BY HubAssumption DEF HubInit, HistoryOK
<1>4. BacklogOnlyWhenDetached
  BY DEF HubInit, BacklogOnlyWhenDetached
<1> QED BY <1>1, <1>2, <1>3, <1>4, Regroup

\* Retain adds an empty backlog.
LEMMA RetainInv ==
  ASSUME HubInv, NEW k \in Keys, Retain(k)
  PROVE  HubInv'
<1>1. SubsOK /\ RetainedOK /\ HistoryOK /\ BacklogOnlyWhenDetached
  BY Regroup
<1>2. DOMAIN retained' = DOMAIN retained \cup {k} /\ retained'[k] = <<>>
  BY DEF Retain, Put
<1>3. \A j \in DOMAIN retained : j # k => retained'[j] = retained[j]
  BY DEF Retain, Put
<1>4. UNCHANGED <<subs, nextID, drops, log, read>> /\ Keyed
  BY DEF Retain
<1>5. GoodBacklog(<<>>, Len(log)) /\ Len(log) \in Nat
  BY <1>1, QueueEmpty, HubAssumption DEF GoodBacklog, HistoryOK
<1>6. SubsOK'
  BY <1>1, <1>4 DEF SubsOK
<1>7. RetainedOK'
  BY <1>1, <1>2, <1>3, <1>4, <1>5 DEF RetainedOK
<1>8. HistoryOK'
  BY <1>1, <1>4 DEF HistoryOK
<1>9. BacklogOnlyWhenDetached'
  BY <1>1, <1>2, <1>3, <1>4 DEF BacklogOnlyWhenDetached, Holds
<1> QED BY <1>6, <1>7, <1>8, <1>9, Regroup, PTL

\* Release removes a backlog and touches nothing else.
LEMMA ReleaseInv ==
  ASSUME HubInv, NEW k \in Keys, Release(k)
  PROVE  HubInv'
<1>1. SubsOK /\ RetainedOK /\ HistoryOK /\ BacklogOnlyWhenDetached
  BY Regroup
<1>2. DOMAIN retained' = DOMAIN retained \ {k}
  BY DEF Release, Delete, Restrict
<1>3. \A j \in DOMAIN retained' : retained'[j] = retained[j]
  BY DEF Release, Delete, Restrict
<1>4. UNCHANGED <<subs, nextID, drops, log, read>>
  BY DEF Release
<1>6. SubsOK'
  BY <1>1, <1>4 DEF SubsOK
<1>7. RetainedOK'
  BY <1>1, <1>2, <1>3, <1>4 DEF RetainedOK
<1>8. HistoryOK'
  BY <1>1, <1>4 DEF HistoryOK
<1>9. BacklogOnlyWhenDetached'
  BY <1>1, <1>2, <1>3, <1>4 DEF BacklogOnlyWhenDetached, Holds
<1> QED BY <1>6, <1>7, <1>8, <1>9, Regroup, PTL

\* Subscribe moves the backlog to the new channel, which has room for it.
LEMMA SubscribeInv ==
  ASSUME HubInv, NEW f \in Filters, Subscribe(f)
  PROVE  HubInv'
<1> DEFINE new == [filter |-> f, ch |-> Held(f), cap |-> ChanCap(Held(f)), since |-> Len(log)]
<1>1. SubsOK /\ RetainedOK /\ HistoryOK /\ BacklogOnlyWhenDetached
  BY Regroup
<1>2. nextID' = nextID + 1 /\ nextID < MaxSubscribe /\ UNCHANGED <<drops, log, read>>
  BY DEF Subscribe
<1>3. DOMAIN subs' = DOMAIN subs \cup {nextID + 1} /\ subs'[nextID + 1] = new
  BY DEF Subscribe, Put
<1>4. nextID \in Nat /\ nextID + 1 \notin DOMAIN subs
  BY <1>1, HubAssumption DEF SubsOK
<1>5. \A id \in DOMAIN subs : subs'[id] = subs[id]
  BY <1>4 DEF Subscribe, Put
<1>6. DOMAIN retained' = DOMAIN retained
  BY DEF Subscribe, HandedOver
<1>7. \A k \in DOMAIN retained : retained'[k] = IF k = f THEN <<>> ELSE retained[k]
  BY DEF Subscribe, HandedOver
<1>8. Len(log) \in Nat
  BY <1>1 DEF HistoryOK
<1>9. GoodBacklog(<<>>, Len(log))
  BY <1>8, QueueEmpty, HubAssumption DEF GoodBacklog
<1>10. GoodBacklog(Held(f), Len(log))
  BY <1>1, <1>9 DEF Held, RetainedOK
<1>11. GoodSub(new, Len(log))
  <2>1. Held(f) \in Seq(Nat) /\ Len(Held(f)) \in Nat /\ Len(Held(f)) <= SubBufSize
    BY <1>10 DEF GoodBacklog, Queue
  <2>2. new \in Sub
    BY <2>1, <1>8, HubAssumption DEF Sub, ChanCap
  <2>3. Len(new.ch) <= new.cap /\ new.cap <= 2 * SubBufSize
    BY <2>1, HubAssumption DEF ChanCap
  <2> QED BY <2>2, <2>3, <1>10 DEF GoodSub, GoodBacklog
<1>12. SubsOK'
  <2>1. nextID' \in 0..MaxSubscribe
    BY <1>1, <1>2, HubAssumption DEF SubsOK
  <2>2. DOMAIN subs' \subseteq 1..nextID'
    BY <1>1, <1>2, <1>3, <1>4 DEF SubsOK
  <2>3. \A id \in DOMAIN subs' : GoodSub(subs'[id], Len(log))
    BY <1>1, <1>3, <1>5, <1>11 DEF SubsOK
  <2> QED BY <2>1, <2>2, <2>3, <1>2 DEF SubsOK
<1>13. RetainedOK'
  BY <1>1, <1>2, <1>6, <1>7, <1>9 DEF RetainedOK
<1>14. HistoryOK'
  BY <1>1, <1>2 DEF HistoryOK
<1>15. BacklogOnlyWhenDetached'
  <2> SUFFICES ASSUME NEW k \in DOMAIN retained, retained'[k] # <<>>
               PROVE  ~Holds(subs', k)
    BY <1>6 DEF BacklogOnlyWhenDetached
  <2>1. k # f /\ ~Holds(subs, k)
    BY <1>1, <1>7 DEF BacklogOnlyWhenDetached
  <2>2. \A id \in DOMAIN subs' : subs'[id].filter # k
    BY <2>1, <1>3, <1>5 DEF Holds
  <2> QED BY <2>2 DEF Holds
<1> QED BY <1>12, <1>13, <1>14, <1>15, Regroup, PTL

\* Unsubscribe moves what was not read back, cut to subBufSize entries.
LEMMA UnsubscribeInv ==
  ASSUME HubInv, NEW id \in DOMAIN subs, Unsubscribe(id)
  PROVE  HubInv'
<1> DEFINE s == subs[id]
           rest == Delete(subs, id)
<1>1. SubsOK /\ RetainedOK /\ HistoryOK /\ BacklogOnlyWhenDetached
  BY Regroup
<1>2. subs' = rest /\ UNCHANGED <<nextID, log, read>>
  BY DEF Unsubscribe
<1>3. DOMAIN rest = DOMAIN subs \ {id} /\ \A x \in DOMAIN rest : rest[x] = subs[x]
  BY DEF Delete, Restrict
<1>4. SubsOK'
  BY <1>1, <1>2, <1>3 DEF SubsOK
<1>5. \A k : Holds(rest, k) => Holds(subs, k)
  BY <1>3 DEF Holds
<1>6. GoodSub(s, Len(log)) /\ Len(log) \in Nat
  BY <1>1 DEF SubsOK, HistoryOK
<1>7. CASE s.filter \in DOMAIN retained /\ ~Holds(rest, s.filter)
  <2>1. retained[s.filter] = <<>>
    BY <1>1, <1>7 DEF BacklogOnlyWhenDetached, Holds
  <2>2. /\ retained' = [retained EXCEPT ![s.filter] = Requeue(s.ch, @)]
        /\ drops' = [drops EXCEPT ![s.filter] = @ + Excess(s.ch \o retained[s.filter])]
    BY <1>7 DEF Unsubscribe
  <2>3. /\ Queue(Requeue(s.ch, <<>>), Len(log))
        /\ Len(Requeue(s.ch, <<>>)) <= SubBufSize
        /\ Excess(s.ch \o <<>>) \in Nat
    BY <1>6, RequeueAlone DEF GoodSub
  <2>4. DOMAIN retained' = DOMAIN retained
    BY <2>2
  <2>5. \A k \in DOMAIN retained :
          retained'[k] = IF k = s.filter THEN Requeue(s.ch, <<>>) ELSE retained[k]
    BY <2>1, <2>2
  <2>6. RetainedOK'
    BY <1>1, <1>2, <2>3, <2>4, <2>5 DEF RetainedOK, GoodBacklog
  <2>7. HistoryOK'
    <3>1. drops' = [drops EXCEPT ![s.filter] = @ + Excess(s.ch \o <<>>)]
      BY <2>1, <2>2
    <3>2. drops \in [Filters -> Nat] /\ s.filter \in Filters
      BY <1>1, <1>6 DEF HistoryOK, GoodSub, Sub
    <3>3. drops' \in [Filters -> Nat]
      BY <2>3, <3>1, <3>2
    <3> QED BY <1>1, <1>2, <3>3 DEF HistoryOK
  <2>8. BacklogOnlyWhenDetached'
    BY <1>1, <1>2, <1>5, <1>7, <2>4, <2>5 DEF BacklogOnlyWhenDetached
  <2> QED BY <1>4, <2>6, <2>7, <2>8, Regroup, PTL
<1>8. CASE ~(s.filter \in DOMAIN retained /\ ~Holds(rest, s.filter))
  <2>1. UNCHANGED <<retained, drops>>
    BY <1>8 DEF Unsubscribe
  <2>2. RetainedOK'
    BY <1>1, <1>2, <2>1 DEF RetainedOK
  <2>3. HistoryOK'
    BY <1>1, <1>2, <2>1 DEF HistoryOK
  <2>4. BacklogOnlyWhenDetached'
    BY <1>1, <1>2, <1>5, <2>1 DEF BacklogOnlyWhenDetached
  <2> QED BY <1>4, <2>2, <2>3, <2>4, Regroup, PTL
<1> QED BY <1>7, <1>8

\* A reader takes the oldest entry of its channel.
LEMMA ReceiveInv ==
  ASSUME HubInv, NEW id \in DOMAIN subs, Receive(id)
  PROVE  HubInv'
<1>1. SubsOK /\ RetainedOK /\ HistoryOK /\ BacklogOnlyWhenDetached
  BY Regroup
<1>2. UNCHANGED <<nextID, retained, drops, log>> /\ subs[id].ch # <<>>
  BY DEF Receive
<1>3. /\ subs' = [subs EXCEPT ![id].ch = Tail(@)]
      /\ read' = [read EXCEPT ![subs[id].filter] = Append(@, Head(subs[id].ch))]
  BY DEF Receive
<1>4. GoodSub(subs[id], Len(log)) /\ Len(log) \in Nat
  BY <1>1 DEF SubsOK, HistoryOK
<1>5. /\ Queue(Tail(subs[id].ch), Len(log))
      /\ Len(Tail(subs[id].ch)) = Len(subs[id].ch) - 1
      /\ Len(subs[id].ch) >= 1
  BY <1>2, <1>4, QueueTail DEF GoodSub
<1>6. DOMAIN subs' = DOMAIN subs /\ \A x \in DOMAIN subs : x # id => subs'[x] = subs[x]
  BY <1>3
<1>7. subs'[id] = [subs[id] EXCEPT !.ch = Tail(@)]
  BY <1>3
<1>8. GoodSub(subs'[id], Len(log)) /\ subs'[id].filter = subs[id].filter
  <2>1. subs'[id] \in Sub
    BY <1>4, <1>5, <1>7 DEF GoodSub, Sub, Queue
  <2>2. /\ subs'[id].ch = Tail(subs[id].ch)
        /\ subs'[id].cap = subs[id].cap
        /\ subs'[id].filter = subs[id].filter
    BY <1>4, <1>7 DEF GoodSub, Sub
  <2>3. Len(subs[id].ch) \in Nat /\ subs[id].cap \in Nat
    BY <1>4 DEF GoodSub, Sub
  <2>4. Len(subs'[id].ch) <= subs'[id].cap
    BY <1>4, <1>5, <2>2, <2>3 DEF GoodSub
  <2> QED BY <1>4, <1>5, <2>1, <2>2, <2>4 DEF GoodSub
<1>9. SubsOK'
  BY <1>1, <1>2, <1>6, <1>8 DEF SubsOK
<1>10. RetainedOK'
  BY <1>1, <1>2 DEF RetainedOK
<1>11. HistoryOK'
  <2>1. Head(subs[id].ch) \in Nat /\ subs[id].filter \in Filters
    BY <1>2, <1>4 DEF GoodSub, Sub
  <2> QED BY <1>1, <1>2, <1>3, <2>1 DEF HistoryOK
<1>12. BacklogOnlyWhenDetached'
  BY <1>1, <1>2, <1>6, <1>8 DEF BacklogOnlyWhenDetached, Holds
<1> QED BY <1>9, <1>10, <1>11, <1>12, Regroup, PTL

\* Publish appends the newest entry wherever there is room or a backlog.
LEMMA PublishInv ==
  ASSUME HubInv, NEW k \in Filters, Publish(k)
  PROVE  HubInv'
<1> DEFINE n == Len(log) + 1
           key == KeyOf(k)
           kept == ~Attached(key) /\ key \in DOMAIN retained
           overflow == kept /\ Len(retained[key]) >= SubBufSize
           backlog == IF overflow THEN Tail(retained[key]) ELSE retained[key]
<1>1. SubsOK /\ RetainedOK /\ HistoryOK /\ BacklogOnlyWhenDetached
  BY Regroup
<1>2. UNCHANGED <<nextID, read>> /\ Len(log) < MaxPublish /\ log' = Append(log, k)
  BY DEF Publish
<1>3. subs' = [id \in DOMAIN subs |-> IF id \in Recipients(key) \ Full
                                      THEN [subs[id] EXCEPT !.ch = Append(@, n)]
                                      ELSE subs[id]]
  BY DEF Publish
<1>4. retained' = IF kept THEN [retained EXCEPT ![key] = Append(backlog, n)] ELSE retained
  BY DEF Publish
<1>5. drops' = [f \in Filters |->
                  drops[f] + DropsAt(f, key) + IF overflow /\ f = key THEN 1 ELSE 0]
  BY DEF Publish
<1>6. Len(log) \in Nat /\ Len(log') = n /\ log' \in Seq(Filters)
  BY <1>1, <1>2 DEF HistoryOK
<1>7. ASSUME NEW id \in DOMAIN subs
      PROVE  GoodSub(subs'[id], n) /\ subs'[id].filter = subs[id].filter
  <2>1. GoodSub(subs[id], Len(log))
    BY <1>1 DEF SubsOK
  <2>2. CASE id \in Recipients(key) \ Full
    <3>1. subs'[id] = [subs[id] EXCEPT !.ch = Append(@, n)]
      BY <1>3, <2>2
    <3>2. Queue(Append(subs[id].ch, n), n) /\ Len(Append(subs[id].ch, n)) = Len(subs[id].ch) + 1
      BY <1>6, <2>1, QueueAppend DEF GoodSub
    <3>3. Len(subs[id].ch) \in Nat /\ subs[id].cap \in Nat
      BY <2>1 DEF GoodSub, Sub
    <3>4. Len(subs[id].ch) < subs[id].cap
      BY <2>2, <3>3 DEF Full
    <3>5. subs'[id] \in Sub
      BY <2>1, <3>1, <3>2 DEF GoodSub, Sub, Queue
    <3>6. /\ subs'[id].ch = Append(subs[id].ch, n)
          /\ subs'[id].cap = subs[id].cap
          /\ subs'[id].filter = subs[id].filter
      BY <2>1, <3>1 DEF GoodSub, Sub
    <3>7. Len(subs'[id].ch) <= subs'[id].cap
      BY <3>2, <3>3, <3>4, <3>6
    <3> QED BY <2>1, <3>2, <3>5, <3>6, <3>7 DEF GoodSub
  <2>3. CASE id \notin Recipients(key) \ Full
    BY <1>3, <1>6, <2>1, <2>3, GoodGrow
  <2> QED BY <2>2, <2>3
<1>8. DOMAIN subs' = DOMAIN subs
  BY <1>3
<1>9. SubsOK'
  BY <1>1, <1>2, <1>6, <1>7, <1>8 DEF SubsOK
<1>10. \A j : Holds(subs', j) <=> Holds(subs, j)
  BY <1>7, <1>8 DEF Holds
<1>11. DOMAIN retained' = DOMAIN retained
  BY <1>4
<1>12. ASSUME NEW j \in DOMAIN retained
       PROVE  GoodBacklog(retained'[j], n) /\ (retained'[j] # retained[j] => kept /\ j = key)
  <2>1. GoodBacklog(retained[j], Len(log))
    BY <1>1 DEF RetainedOK
  <2>2. CASE kept /\ j = key
    <3>1. retained'[j] = Append(backlog, n)
      BY <1>4, <2>2
    <3>2. Len(retained[j]) \in Nat /\ SubBufSize \in Nat /\ SubBufSize > 0
      BY <2>1, HubAssumption DEF GoodBacklog, Queue
    <3>3. Queue(backlog, Len(log)) /\ Len(backlog) + 1 <= SubBufSize
      <4>1. CASE overflow
        <5>1. backlog = Tail(retained[j]) /\ Len(retained[j]) >= SubBufSize
          BY <2>2, <4>1
        <5>2. retained[j] # <<>>
          BY <3>2, <5>1
        <5>3. /\ Queue(Tail(retained[j]), Len(log))
              /\ Len(Tail(retained[j])) = Len(retained[j]) - 1
          BY <1>6, <2>1, <5>2, QueueTail DEF GoodBacklog
        <5>4. Len(retained[j]) - 1 + 1 <= SubBufSize
          BY <2>1, <3>2 DEF GoodBacklog
        <5> HIDE DEF backlog
        <5> QED BY <5>1, <5>3, <5>4
      <4>2. CASE ~overflow
        <5>1. backlog = retained[j] /\ Len(retained[j]) < SubBufSize
          BY <2>2, <3>2, <4>2
        <5>2. Queue(retained[j], Len(log)) /\ Len(retained[j]) + 1 <= SubBufSize
          BY <2>1, <3>2, <5>1 DEF GoodBacklog
        <5> HIDE DEF backlog
        <5> QED BY <5>1, <5>2
      <4> QED BY <4>1, <4>2
    <3>4. Queue(Append(backlog, n), n) /\ Len(Append(backlog, n)) = Len(backlog) + 1
      BY <1>6, <3>3, QueueAppend
    <3> QED BY <2>2, <3>1, <3>3, <3>4 DEF GoodBacklog
  <2>3. CASE ~(kept /\ j = key)
    <3>1. retained'[j] = retained[j]
      BY <1>4, <2>3
    <3> QED BY <1>6, <2>1, <3>1, GoodGrow
  <2> QED BY <2>2, <2>3
<1>13. RetainedOK'
  BY <1>1, <1>6, <1>11, <1>12 DEF RetainedOK
<1>14. \A f \in Filters : DropsAt(f, key) \in Nat
  <2> SUFFICES ASSUME NEW f \in Filters PROVE DropsAt(f, key) \in Nat
    OBVIOUS
  <2> DEFINE full == {id \in Recipients(key) \cap Full : subs[id].filter = f}
  <2>1. full \subseteq 1..nextID /\ nextID \in Nat
    BY <1>1, HubAssumption DEF Recipients, Full, SubsOK
  <2>2. IsFiniteSet(1..nextID)
    BY <2>1, FS_Interval
  <2>3. IsFiniteSet(full)
    BY <2>1, <2>2, FS_Subset
  <2> QED BY <2>3, FS_CardinalityType DEF DropsAt
<1>15. HistoryOK'
  <2>1. drops' \in [Filters -> Nat]
    BY <1>1, <1>5, <1>14 DEF HistoryOK
  <2>2. Len(log') <= MaxPublish
    BY <1>2, <1>6, HubAssumption
  <2> QED BY <1>1, <1>2, <1>6, <2>1, <2>2 DEF HistoryOK
<1>16. BacklogOnlyWhenDetached'
  <2> SUFFICES ASSUME NEW j \in DOMAIN retained, retained'[j] # <<>>
               PROVE  ~Holds(subs, j)
    BY <1>10, <1>11 DEF BacklogOnlyWhenDetached
  <2>1. CASE retained'[j] = retained[j]
    BY <1>1, <2>1 DEF BacklogOnlyWhenDetached
  <2>2. CASE retained'[j] # retained[j]
    <3>1. ~Attached(key) /\ j = key
      BY <1>12, <2>2
    <3>2. j # All
      BY <1>1, HubAssumption DEF RetainedOK
    <3> QED BY <3>1, <3>2 DEF Attached
  <2> QED BY <2>1, <2>2
<1> QED BY <1>9, <1>13, <1>15, <1>16, Regroup, PTL

\* HubInv is inductive.
LEMMA NextInv == HubInv /\ [HubNext]_hubVars => HubInv'
<1> SUFFICES ASSUME HubInv, [HubNext]_hubVars PROVE HubInv'
  OBVIOUS
<1>1. CASE \E k \in Keys : Retain(k) \/ Release(k)
  BY <1>1, RetainInv, ReleaseInv
<1>2. CASE \E f \in Filters : Subscribe(f) \/ Publish(f)
  BY <1>2, SubscribeInv, PublishInv
<1>3. CASE \E id \in DOMAIN subs : Unsubscribe(id) \/ Receive(id)
  BY <1>3, UnsubscribeInv, ReceiveInv
<1>4. CASE UNCHANGED hubVars
  BY <1>4 DEF hubVars, HubInv, HubTypeOK, BacklogOnlyWhenDetached, Holds, QueuesInOrder,
              Published, QueuesBounded
<1> QED BY <1>1, <1>2, <1>3, <1>4 DEF HubNext

-----------------------------------------------------------------------------
(* The theorems *)

\* The invariant holds in every state of every behaviour of the hub.
LEMMA HubInvariant == HubSpec => []HubInv
BY InitInv, NextInv, PTL DEF HubSpec

\* Every variable of the hub keeps its type: what Retain, Subscribe, Publish,
\* Unsubscribe and the readers do never leaves the hub's data model.
THEOREM HubTypeCorrect == HubSpec => []HubTypeOK
BY HubInvariant, PTL DEF HubInv

\* A retained key has a backlog only while no subscriber carries it, so replay
\* comes ahead of live entries and requeue never mixes two queues.
THEOREM HubBacklogDetached == HubSpec => []BacklogOnlyWhenDetached
BY HubInvariant, PTL DEF HubInv

\* Channels and backlogs stay in publish order and free of repetition.
THEOREM HubQueuesInOrder == HubSpec => []QueuesInOrder
BY HubInvariant, PTL DEF HubInv

\* No backlog and no channel outgrows its bound, so Subscribe's sends under
\* h.mu never block.
THEOREM HubQueuesBounded == HubSpec => []QueuesBounded
BY HubInvariant, PTL DEF HubInv

-----------------------------------------------------------------------------
(* Room for live entries.  A channel is a prefix of replayed entries, at    *)
(* most as many as Subscribe made it longer by, and then live ones.         *)

Room(s, n) ==
  /\ s.since <= n
  /\ \E r \in 0..Len(s.ch) :
       /\ r + SubBufSize <= s.cap
       /\ \A i \in 1..Len(s.ch) : s.ch[i] <= s.since <=> i <= r

Rooms == \A id \in DOMAIN subs : Room(subs[id], Len(log))

\* A new subscriber's channel holds replayed entries only, and has room beside them.
LEMMA RoomNew ==
  ASSUME NEW q, NEW n \in Nat, Queue(q, n), NEW s,
         s.ch = q, s.cap = SubBufSize + Len(q), s.since = n
  PROVE  Room(s, n)
<1>1. Len(q) \in 0..Len(q) /\ Len(q) + SubBufSize <= s.cap
  BY HubAssumption DEF Queue
<1>2. \A i \in 1..Len(q) : q[i] <= n /\ i <= Len(q)
  BY DEF Queue
<1> QED BY <1>1, <1>2 DEF Room

\* A live entry goes behind the others, and is younger than the subscriber.
LEMMA RoomAppend ==
  ASSUME NEW s, NEW n \in Nat, GoodSub(s, n), Room(s, n), NEW t,
         t.ch = Append(s.ch, n + 1), t.cap = s.cap, t.since = s.since
  PROVE  Room(t, n + 1)
<1>1. PICK r \in 0..Len(s.ch) : /\ r + SubBufSize <= s.cap
                               /\ \A i \in 1..Len(s.ch) : s.ch[i] <= s.since <=> i <= r
  BY DEF Room
<1>2. s.ch \in Seq(Nat) /\ Len(s.ch) \in Nat /\ s.since \in Nat /\ s.since <= n
  BY DEF GoodSub, Sub, Queue, Room
<1>3. Len(t.ch) = Len(s.ch) + 1 /\ t.ch[Len(s.ch) + 1] = n + 1
      /\ \A i \in 1..Len(s.ch) : t.ch[i] = s.ch[i]
  BY <1>2
<1>4. ASSUME NEW i \in 1..Len(t.ch) PROVE t.ch[i] <= t.since <=> i <= r
  <2>1. CASE i \in 1..Len(s.ch)
    BY <1>1, <1>3, <2>1
  <2>2. CASE i = Len(s.ch) + 1
    BY <1>1, <1>2, <1>3, <2>2
  <2> QED BY <1>2, <1>3, <2>1, <2>2
<1>5. r \in 0..Len(t.ch) /\ r + SubBufSize <= t.cap /\ t.since <= n + 1
  BY <1>1, <1>2, <1>3
<1> QED BY <1>4, <1>5 DEF Room

\* A reader takes a replayed entry while there is one.
LEMMA RoomTail ==
  ASSUME NEW s, NEW n \in Nat, GoodSub(s, n), Room(s, n), s.ch # <<>>, NEW t,
         t.ch = Tail(s.ch), t.cap = s.cap, t.since = s.since
  PROVE  Room(t, n)
<1>1. PICK r \in 0..Len(s.ch) : /\ r + SubBufSize <= s.cap
                               /\ \A i \in 1..Len(s.ch) : s.ch[i] <= s.since <=> i <= r
  BY DEF Room
<1>2. s.ch \in Seq(Nat) /\ Len(s.ch) \in Nat /\ s.since \in Nat /\ s.since <= n /\ s.cap \in Nat
  BY DEF GoodSub, Sub, Queue, Room
<1>3. Len(t.ch) = Len(s.ch) - 1 /\ Len(s.ch) >= 1
      /\ \A i \in 1..Len(t.ch) : t.ch[i] = s.ch[i + 1] /\ i + 1 \in 1..Len(s.ch)
  BY <1>2
<1> DEFINE m == IF r = 0 THEN 0 ELSE r - 1
<1>4. m \in 0..Len(t.ch) /\ m + SubBufSize <= t.cap
  BY <1>1, <1>2, <1>3, HubAssumption
<1>5. \A i \in 1..Len(t.ch) : t.ch[i] <= t.since <=> i <= m
  BY <1>1, <1>2, <1>3
<1> QED BY <1>2, <1>4, <1>5 DEF Room

\* Every action leaves every channel its room.
LEMMA RoomsNext ==
  ASSUME HubInv, Rooms, [HubNext]_hubVars
  PROVE  Rooms'
<1>1. SubsOK /\ RetainedOK /\ HistoryOK /\ Len(log) \in Nat
  BY Regroup DEF HistoryOK
<1>2. CASE \E k \in Keys : Retain(k) \/ Release(k)
  BY <1>2 DEF Retain, Release, Rooms
<1>3. CASE UNCHANGED hubVars
  BY <1>3 DEF hubVars, Rooms
<1>4. CASE \E f \in Filters : Subscribe(f)
  <2>1. PICK f \in Filters : Subscribe(f)
    BY <1>4
  <2> DEFINE new == [filter |-> f, ch |-> Held(f), cap |-> ChanCap(Held(f)), since |-> Len(log)]
  <2>2. Queue(Held(f), Len(log))
    BY <1>1, QueueEmpty DEF Held, RetainedOK, GoodBacklog
  <2>3. Room(new, Len(log))
    BY <1>1, <2>2, RoomNew DEF ChanCap
  <2>4. DOMAIN subs' = DOMAIN subs \cup {nextID + 1} /\ log' = log
        /\ \A id \in DOMAIN subs' : subs'[id] = new \/ (id \in DOMAIN subs /\ subs'[id] = subs[id])
    BY <2>1 DEF Subscribe, Put
  <2> QED BY <2>3, <2>4 DEF Rooms
<1>5. CASE \E id \in DOMAIN subs : Unsubscribe(id)
  BY <1>5 DEF Unsubscribe, Delete, Restrict, Rooms
<1>6. CASE \E id \in DOMAIN subs : Receive(id)
  <2>1. PICK id \in DOMAIN subs : Receive(id)
    BY <1>6
  <2>2. /\ log' = log /\ DOMAIN subs' = DOMAIN subs /\ subs[id].ch # <<>>
        /\ \A x \in DOMAIN subs : x # id => subs'[x] = subs[x]
    BY <2>1 DEF Receive
  <2>3. GoodSub(subs[id], Len(log)) /\ Room(subs[id], Len(log))
    BY <1>1 DEF SubsOK, Rooms
  <2>4. /\ subs'[id].ch = Tail(subs[id].ch) /\ subs'[id].cap = subs[id].cap
        /\ subs'[id].since = subs[id].since
    BY <2>1, <2>3 DEF Receive, GoodSub, Sub
  <2>5. Room(subs'[id], Len(log))
    BY <1>1, <2>2, <2>3, <2>4, RoomTail
  <2> QED BY <2>2, <2>5 DEF Rooms
<1>7. CASE \E f \in Filters : Publish(f)
  <2>1. PICK f \in Filters : Publish(f)
    BY <1>7
  <2>2. Len(log') = Len(log) + 1 /\ DOMAIN subs' = DOMAIN subs
    BY <1>1, <2>1 DEF Publish, HistoryOK
  <2>3. ASSUME NEW id \in DOMAIN subs PROVE Room(subs'[id], Len(log) + 1)
    <3>1. GoodSub(subs[id], Len(log)) /\ Room(subs[id], Len(log))
      BY <1>1 DEF SubsOK, Rooms
    <3>2. CASE subs'[id] = subs[id]
      BY <1>1, <3>1, <3>2 DEF Room, GoodSub, Sub
    <3>3. CASE subs'[id] = [subs[id] EXCEPT !.ch = Append(@, Len(log) + 1)]
      <4>1. /\ subs'[id].ch = Append(subs[id].ch, Len(log) + 1) /\ subs'[id].cap = subs[id].cap
            /\ subs'[id].since = subs[id].since
        BY <3>1, <3>3 DEF GoodSub, Sub
      <4> QED BY <1>1, <3>1, <4>1, RoomAppend
    <3> QED BY <2>1, <3>2, <3>3 DEF Publish
  <2> QED BY <2>2, <2>3 DEF Rooms
<1> QED BY <1>2, <1>3, <1>4, <1>5, <1>6, <1>7 DEF HubNext

\* A full channel holds subBufSize live entries.
LEMMA RoomsGiveLiveRoom == HubInv /\ Rooms => LiveRoom
<1> SUFFICES ASSUME HubInv, Rooms, NEW id \in Full
             PROVE  Cardinality({i \in 1..Len(subs[id].ch) : subs[id].ch[i] > subs[id].since})
                      >= SubBufSize
  BY DEF LiveRoom
<1> DEFINE s == subs[id]
           live == {i \in 1..Len(s.ch) : s.ch[i] > s.since}
<1>1. id \in DOMAIN subs /\ Len(s.ch) >= s.cap
  BY DEF Full
<1>2. GoodSub(s, Len(log)) /\ Room(s, Len(log))
  BY <1>1, Regroup DEF SubsOK, Rooms
<1>3. s.ch \in Seq(Nat) /\ Len(s.ch) \in Nat /\ s.since \in Nat /\ s.cap \in Nat
  BY <1>2 DEF GoodSub, Sub
<1>4. PICK r \in 0..Len(s.ch) : /\ r + SubBufSize <= s.cap
                               /\ \A i \in 1..Len(s.ch) : s.ch[i] <= s.since <=> i <= r
  BY <1>2 DEF Room
<1>5. live = (r + 1)..Len(s.ch)
  BY <1>3, <1>4, SMTT(60)
<1>6. Cardinality((r + 1)..Len(s.ch)) = IF r + 1 > Len(s.ch) THEN 0 ELSE Len(s.ch) - (r + 1) + 1
  <2>1. r + 1 \in Int /\ Len(s.ch) \in Int
    BY <1>3, <1>4
  <2> QED BY ONLY <2>1, FS_Interval
<1>7. Cardinality(live) >= SubBufSize
  <2>1. Cardinality(live) = IF r + 1 > Len(s.ch) THEN 0 ELSE Len(s.ch) - (r + 1) + 1
    BY <1>5, <1>6
  <2> HIDE DEF live
  <2> QED BY <1>1, <1>3, <1>4, <2>1, HubAssumption
<1> QED BY <1>7

\* The invariant with room holds in every behaviour.
LEMMA RoomInvariant == HubSpec => [](HubInv /\ Rooms)
<1>1. HubInit => Rooms
  BY DEF HubInit, Rooms
<1> QED BY <1>1, InitInv, NextInv, RoomsNext, PTL DEF HubSpec

\* A live entry is dropped at a channel only behind subBufSize unread live
\* entries, however long the backlog was that Subscribe replayed into it.
THEOREM HubLiveRoom == HubSpec => []LiveRoom
BY RoomInvariant, RoomsGiveLiveRoom, PTL

-----------------------------------------------------------------------------
(* The hub implements the feed of any key, while the consumers of a key     *)
(* connect one at a time.                                                   *)

FeedOf(k) == INSTANCE LogFeed WITH
  key <- k, others <- Filters \ {k}, cap <- SubBufSize,
  log <- log, pending <- Pending(k), got <- read[k],
  dropped <- drops[k], kept <- k \in DOMAIN retained

\* A key has at most one subscriber.
OneEach ==
  \A a, b \in DOMAIN subs : subs[a].filter = subs[b].filter /\ subs[a].filter # All => a = b

FeedInv == HubInv /\ Rooms /\ OneEach

\* The only subscriber of a key is the one that CHOOSE finds.
LEMMA ChosenSub ==
  ASSUME NEW ss, NEW k, NEW id \in DOMAIN ss, ss[id].filter = k,
         \A b \in DOMAIN ss : ss[b].filter = k => b = id
  PROVE  Holds(ss, k) /\ (CHOOSE x \in DOMAIN ss : ss[x].filter = k) = id
<1>1. \E x \in DOMAIN ss : ss[x].filter = k
  OBVIOUS
<1> DEFINE c == CHOOSE x \in DOMAIN ss : ss[x].filter = k
<1>2. c \in DOMAIN ss /\ ss[c].filter = k
  BY <1>1
<1> QED BY <1>1, <1>2 DEF Holds

\* What waits for the consumer of a key.
LEMMA PendingIs ==
  ASSUME OneEach, NEW k \in Keys
  PROVE  /\ \A id \in DOMAIN subs : subs[id].filter = k => Pending(k) = subs[id].ch
         /\ ~Holds(subs, k) => Pending(k) = Held(k)
<1>1. k # All
  BY HubAssumption
<1>2. ASSUME NEW id \in DOMAIN subs, subs[id].filter = k PROVE Pending(k) = subs[id].ch
  <2>1. \A b \in DOMAIN subs : subs[b].filter = k => b = id
    BY <1>1, <1>2 DEF OneEach
  <2> QED BY <1>2, <2>1, ChosenSub DEF Pending
<1> QED BY <1>2 DEF Pending

\* The same in the next state.
LEMMA PendingNext ==
  ASSUME OneEach', NEW k \in Keys
  PROVE  /\ \A id \in DOMAIN subs' : subs'[id].filter = k => Pending(k)' = subs'[id].ch
         /\ ~Holds(subs', k) => Pending(k)' = Held(k)'
<1>1. k # All
  BY HubAssumption
<1>2. ASSUME NEW id \in DOMAIN subs', subs'[id].filter = k PROVE Pending(k)' = subs'[id].ch
  <2>1. \A b \in DOMAIN subs' : subs'[b].filter = k => b = id
    BY <1>1, <1>2 DEF OneEach
  <2> QED BY <1>2, <2>1, ChosenSub DEF Pending
<1> QED BY <1>2 DEF Pending

\* Consumers of a key stay one at a time when Subscribe is called so.
LEMMA OneEachNext ==
  ASSUME FeedInv, ~Overlap, [HubNext]_hubVars
  PROVE  OneEach'
<1>1. SubsOK /\ nextID \in Nat
  BY Regroup, HubAssumption DEF FeedInv, SubsOK
<1>2. CASE \E k \in Keys : Retain(k) \/ Release(k)
  BY <1>2 DEF Retain, Release, FeedInv, OneEach
<1>3. CASE UNCHANGED hubVars
  BY <1>3 DEF hubVars, FeedInv, OneEach
<1>4. CASE \E f \in Filters : Subscribe(f)
  <2>1. PICK f \in Filters : Subscribe(f)
    BY <1>4
  <2>2. f = All \/ ~Holds(subs, f)
    BY <2>1 DEF Subscribe
  <2>3. /\ DOMAIN subs' = DOMAIN subs \cup {nextID + 1} /\ nextID + 1 \notin DOMAIN subs
        /\ subs'[nextID + 1].filter = f
        /\ \A id \in DOMAIN subs : subs'[id] = subs[id]
    BY <1>1, <2>1 DEF Subscribe, Put, SubsOK
  <2> QED BY <2>2, <2>3 DEF FeedInv, OneEach, Holds
<1>5. CASE \E id \in DOMAIN subs : Unsubscribe(id)
  BY <1>5 DEF Unsubscribe, Delete, Restrict, FeedInv, OneEach
<1>6. CASE \E id \in DOMAIN subs : Receive(id)
  <2>1. DOMAIN subs' = DOMAIN subs /\ \A x \in DOMAIN subs : subs'[x].filter = subs[x].filter
    BY <1>1, <1>6 DEF Receive, SubsOK, GoodSub, Sub
  <2> QED BY <2>1 DEF FeedInv, OneEach
<1>7. CASE \E f \in Filters : Publish(f)
  <2>1. DOMAIN subs' = DOMAIN subs /\ \A x \in DOMAIN subs : subs'[x].filter = subs[x].filter
    BY <1>1, <1>7 DEF Publish, SubsOK, GoodSub, Sub
  <2> QED BY <2>1 DEF FeedInv, OneEach
<1> QED BY <1>2, <1>3, <1>4, <1>5, <1>6, <1>7 DEF HubNext

\* A step that leaves a key's subscriber, backlog, reads and drops alone leaves
\* its feed as it was.
LEMMA PendingSame ==
  ASSUME FeedInv, OneEach', NEW k \in Keys, Held(k)' = Held(k),
         Holds(subs', k) <=> Holds(subs, k),
         \A id \in DOMAIN subs : subs[id].filter = k =>
            id \in DOMAIN subs' /\ subs'[id].filter = k /\ subs'[id].ch = subs[id].ch
  PROVE  Pending(k)' = Pending(k)
<1>1. CASE Holds(subs, k)
  <2>1. PICK id \in DOMAIN subs : subs[id].filter = k
    BY <1>1 DEF Holds
  <2>2. Pending(k) = subs[id].ch
    BY <2>1, PendingIs DEF FeedInv
  <2>3. Pending(k)' = subs'[id].ch
    BY <2>1, PendingNext
  <2> QED BY <2>1, <2>2, <2>3
<1>2. CASE ~Holds(subs, k)
  BY <1>2, PendingIs, PendingNext DEF FeedInv
<1> QED BY <1>1, <1>2

\* Retain begins to keep the feed; Release ends it, with the waiting entries or
\* without.
LEMMA FeedRetain ==
  ASSUME FeedInv, OneEach', NEW k \in Keys, NEW j \in Keys, Retain(j) \/ Release(j)
  PROVE  [FeedOf(k)!FeedNext]_(FeedOf(k)!feedVars)
<1>1. UNCHANGED <<subs, drops, log, read>>
  BY DEF Retain, Release
<1>2. Holds(subs', k) <=> Holds(subs, k)
  BY <1>1
<1>3. CASE Retain(j)
  <2>1. DOMAIN retained' = DOMAIN retained \cup {j} /\ j \notin DOMAIN retained
        /\ \A x \in DOMAIN retained' : retained'[x] = IF x = j THEN <<>> ELSE retained[x]
    BY <1>3 DEF Retain, Put
  <2>2. Held(k)' = Held(k)
    BY <2>1 DEF Held
  <2>3. Pending(k)' = Pending(k)
    BY <1>1, <1>2, <2>2, PendingSame
  <2>4. CASE j = k
    BY <1>1, <2>1, <2>3, <2>4 DEF FeedOf!FeedNext, FeedOf!Keep
  <2>5. CASE j # k
    BY <1>1, <2>1, <2>3, <2>5 DEF FeedOf!feedVars
  <2> QED BY <2>4, <2>5
<1>4. CASE Release(j)
  <2>1. DOMAIN retained' = DOMAIN retained \ {j} /\ j \in DOMAIN retained
        /\ \A x \in DOMAIN retained' : retained'[x] = retained[x]
    BY <1>4 DEF Release, Delete, Restrict
  <2>2. CASE j = k
    <3>1. Held(k)' = <<>>
      BY <2>1, <2>2 DEF Held
    <3>2. CASE Holds(subs, k)
      <4>1. PICK id \in DOMAIN subs : subs[id].filter = k
        BY <3>2 DEF Holds
      <4>2. Pending(k) = subs[id].ch /\ Pending(k)' = subs[id].ch
        BY <1>1, <4>1, PendingIs, PendingNext DEF FeedInv
      <4> QED BY <1>1, <2>1, <2>2, <4>2 DEF FeedOf!FeedNext, FeedOf!Forget
    <3>3. CASE ~Holds(subs, k)
      <4>1. Pending(k)' = <<>>
        BY <1>1, <3>1, <3>3, PendingNext
      <4> QED BY <1>1, <2>1, <2>2, <4>1 DEF FeedOf!FeedNext, FeedOf!Forget
    <3> QED BY <3>2, <3>3
  <2>3. CASE j # k
    <3>1. Held(k)' = Held(k)
      BY <2>1, <2>3 DEF Held
    <3>2. Pending(k)' = Pending(k)
      BY <1>1, <1>2, <3>1, PendingSame
    <3> QED BY <1>1, <2>1, <2>3, <3>2 DEF FeedOf!feedVars
  <2> QED BY <2>2, <2>3
<1> QED BY <1>3, <1>4

\* A consumer that connects finds what waited for it: the feed does not notice.
LEMMA FeedSubscribe ==
  ASSUME FeedInv, ~Overlap, OneEach', NEW k \in Keys, NEW f \in Filters, Subscribe(f)
  PROVE  UNCHANGED FeedOf(k)!feedVars
<1>1. SubsOK /\ nextID \in Nat
  BY Regroup, HubAssumption DEF FeedInv, SubsOK
<1>2. /\ DOMAIN subs' = DOMAIN subs \cup {nextID + 1} /\ nextID + 1 \notin DOMAIN subs
      /\ subs'[nextID + 1].filter = f /\ subs'[nextID + 1].ch = Held(f)
      /\ \A id \in DOMAIN subs : subs'[id] = subs[id]
  BY <1>1 DEF Subscribe, Put, SubsOK
<1>3. /\ DOMAIN retained' = DOMAIN retained /\ UNCHANGED <<drops, log, read>>
      /\ \A x \in DOMAIN retained : retained'[x] = IF x = f THEN <<>> ELSE retained[x]
  BY DEF Subscribe, HandedOver
<1>4. Pending(k)' = Pending(k)
  <2>1. CASE f = k
    <3>1. ~Holds(subs, k)
      BY <2>1, HubAssumption DEF Subscribe
    <3>2. Pending(k) = Held(k) /\ Pending(k)' = Held(k)
      BY <1>2, <2>1, <3>1, PendingIs, PendingNext DEF FeedInv
    <3> QED BY <3>2
  <2>2. CASE f # k
    <3>1. Held(k)' = Held(k)
      BY <1>3, <2>2 DEF Held
    <3>2. Holds(subs', k) <=> Holds(subs, k)
      BY <1>2, <2>2 DEF Holds
    <3> QED BY <1>2, <3>1, <3>2, PendingSame
  <2> QED BY <2>1, <2>2
<1> QED BY <1>3, <1>4 DEF FeedOf!feedVars

\* What requeue puts back: all that was unread, or its newest subBufSize entries.
LEMMA RequeueIs ==
  ASSUME NEW q \in Seq(Nat)
  PROVE  /\ Len(q) <= SubBufSize => Excess(q \o <<>>) = 0 /\ Requeue(q, <<>>) = q
         /\ Len(q) > SubBufSize => /\ Excess(q \o <<>>) = Len(q) - SubBufSize
                                   /\ Requeue(q, <<>>) = SubSeq(q, Len(q) - SubBufSize + 1, Len(q))
<1>1. q \o <<>> = q /\ Len(q) \in Nat
  BY ConcatEmptySeq
<1>2. CASE Len(q) <= SubBufSize
  <2>1. Excess(q) = 0
    BY <1>1, <1>2, HubAssumption DEF Excess
  <2>2. SubSeq(q, 0 + 1, Len(q)) = q
    BY <1>1
  <2>3. Requeue(q, <<>>) = SubSeq(q, 0 + 1, Len(q))
    BY <1>1, <2>1, Zenon DEF Requeue
  <2>4. ~(Len(q) > SubBufSize)
    BY <1>1, <1>2, HubAssumption
  <2> QED BY <1>1, <2>1, <2>2, <2>3, <2>4, Zenon
<1>3. CASE Len(q) > SubBufSize
  <2>1. Excess(q) = Len(q) - SubBufSize
    BY <1>1, <1>3, HubAssumption DEF Excess
  <2>2. ~(Len(q) <= SubBufSize)
    BY <1>1, <1>3, HubAssumption
  <2> QED BY <1>1, <2>1, <2>2, Zenon DEF Requeue
<1> QED BY <1>1, <1>2, <1>3, HubAssumption

\* A consumer that leaves: its unread entries wait in the backlog, cut to
\* subBufSize; nothing waits when the key is not retained.
LEMMA FeedUnsubscribe ==
  ASSUME FeedInv, OneEach', NEW k \in Keys, NEW id \in DOMAIN subs, Unsubscribe(id)
  PROVE  [FeedOf(k)!FeedNext]_(FeedOf(k)!feedVars)
<1> DEFINE s == subs[id]
           rest == Delete(subs, id)
<1>1. SubsOK /\ HistoryOK /\ RetainedOK /\ BacklogOnlyWhenDetached
  BY Regroup DEF FeedInv
<1>2. DOMAIN rest = DOMAIN subs \ {id} /\ \A x \in DOMAIN rest : rest[x] = subs[x]
  BY DEF Delete, Restrict
<1>3. subs' = rest /\ UNCHANGED <<log, read>>
  BY DEF Unsubscribe
<1>4. GoodSub(s, Len(log)) /\ s.ch \in Seq(Nat) /\ s.filter \in Filters
  BY <1>1 DEF SubsOK, GoodSub, Sub
<1>5. drops \in [Filters -> Nat] /\ k \in Filters
  BY <1>1 DEF HistoryOK, Filters
<1>6. CASE s.filter # k
  <2>1. DOMAIN retained' = DOMAIN retained /\ (k \in DOMAIN retained => retained'[k] = retained[k])
        /\ drops'[k] = drops[k]
    BY <1>4, <1>5, <1>6 DEF Unsubscribe
  <2>2. Held(k)' = Held(k)
    BY <2>1 DEF Held
  <2>3. Holds(subs', k) <=> Holds(subs, k)
    BY <1>2, <1>3, <1>6 DEF Holds
  <2>4. Pending(k)' = Pending(k)
    BY <1>2, <1>3, <1>6, <2>2, <2>3, PendingSame
  <2> QED BY <1>3, <2>1, <2>4 DEF FeedOf!feedVars
<1>7. CASE s.filter = k
  <2>1. ~Holds(rest, k) /\ Holds(subs, k)
    BY <1>2, <1>7, HubAssumption DEF FeedInv, OneEach, Holds
  <2>2. Pending(k) = s.ch /\ Pending(k)' = Held(k)'
    BY <1>3, <1>7, <2>1, PendingIs, PendingNext DEF FeedInv
  <2>3. CASE k \notin DOMAIN retained
    <3>1. retained' = retained /\ drops' = drops
      BY <1>7, <2>3 DEF Unsubscribe
    <3>2. Pending(k)' = <<>>
      BY <2>2, <2>3, <3>1 DEF Held
    <3> QED BY <1>3, <2>3, <3>1, <3>2 DEF FeedOf!FeedNext, FeedOf!Forget
  <2>4. CASE k \in DOMAIN retained
    <3>1. retained[k] = <<>>
      BY <1>1, <2>1, <2>4 DEF BacklogOnlyWhenDetached
    <3>2. /\ retained' = [retained EXCEPT ![k] = Requeue(s.ch, @)]
          /\ drops' = [drops EXCEPT ![k] = @ + Excess(s.ch \o retained[k])]
      BY <1>7, <2>1, <2>4 DEF Unsubscribe
    <3>3. /\ DOMAIN retained' = DOMAIN retained /\ retained'[k] = Requeue(s.ch, <<>>)
          /\ drops'[k] = drops[k] + Excess(s.ch \o <<>>)
      BY <1>5, <2>4, <3>1, <3>2
    <3>4. Pending(k)' = Requeue(s.ch, <<>>)
      BY <2>2, <2>4, <3>3 DEF Held
    <3>5. CASE Len(s.ch) <= SubBufSize
      <4>1. Excess(s.ch \o <<>>) = 0 /\ Requeue(s.ch, <<>>) = s.ch
        BY <1>4, <3>5, RequeueIs
      <4>2. drops'[k] = drops[k] /\ Pending(k)' = Pending(k)
        BY <1>5, <2>2, <3>3, <3>4, <4>1
      <4> QED BY <1>3, <2>4, <3>3, <4>2 DEF FeedOf!feedVars
    <3>6. CASE Len(s.ch) > SubBufSize
      <4>1. /\ Excess(s.ch \o <<>>) = Len(s.ch) - SubBufSize
            /\ Requeue(s.ch, <<>>) = SubSeq(s.ch, Len(s.ch) - SubBufSize + 1, Len(s.ch))
        BY <1>4, <3>6, RequeueIs
      <4>2. drops'[k] = drops[k] + Len(s.ch) - SubBufSize
        BY <1>4, <1>5, <3>3, <4>1, HubAssumption
      <4>3. k \in DOMAIN retained <=> k \in DOMAIN retained'
        BY <3>3
      <4> QED BY <1>3, <2>2, <3>4, <3>6, <4>1, <4>2, <4>3 DEF FeedOf!FeedNext, FeedOf!Trim
    <3> QED BY <1>4, <3>5, <3>6, HubAssumption
  <2> QED BY <2>3, <2>4
<1> QED BY <1>6, <1>7

\* A reader takes the oldest waiting entry.
LEMMA FeedReceive ==
  ASSUME FeedInv, OneEach', NEW k \in Keys, NEW id \in DOMAIN subs, Receive(id)
  PROVE  [FeedOf(k)!FeedNext]_(FeedOf(k)!feedVars)
<1> DEFINE s == subs[id]
<1>1. SubsOK /\ HistoryOK
  BY Regroup DEF FeedInv
<1>2. GoodSub(s, Len(log)) /\ s.filter \in Filters /\ k \in Filters
  BY <1>1 DEF SubsOK, GoodSub, Sub, Filters
<1>3. /\ UNCHANGED <<retained, drops, log>> /\ s.ch # <<>>
      /\ DOMAIN subs' = DOMAIN subs /\ \A x \in DOMAIN subs : x # id => subs'[x] = subs[x]
      /\ read' = [read EXCEPT ![s.filter] = Append(@, Head(s.ch))]
  BY DEF Receive
<1>4. subs'[id].ch = Tail(s.ch) /\ subs'[id].filter = s.filter
  BY <1>2 DEF Receive, GoodSub, Sub
<1>5. CASE s.filter = k
  <2>1. Pending(k) = s.ch /\ Pending(k)' = Tail(s.ch)
    BY <1>3, <1>4, <1>5, PendingIs, PendingNext DEF FeedInv
  <2>2. read'[k] = Append(read[k], Head(s.ch))
    BY <1>1, <1>2, <1>3, <1>5 DEF HistoryOK
  <2> QED BY <1>3, <2>1, <2>2 DEF FeedOf!FeedNext, FeedOf!Read
<1>6. CASE s.filter # k
  <2>1. Held(k)' = Held(k)
    BY <1>3 DEF Held
  <2>2. Holds(subs', k) <=> Holds(subs, k)
    BY <1>3, <1>4, <1>6 DEF Holds
  <2>3. Pending(k)' = Pending(k)
    BY <1>3, <1>6, <2>1, <2>2, PendingSame
  <2>4. read'[k] = read[k]
    BY <1>1, <1>2, <1>3, <1>6 DEF HistoryOK
  <2> QED BY <1>3, <2>3, <2>4 DEF FeedOf!feedVars
<1> QED BY <1>5, <1>6

\* What a keyed hub's Publish does to the subscribers of key k: one that is
\* addressed and not full gets the entry, the others keep what they have.
LEMMA PublishSubs ==
  ASSUME FeedInv, Keyed, NEW k \in Keys, NEW j \in Filters, Publish(j),
         NEW id \in DOMAIN subs, subs[id].filter = k
  PROVE  /\ id \in DOMAIN subs' /\ subs'[id].filter = k
         /\ (id \in Recipients(j)) = (j = k)
         /\ j = k /\ id \notin Full => subs'[id].ch = Append(subs[id].ch, Len(log) + 1)
         /\ j # k \/ id \in Full => subs'[id].ch = subs[id].ch
<1>1. GoodSub(subs[id], Len(log))
  BY Regroup DEF FeedInv, SubsOK
<1>2. k # All
  BY HubAssumption
<1>3. (id \in Recipients(j)) = (j = k)
  BY <1>2 DEF Recipients, Matches
<1>4. /\ DOMAIN subs' = DOMAIN subs
      /\ subs'[id] = IF id \in Recipients(j) \ Full
                     THEN [subs[id] EXCEPT !.ch = Append(@, Len(log) + 1)] ELSE subs[id]
  BY DEF Publish, KeyOf
<1>5. CASE j = k /\ id \notin Full
  <2>1. subs'[id] = [subs[id] EXCEPT !.ch = Append(@, Len(log) + 1)]
    BY <1>3, <1>4, <1>5
  <2> QED BY <1>1, <1>3, <1>4, <1>5, <2>1 DEF GoodSub, Sub
<1>6. CASE j # k \/ id \in Full
  BY <1>3, <1>4, <1>6
<1> QED BY <1>5, <1>6

\* An entry of another key passes the feed by.
LEMMA FeedPublishOther ==
  ASSUME FeedInv, OneEach', Keyed, NEW k \in Keys, NEW j \in Filters, j # k, Publish(j)
  PROVE  FeedOf(k)!FeedNext
<1>1. HistoryOK /\ k \in Filters
  BY Regroup DEF FeedInv, Filters
<1>2. read' = read /\ log' = Append(log, j)
  BY DEF Publish
<1>3. DOMAIN retained' = DOMAIN retained /\ (k \in DOMAIN retained => retained'[k] = retained[k])
  BY DEF Publish, KeyOf
<1>4. Held(k)' = Held(k)
  BY <1>3 DEF Held
<1>5. \A id \in DOMAIN subs : subs[id].filter = k =>
        id \in DOMAIN subs' /\ subs'[id].filter = k /\ subs'[id].ch = subs[id].ch
  BY PublishSubs
<1>6. Holds(subs', k) <=> Holds(subs, k)
  <2>1. DOMAIN subs' = DOMAIN subs /\ \A id \in DOMAIN subs : subs'[id].filter = subs[id].filter
    BY Regroup DEF Publish, FeedInv, SubsOK, GoodSub, Sub
  <2> QED BY <2>1 DEF Holds
<1>7. Pending(k)' = Pending(k)
  BY <1>4, <1>5, <1>6, PendingSame
<1>8. drops'[k] = drops[k]
  <2>1. {id \in Recipients(j) \cap Full : subs[id].filter = k} = {}
    BY PublishSubs DEF Recipients
  <2>2. DropsAt(k, j) = 0
    BY <2>1, FS_EmptySet DEF DropsAt
  <2>3. drops'[k] = drops[k] + DropsAt(k, j) + 0
    BY <1>1 DEF Publish, KeyOf
  <2>4. drops[k] \in Nat
    BY <1>1 DEF HistoryOK
  <2> QED BY <2>2, <2>3, <2>4
<1>9. k \in DOMAIN retained <=> k \in DOMAIN retained'
  BY <1>3
<1> QED BY <1>2, <1>7, <1>8, <1>9 DEF FeedOf!FeedNext, FeedOf!Other

\* An entry of the key: a connected consumer's channel takes it or, full, drops
\* it; otherwise the backlog takes it, and loses its oldest entry when full.
LEMMA FeedPublishOwn ==
  ASSUME FeedInv, OneEach', Keyed, NEW k \in Keys, Publish(k)
  PROVE  FeedOf(k)!FeedNext
<1> DEFINE n == Len(log) + 1
           full == {id \in Recipients(k) \cap Full : subs[id].filter = k}
<1>1. HistoryOK /\ SubsOK /\ RetainedOK /\ k \in Filters /\ k # All
  BY Regroup, HubAssumption DEF FeedInv, Filters
<1>2. read' = read /\ log' = Append(log, k) /\ DOMAIN retained' = DOMAIN retained
  BY DEF Publish
<1>3. drops[k] \in Nat /\ KeyOf(k) = k
  BY <1>1 DEF HistoryOK, KeyOf
<1>4. drops'[k] = drops[k] + Cardinality(full)
        + IF ~Attached(k) /\ k \in DOMAIN retained /\ Len(retained[k]) >= SubBufSize THEN 1 ELSE 0
  BY <1>1, <1>3 DEF Publish, DropsAt
<1>5. \A id \in DOMAIN subs' : id \in DOMAIN subs /\ subs'[id].filter = subs[id].filter
  BY <1>1 DEF Publish, SubsOK, GoodSub, Sub
<1>6. CASE Holds(subs, k)
  <2>1. PICK id \in DOMAIN subs : subs[id].filter = k
    BY <1>6 DEF Holds
  <2>2. Attached(k)
    BY <1>1, <1>6 DEF Attached
  <2>7. /\ id \in DOMAIN subs' /\ subs'[id].filter = k /\ id \in Recipients(k)
        /\ id \notin Full => subs'[id].ch = Append(subs[id].ch, n)
        /\ id \in Full => subs'[id].ch = subs[id].ch
    BY <1>1, <2>1, PublishSubs
  <2>3. Pending(k) = subs[id].ch /\ Pending(k)' = subs'[id].ch
    BY <2>1, <2>7, PendingIs, PendingNext DEF FeedInv
  <2>4. \A x \in full : x = id
    BY <1>1, <2>1 DEF Recipients, FeedInv, OneEach
  <2>5. CASE id \in Full
    <3>1. full = {id}
      BY <2>1, <2>4, <2>5, <2>7
    <3>2. Cardinality(full) = 1
      BY <3>1, FS_Singleton
    <3> HIDE DEF full
    <3>3. drops'[k] = drops[k] + 1
      BY <1>3, <1>4, <2>2, <3>2
    <3>4. Pending(k)' = Pending(k)
      BY <2>1, <2>3, <2>5, <2>7
    <3>5. Len(Pending(k)) >= SubBufSize
      <4>1. GoodSub(subs[id], Len(log)) /\ Room(subs[id], Len(log))
        BY <1>1, <2>1 DEF SubsOK, FeedInv, Rooms
      <4>2. subs[id].cap \in Nat /\ Len(subs[id].ch) \in Nat /\ Len(subs[id].ch) >= subs[id].cap
        BY <2>5, <4>1 DEF Full, GoodSub, Sub
      <4>3. PICK r \in 0..Len(subs[id].ch) : r + SubBufSize <= subs[id].cap
        BY <4>1 DEF Room
      <4> QED BY <2>3, <4>2, <4>3, HubAssumption
    <3> QED BY <1>2, <3>3, <3>4, <3>5 DEF FeedOf!FeedNext, FeedOf!Offer
  <2>6. CASE id \notin Full
    <3>1. full = {}
      BY <2>4, <2>6
    <3>2. Cardinality(full) = 0
      BY <3>1, FS_EmptySet
    <3> HIDE DEF full
    <3>3. drops'[k] = drops[k]
      BY <1>3, <1>4, <2>2, <3>2
    <3>4. Pending(k)' = Append(Pending(k), n)
      BY <2>1, <2>3, <2>6, <2>7
    <3> QED BY <1>2, <3>3, <3>4 DEF FeedOf!FeedNext, FeedOf!Offer
  <2> QED BY <2>5, <2>6
<1>7. CASE ~Holds(subs, k)
  <2>1. ~Attached(k) /\ ~Holds(subs', k)
    BY <1>5, <1>7 DEF Attached, Holds
  <2>2. Pending(k) = Held(k) /\ Pending(k)' = Held(k)'
    BY <1>7, <2>1, PendingIs, PendingNext DEF FeedInv
  <2>3. full = {}
    BY <1>7 DEF Holds, Full
  <2>4. Cardinality(full) = 0
    BY <2>3, FS_EmptySet
  <2> HIDE DEF full
  <2>5. CASE k \notin DOMAIN retained
    <3>1. Held(k) = <<>> /\ Held(k)' = <<>>
      BY <1>2, <2>5 DEF Held
    <3>2. drops'[k] = drops[k]
      BY <1>3, <1>4, <2>4, <2>5
    <3> QED BY <1>2, <2>2, <2>5, <3>1, <3>2 DEF FeedOf!FeedNext, FeedOf!Offer
  <2>6. CASE k \in DOMAIN retained /\ Len(retained[k]) >= SubBufSize
    <3>1. retained' = [retained EXCEPT ![k] = Append(Tail(retained[k]), n)]
      BY <1>3, <2>1, <2>6 DEF Publish
    <3>2. Held(k) = retained[k] /\ Held(k)' = Append(Tail(retained[k]), n)
      BY <2>6, <3>1 DEF Held
    <3>3. drops'[k] = drops[k] + 1
      BY <1>3, <1>4, <2>1, <2>4, <2>6
    <3> QED BY <1>2, <2>2, <2>6, <3>2, <3>3 DEF FeedOf!FeedNext, FeedOf!Offer
  <2>7. CASE k \in DOMAIN retained /\ ~(Len(retained[k]) >= SubBufSize)
    <3>1. retained' = [retained EXCEPT ![k] = Append(retained[k], n)]
      BY <1>3, <2>1, <2>7 DEF Publish
    <3>2. Held(k) = retained[k] /\ Held(k)' = Append(retained[k], n)
      BY <2>7, <3>1 DEF Held
    <3>3. drops'[k] = drops[k]
      BY <1>3, <1>4, <2>4, <2>7
    <3> QED BY <1>2, <2>2, <2>7, <3>2, <3>3 DEF FeedOf!FeedNext, FeedOf!Offer
  <2> QED BY <2>5, <2>6, <2>7
<1> QED BY <1>6, <1>7

\* Every step of the hub is a step of the feed, or one it does not notice.
LEMMA FeedStep ==
  ASSUME Keyed, ~Overlap, FeedInv, [HubNext]_hubVars, NEW k \in Keys
  PROVE  [FeedOf(k)!FeedNext]_(FeedOf(k)!feedVars)
<1>1. OneEach'
  BY OneEachNext
<1>2. CASE \E j \in Keys : Retain(j) \/ Release(j)
  BY <1>1, <1>2, FeedRetain
<1>3. CASE \E f \in Filters : Subscribe(f)
  BY <1>1, <1>3, FeedSubscribe
<1>4. CASE \E f \in Filters : Publish(f)
  BY <1>1, <1>4, FeedPublishOwn, FeedPublishOther
<1>5. CASE \E id \in DOMAIN subs : Unsubscribe(id)
  BY <1>1, <1>5, FeedUnsubscribe
<1>6. CASE \E id \in DOMAIN subs : Receive(id)
  BY <1>1, <1>6, FeedReceive
<1>7. CASE UNCHANGED hubVars
  BY <1>7 DEF hubVars, FeedOf!feedVars, Pending, Held, Holds
<1> QED BY <1>2, <1>3, <1>4, <1>5, <1>6, <1>7 DEF HubNext

\* The invariant that the step leans on.
LEMMA FeedInvNext ==
  ASSUME ~Overlap, FeedInv, [HubNext]_hubVars
  PROVE  FeedInv'
<1>1. HubInv' /\ Rooms' /\ OneEach'
  BY NextInv, RoomsNext, OneEachNext DEF FeedInv
<1> QED BY <1>1 DEF FeedInv

\* A new hub is a new feed.
LEMMA FeedInvInit ==
  ASSUME HubInit
  PROVE  FeedInv /\ \A k \in Keys : FeedOf(k)!FeedInit
<1>1. FeedInv
  BY InitInv DEF HubInit, FeedInv, Rooms, OneEach
<1>2. \A k \in Keys : Pending(k) = <<>> /\ drops[k] = 0 /\ read[k] = <<>>
  BY DEF HubInit, Pending, Held, Holds, Filters
<1>3. log = <<>> /\ DOMAIN retained = {}
  BY DEF HubInit
<1> QED BY <1>1, <1>2, <1>3 DEF FeedOf!FeedInit

\* To the consumers of any one key the hub is one lossy queue: Retain, Release,
\* Subscribe, Unsubscribe, Publish and the readers each do to it what LogFeed
\* allows, provided consumers of a key connect one at a time and the hub is
\* keyed.
THEOREM HubRefinesFeed ==
  ASSUME Keyed, ~Overlap
  PROVE  HubSpec => HubImplementsFeed
<1>1. HubInit => FeedInv /\ Feed!FeedInit
  <2>1. HubInit => FeedInv /\ FeedOf(Watched)!FeedInit
    BY FeedInvInit, WatchedAssumption
  <2> QED BY <2>1 DEF Feed!FeedInit, FeedOf!FeedInit
<1>2. FeedInv /\ [HubNext]_hubVars => FeedInv' /\ [Feed!FeedNext]_(Feed!feedVars)
  <2>1. FeedInv /\ [HubNext]_hubVars =>
          FeedInv' /\ [FeedOf(Watched)!FeedNext]_(FeedOf(Watched)!feedVars)
    BY FeedStep, FeedInvNext, WatchedAssumption
  <2> QED BY <2>1 DEF
        Feed!FeedNext, Feed!Offer, Feed!Other, Feed!Read, Feed!Trim, Feed!Keep, Feed!Forget,
        Feed!feedVars, FeedOf!FeedNext, FeedOf!Offer, FeedOf!Other, FeedOf!Read, FeedOf!Trim,
        FeedOf!Keep, FeedOf!Forget, FeedOf!feedVars
<1> QED BY <1>1, <1>2, PTL DEF HubSpec, HubImplementsFeed, Feed!FeedSpec

-----------------------------------------------------------------------------
(* The consumer's view of a feed, from the steps of LogFeed alone *)

\* A queue of entries of key k.
KeyQueue(q, lg, k) == Queue(q, Len(lg)) /\ \A i \in 1..Len(q) : lg[q[i]] = k

Before(a, b) == \A i \in 1..Len(a), j \in 1..Len(b) : a[i] < b[j]

\* What was read, then what waits: entries of the key in publish order.
Tidy(k) ==
  /\ log \in Seq(Filters)
  /\ KeyQueue(read[k], log, k) /\ KeyQueue(Pending(k), log, k)
  /\ Before(read[k], Pending(k))

\* Every entry of the key was read or waits.
AllThere(k) ==
  \A n \in 1..Len(log) : log[n] = k =>
    \/ \E i \in 1..Len(read[k]) : read[k][i] = n
    \/ \E i \in 1..Len(Pending(k)) : Pending(k)[i] = n

\* A queue of a key stays one when something is published.
LEMMA KeyQueueGrow ==
  ASSUME NEW lg \in Seq(Filters), NEW j \in Filters, NEW k, NEW q, KeyQueue(q, lg, k)
  PROVE  KeyQueue(q, Append(lg, j), k)
<1>1. Len(lg) \in Nat /\ Len(Append(lg, j)) = Len(lg) + 1
      /\ \A n \in 1..Len(lg) : Append(lg, j)[n] = lg[n]
  OBVIOUS
<1>2. Queue(q, Len(lg) + 1)
  BY <1>1, QueueGrow DEF KeyQueue
<1>3. \A i \in 1..Len(q) : q[i] \in 1..Len(lg) /\ lg[q[i]] = k
  BY DEF KeyQueue, Queue
<1> QED BY <1>1, <1>2, <1>3 DEF KeyQueue

\* The newest entry of the key joins its queue, behind all that was read.
LEMMA KeyQueueAppend ==
  ASSUME NEW lg \in Seq(Filters), NEW k \in Filters, NEW a, NEW q,
         KeyQueue(a, lg, k), KeyQueue(q, lg, k), Before(a, q)
  PROVE  /\ KeyQueue(Append(q, Len(lg) + 1), Append(lg, k), k)
         /\ Before(a, Append(q, Len(lg) + 1))
<1> DEFINE n == Len(lg) + 1
           t == Append(q, n)
<1>1. Len(lg) \in Nat /\ Len(Append(lg, k)) = n /\ Append(lg, k)[n] = k
      /\ \A m \in 1..Len(lg) : Append(lg, k)[m] = lg[m]
  OBVIOUS
<1>2. Queue(t, n) /\ Len(t) = Len(q) + 1
  BY <1>1, QueueAppend DEF KeyQueue
<1>3. q \in Seq(Nat) /\ \A i \in 1..Len(q) : q[i] \in 1..Len(lg) /\ lg[q[i]] = k
  BY DEF KeyQueue, Queue
<1>4. \A i \in 1..Len(a) : a[i] \in 1..Len(lg)
  BY DEF KeyQueue, Queue
<1>5. t[Len(q) + 1] = n /\ \A i \in 1..Len(q) : t[i] = q[i]
  BY <1>1, <1>3
<1>6. \A i \in 1..Len(t) : i \in 1..Len(q) \/ i = Len(q) + 1
  BY <1>2, <1>3
<1>7. \A i \in 1..Len(t) : Append(lg, k)[t[i]] = k
  BY <1>1, <1>3, <1>5, <1>6
<1>8. \A i \in 1..Len(a), j \in 1..Len(t) : a[i] < t[j]
  BY <1>1, <1>4, <1>5, <1>6 DEF Before
<1> QED BY <1>1, <1>2, <1>7, <1>8 DEF KeyQueue, Before

\* Cutting the old end of what waits.
LEMMA KeyQueueSuffix ==
  ASSUME NEW lg \in Seq(Filters), NEW k, NEW a, NEW q,
         KeyQueue(q, lg, k), Before(a, q), NEW m \in 0..Len(q)
  PROVE  LET t == SubSeq(q, m + 1, Len(q)) IN KeyQueue(t, lg, k) /\ Before(a, t)
<1> DEFINE t == SubSeq(q, m + 1, Len(q))
<1>1. Queue(t, Len(lg)) /\ Len(t) = Len(q) - m
  BY QueueSuffix DEF KeyQueue
<1>2. q \in Seq(Nat) /\ Len(q) \in Nat
  BY DEF KeyQueue, Queue
<1>3. \A i \in 1..Len(t) : t[i] = q[i + m] /\ i + m \in 1..Len(q)
  BY <1>1, <1>2
<1> HIDE DEF t
<1>4. KeyQueue(t, lg, k)
  BY <1>1, <1>3 DEF KeyQueue
<1>5. Before(a, t)
  BY <1>3 DEF Before
<1> QED BY <1>4, <1>5 DEF t

\* Reading moves the oldest waiting entry behind those read before.
LEMMA KeyQueueRead ==
  ASSUME NEW lg \in Seq(Filters), NEW k, NEW a, NEW q,
         KeyQueue(a, lg, k), KeyQueue(q, lg, k), Before(a, q), q # <<>>
  PROVE  /\ KeyQueue(Append(a, Head(q)), lg, k) /\ KeyQueue(Tail(q), lg, k)
         /\ Before(Append(a, Head(q)), Tail(q))
<1> DEFINE h == Head(q)
           t == Append(a, h)
<1>1. /\ q \in Seq(Nat) /\ a \in Seq(Nat) /\ Len(q) \in Nat /\ Len(a) \in Nat /\ Len(q) >= 1
      /\ h = q[1] /\ h \in 1..Len(lg) /\ lg[h] = k /\ Len(lg) \in Nat /\ h \in Nat
  BY DEF KeyQueue, Queue
<1>2. Tail(q) \in Seq(Nat) /\ Len(Tail(q)) = Len(q) - 1
      /\ \A i \in 1..Len(Tail(q)) : Tail(q)[i] = q[i + 1] /\ i + 1 \in 2..Len(q)
  BY <1>1
<1>3. t \in Seq(Nat) /\ Len(t) = Len(a) + 1 /\ t[Len(a) + 1] = h
      /\ \A i \in 1..Len(a) : t[i] = a[i]
  BY <1>1
<1>4. \A i \in 1..Len(t) : i \in 1..Len(a) \/ i = Len(a) + 1
  BY <1>1, <1>3
<1>5. \A i \in 1..Len(a) : a[i] < h /\ a[i] \in 1..Len(lg) /\ lg[a[i]] = k
  BY <1>1 DEF Before, KeyQueue, Queue
<1>6. \A j \in 2..Len(q) : h < q[j] /\ q[j] \in 1..Len(lg) /\ lg[q[j]] = k
  BY <1>1 DEF KeyQueue, Queue, Increasing
<1> HIDE DEF t, h
<1>7. KeyQueue(t, lg, k)
  <2>1. \A i \in 1..Len(t) : t[i] \in 1..Len(lg) /\ lg[t[i]] = k
    BY <1>1, <1>3, <1>4, <1>5
  <2>2. ASSUME NEW i \in 1..Len(t), NEW j \in 1..Len(t), i < j PROVE t[i] < t[j]
    <3>1. i \in 1..Len(a)
      BY <1>1, <1>3, <2>2
    <3>2. CASE j \in 1..Len(a)
      BY <1>3, <2>2, <3>1, <3>2 DEF KeyQueue, Queue, Increasing
    <3>3. CASE j = Len(a) + 1
      BY <1>3, <1>5, <3>1, <3>3
    <3> QED BY <1>4, <3>2, <3>3
  <2> QED BY <1>3, <2>1, <2>2 DEF KeyQueue, Queue, Increasing
<1>8. KeyQueue(Tail(q), lg, k)
  <2>1. \A i, j \in 1..Len(Tail(q)) : i < j => Tail(q)[i] < Tail(q)[j]
    <3>1. \A i, j \in 1..Len(q) : i < j => q[i] < q[j]
      BY DEF KeyQueue, Queue, Increasing
    <3> QED BY <1>1, <1>2, <3>1
  <2> QED BY <1>2, <1>6, <2>1 DEF KeyQueue, Queue, Increasing
<1>9. Before(t, Tail(q))
  <2> SUFFICES ASSUME NEW i \in 1..Len(t), NEW j \in 1..Len(Tail(q)) PROVE t[i] < Tail(q)[j]
    BY DEF Before
  <2>1. t[i] \in Nat /\ t[i] <= h
    <3>1. CASE i \in 1..Len(a)
      <4>1. t[i] = a[i]
        BY <1>3, <3>1
      <4>2. a[i] < h
        BY <1>5, <3>1
      <4>3. a[i] \in Nat
        BY <1>1, <3>1, SMTT(60)
      <4> QED BY <1>1, <4>1, <4>2, <4>3, SMTT(60)
    <3>2. CASE i = Len(a) + 1
      BY <1>1, <1>3, <3>2
    <3> QED BY <1>4, <3>1, <3>2
  <2>2. Tail(q)[j] \in Nat /\ h < Tail(q)[j]
    BY <1>1, <1>2, <1>6
  <2> QED BY <1>1, <2>1, <2>2
<1> QED BY <1>7, <1>8, <1>9 DEF t, h

\* A step of the feed keeps the consumer's view tidy.
LEMMA TidyStep ==
  ASSUME NEW k \in Keys, Tidy(k), [FeedOf(k)!FeedNext]_(FeedOf(k)!feedVars)
  PROVE  Tidy(k)'
<1> DEFINE p == Pending(k)
           n == Len(log) + 1
<1>1. k \in Filters /\ Len(log) \in Nat /\ p \in Seq(Nat) /\ Len(p) \in Nat
  BY DEF Filters, Tidy, KeyQueue, Queue
<1>2. CASE FeedOf(k)!Offer
  <2>1. log' = Append(log, k) /\ read'[k] = read[k] /\ log' \in Seq(Filters)
    BY <1>1, <1>2 DEF FeedOf!Offer, Tidy
  <2>2. KeyQueue(read[k], log', k)
    BY <1>1, <2>1, KeyQueueGrow DEF Tidy
  <2>3. CASE p' = Append(p, n)
    BY <1>1, <2>1, <2>2, <2>3, KeyQueueAppend DEF Tidy
  <2>4. CASE p' = p
    BY <1>1, <2>1, <2>2, <2>4, KeyQueueGrow DEF Tidy
  <2>5. CASE Len(p) >= SubBufSize /\ p' = Append(Tail(p), n)
    <3>1. Len(p) >= 1 /\ Tail(p) = SubSeq(p, 1 + 1, Len(p)) /\ 1 \in 0..Len(p)
      BY <1>1, <2>5, HubAssumption
    <3>2. KeyQueue(Tail(p), log, k) /\ Before(read[k], Tail(p))
      <4>1. LET t == SubSeq(p, 1 + 1, Len(p)) IN KeyQueue(t, log, k) /\ Before(read[k], t)
        BY <3>1, KeyQueueSuffix DEF Tidy
      <4> QED BY <3>1, <4>1, Zenon
    <3>3. KeyQueue(Append(Tail(p), n), Append(log, k), k) /\ Before(read[k], Append(Tail(p), n))
      BY <1>1, <3>2, KeyQueueAppend DEF Tidy
    <3> QED BY <2>1, <2>2, <2>5, <3>3 DEF Tidy
  <2> QED BY <1>2, <2>3, <2>4, <2>5 DEF FeedOf!Offer
<1>3. CASE FeedOf(k)!Other
  <2>1. PICK j \in Filters : log' = Append(log, j)
    BY <1>3 DEF FeedOf!Other
  <2>2. read'[k] = read[k] /\ p' = p /\ log' \in Seq(Filters)
    BY <1>3, <2>1 DEF FeedOf!Other, Tidy
  <2> QED BY <2>1, <2>2, KeyQueueGrow DEF Tidy
<1>4. CASE FeedOf(k)!Read
  <2>1. p # <<>> /\ read'[k] = Append(read[k], Head(p)) /\ p' = Tail(p) /\ log' = log
    BY <1>4 DEF FeedOf!Read
  <2>2. /\ KeyQueue(Append(read[k], Head(p)), log, k) /\ KeyQueue(Tail(p), log, k)
        /\ Before(Append(read[k], Head(p)), Tail(p))
    BY <2>1, KeyQueueRead DEF Tidy
  <2> QED BY <2>1, <2>2 DEF Tidy
<1>5. CASE FeedOf(k)!Trim
  <2> DEFINE m == Len(p) - SubBufSize
  <2>1. m \in 0..Len(p) /\ p' = SubSeq(p, m + 1, Len(p)) /\ read'[k] = read[k] /\ log' = log
    BY <1>1, <1>5, HubAssumption DEF FeedOf!Trim
  <2>2. KeyQueue(p', log, k) /\ Before(read[k], p')
    BY <2>1, KeyQueueSuffix DEF Tidy
  <2> QED BY <2>1, <2>2 DEF Tidy
<1>6. CASE FeedOf(k)!Keep \/ FeedOf(k)!Forget \/ UNCHANGED FeedOf(k)!feedVars
  <2>1. read'[k] = read[k] /\ log' = log /\ (p' = p \/ p' = <<>>)
    BY <1>6 DEF FeedOf!Keep, FeedOf!Forget, FeedOf!feedVars
  <2>2. KeyQueue(<<>>, log, k) /\ Before(read[k], <<>>)
    BY <1>1, QueueEmpty DEF KeyQueue, Before
  <2> QED BY <2>1, <2>2 DEF Tidy
<1> QED BY <1>2, <1>3, <1>4, <1>5, <1>6 DEF FeedOf!FeedNext

\* A feed that stays retained and counts no drop keeps every entry.
LEMMA AllThereStep ==
  ASSUME NEW k \in Keys, Tidy(k), drops[k] \in Nat, drops[k] = 0 => AllThere(k), drops'[k] = 0,
         k \in DOMAIN retained', [FeedOf(k)!FeedNext]_(FeedOf(k)!feedVars)
  PROVE  AllThere(k)'
<1> DEFINE p == Pending(k)
           n == Len(log) + 1
<1>1. /\ k \in Filters /\ log \in Seq(Filters) /\ Len(log) \in Nat
      /\ p \in Seq(Nat) /\ Len(p) \in Nat /\ read[k] \in Seq(Nat) /\ Len(read[k]) \in Nat
  BY DEF Filters, Tidy, KeyQueue, Queue
<1>7. drops[k] = 0
  <2>1. FeedOf(k)!Trim => drops'[k] > drops[k]
    BY <1>1, HubAssumption DEF FeedOf!Trim
  <2> QED BY <2>1 DEF FeedOf!FeedNext, FeedOf!Offer, FeedOf!Other, FeedOf!Read, FeedOf!Keep,
                      FeedOf!Forget, FeedOf!feedVars
<1>8. AllThere(k)
  BY <1>7
<1>2. CASE FeedOf(k)!Offer
  <2>1. log' = Append(log, k) /\ read'[k] = read[k] /\ p' = Append(p, n)
    BY <1>1, <1>2 DEF FeedOf!Offer
  <2>2. Len(log') = n /\ \A i \in 1..Len(log) : log'[i] = log[i]
    BY <1>1, <2>1
  <2>3. Len(p') = Len(p) + 1 /\ p'[Len(p) + 1] = n /\ \A i \in 1..Len(p) : p'[i] = p[i]
    BY <1>1, <2>1
  <2>4. ASSUME NEW x \in 1..Len(log), log[x] = k
        PROVE  (\E i \in 1..Len(read[k]) : read[k][i] = x) \/ (\E i \in 1..Len(p') : p'[i] = x)
    <3>1. \A i \in 1..Len(p) : i \in 1..Len(p')
      BY <1>1, <2>3
    <3>2. (\E i \in 1..Len(read[k]) : read[k][i] = x) \/ (\E i \in 1..Len(p) : p[i] = x)
      BY <1>8, <2>4 DEF AllThere
    <3> QED BY <2>3, <3>1, <3>2
  <2>5. \E i \in 1..Len(p') : p'[i] = n
    BY <1>1, <2>3
  <2>6. \A x \in 1..Len(log') : x \in 1..Len(log) \/ x = n
    BY <1>1, <2>2
  <2>7. ASSUME NEW x \in 1..Len(log'), log'[x] = k
        PROVE  (\E i \in 1..Len(read[k]) : read[k][i] = x) \/ (\E i \in 1..Len(p') : p'[i] = x)
    BY <2>2, <2>4, <2>5, <2>6, <2>7
  <2> QED BY <2>1, <2>7 DEF AllThere
<1>3. CASE FeedOf(k)!Other
  <2>1. PICK j \in Filters \ {k} : log' = Append(log, j)
    BY <1>3 DEF FeedOf!Other
  <2>2. read'[k] = read[k] /\ p' = p
    BY <1>3 DEF FeedOf!Other
  <2>3. /\ log'[n] # k /\ \A i \in 1..Len(log) : log'[i] = log[i]
        /\ \A x \in 1..Len(log') : x \in 1..Len(log) \/ x = n
    BY <1>1, <2>1
  <2> QED BY <1>8, <2>2, <2>3 DEF AllThere
<1>4. CASE FeedOf(k)!Read
  <2> DEFINE t == Append(read[k], Head(p))
  <2>1. p # <<>> /\ read'[k] = t /\ p' = Tail(p) /\ log' = log
    BY <1>4 DEF FeedOf!Read
  <2>2. Len(t) = Len(read[k]) + 1 /\ t[Len(read[k]) + 1] = p[1]
        /\ \A i \in 1..Len(read[k]) : t[i] = read[k][i]
    BY <1>1, <2>1
  <2>3. Len(Tail(p)) = Len(p) - 1 /\ \A i \in 1..Len(p) : i # 1 => i - 1 \in 1..Len(Tail(p)) /\ Tail(p)[i - 1] = p[i]
    BY <1>1, <2>1
  <2> HIDE DEF t
  <2>4. ASSUME NEW x \in 1..Len(log), log[x] = k
        PROVE  (\E i \in 1..Len(t) : t[i] = x) \/ (\E i \in 1..Len(Tail(p)) : Tail(p)[i] = x)
    <3>1. CASE \E i \in 1..Len(read[k]) : read[k][i] = x
      <4>1. PICK i \in 1..Len(read[k]) : read[k][i] = x
        BY <3>1
      <4>2. i \in 1..Len(t) /\ t[i] = x
        BY <1>1, <2>2, <4>1
      <4> QED BY <4>2
    <3>2. CASE \E i \in 1..Len(p) : p[i] = x
      <4>1. PICK i \in 1..Len(p) : p[i] = x
        BY <3>2
      <4>2. CASE i = 1
        BY <1>1, <2>2, <4>1, <4>2
      <4>3. CASE i # 1
        BY <2>3, <4>1, <4>3
      <4> QED BY <4>2, <4>3
    <3> QED BY <1>8, <2>4, <3>1, <3>2 DEF AllThere
  <2> QED BY <2>1, <2>4 DEF AllThere
<1>5. ~FeedOf(k)!Trim /\ ~FeedOf(k)!Forget
  BY <1>1, HubAssumption DEF FeedOf!Trim, FeedOf!Forget
<1>6. CASE FeedOf(k)!Keep \/ UNCHANGED FeedOf(k)!feedVars
  <2>1. read'[k] = read[k] /\ log' = log /\ p' = p
    BY <1>6 DEF FeedOf!Keep, FeedOf!feedVars
  <2> QED BY <1>8, <2>1 DEF AllThere
<1> QED BY <1>2, <1>3, <1>4, <1>5, <1>6 DEF FeedOf!FeedNext

\* What the consumers of a key read, over however many connections, and then
\* what waits for them never repeats an entry and never goes back in time.
THEOREM HubConsumerInOrder ==
  ASSUME Keyed, ~Overlap
  PROVE  HubSpec => []Feed!FeedInOrder
<1>1. HubInit => FeedInv /\ Tidy(Watched)
  <2> SUFFICES ASSUME HubInit PROVE FeedInv /\ Tidy(Watched)
    OBVIOUS
  <2>1. FeedInv /\ FeedOf(Watched)!FeedInit
    BY FeedInvInit, WatchedAssumption
  <2>2. log = <<>> /\ Pending(Watched) = <<>> /\ read[Watched] = <<>>
    BY <2>1 DEF FeedOf!FeedInit
  <2> QED BY <2>1, <2>2, QueueEmpty DEF Tidy, KeyQueue, Before
<1>2. FeedInv /\ Tidy(Watched) /\ [HubNext]_hubVars => FeedInv' /\ Tidy(Watched)'
  BY FeedStep, FeedInvNext, TidyStep, WatchedAssumption
<1>3. Tidy(Watched) => Feed!FeedInOrder
  <2> DEFINE a == read[Watched]
             b == Pending(Watched)
             c == a \o b
  <2> SUFFICES ASSUME Tidy(Watched), NEW i \in 1..Len(c), NEW j \in 1..Len(c), i < j
               PROVE  c[i] < c[j]
    BY DEF Feed!FeedInOrder
  <2>1. a \in Seq(Nat) /\ b \in Seq(Nat) /\ Len(a) \in Nat /\ Len(b) \in Nat
    BY DEF Tidy, KeyQueue, Queue
  <2>2. /\ Len(c) = Len(a) + Len(b) /\ \A x \in 1..Len(a) : c[x] = a[x]
        /\ \A x \in 1..Len(c) : x > Len(a) => x - Len(a) \in 1..Len(b) /\ c[x] = b[x - Len(a)]
    BY <2>1
  <2> HIDE DEF c
  <2>3. CASE j <= Len(a)
    <3>1. i \in 1..Len(a) /\ j \in 1..Len(a) /\ c[i] = a[i] /\ c[j] = a[j]
      BY <2>1, <2>2, <2>3
    <3>2. Increasing(a)
      BY DEF Tidy, KeyQueue, Queue
    <3> QED BY <3>1, <3>2 DEF Increasing
  <2>4. CASE i <= Len(a) /\ j > Len(a)
    <3>1. i \in 1..Len(a) /\ c[i] = a[i]
      BY <2>1, <2>2, <2>4
    <3>2. j - Len(a) \in 1..Len(b) /\ c[j] = b[j - Len(a)]
      BY <2>2, <2>4
    <3> QED BY <3>1, <3>2 DEF Tidy, Before
  <2>5. CASE i > Len(a)
    <3>1. j > Len(a) /\ i - Len(a) < j - Len(a)
      BY <2>1, <2>2, <2>5
    <3>2. i - Len(a) \in 1..Len(b) /\ c[i] = b[i - Len(a)]
      BY <2>2, <2>5
    <3>3. j - Len(a) \in 1..Len(b) /\ c[j] = b[j - Len(a)]
      BY <2>2, <3>1
    <3> QED BY <3>1, <3>2, <3>3 DEF Tidy, KeyQueue, Queue, Increasing
  <2> QED BY <2>1, <2>2, <2>3, <2>4, <2>5
<1> QED BY <1>1, <1>2, <1>3, PTL DEF HubSpec

-----------------------------------------------------------------------------
(* What the consumers of a key lose is counted *)

\* The entries of key k among those published in lg that are neither read (a)
\* nor waiting (p).
LostOf(lg, a, p, k) ==
  {n \in 1..Len(lg) : /\ lg[n] = k
                      /\ \A i \in 1..Len(a) : a[i] # n
                      /\ \A i \in 1..Len(p) : p[i] # n}

\* The same, with what waits found in the hub.
LostRule ==
  FeedInv => \A k \in Keys : Tidy(k) => Lost(k) = LostOf(log, read[k], Pending(k), k)

\* The entries that Lost finds by looking through the channels and the backlog
\* are those missing from what was read and from what waits.
LEMMA LostIs == LostRule
<1> SUFFICES ASSUME FeedInv, NEW k \in Keys, Tidy(k)
             PROVE  Lost(k) = LostOf(log, read[k], Pending(k), k)
  BY DEF LostRule
<1> DEFINE a == read[k]
           p == Pending(k)
<1>1. SubsOK /\ RetainedOK /\ BacklogOnlyWhenDetached /\ OneEach
  BY Regroup DEF FeedInv
<1>2. a \in Seq(Nat) /\ p \in Seq(Nat)
  BY DEF Tidy, KeyQueue, Queue
<1>3. \A n : n \in Range(a) <=> \E i \in 1..Len(a) : a[i] = n
  BY <1>2 DEF Range
<1>4. \A n : n \in Range(p) <=> \E i \in 1..Len(p) : p[i] = n
  BY <1>2 DEF Range
<1>5. Range(<<>>) = {}
  BY DEF Range
<1>6. \A n : (/\ \A id \in DOMAIN subs : subs[id].filter = k => n \notin Range(subs[id].ch)
              /\ n \notin Range(Held(k)))
             <=> n \notin Range(p)
  <2>1. CASE Holds(subs, k)
    <3>1. PICK id \in DOMAIN subs : subs[id].filter = k
      BY <2>1 DEF Holds
    <3>2. p = subs[id].ch /\ \A x \in DOMAIN subs : subs[x].filter = k => p = subs[x].ch
      BY <1>1, <3>1, PendingIs
    <3>3. Held(k) = <<>>
      BY <1>1, <2>1 DEF Held, BacklogOnlyWhenDetached
    <3> HIDE DEF p
    <3> QED BY <1>5, <3>1, <3>2, <3>3
  <2>2. CASE ~Holds(subs, k)
    <3>1. p = Held(k)
      BY <1>1, <2>2, PendingIs
    <3>2. \A id \in DOMAIN subs : subs[id].filter # k
      BY <2>2 DEF Holds
    <3> HIDE DEF p
    <3> QED BY <3>1, <3>2
  <2> QED BY <2>1, <2>2
<1> HIDE DEF a, p
<1>7. ASSUME NEW n PROVE n \in Lost(k) <=> n \in LostOf(log, a, p, k)
  <2>1. n \in Lost(k) <=> n \in 1..Len(log) /\ log[n] = k /\ n \notin Range(a) /\ n \notin Range(p)
    BY <1>6 DEF Lost, a
  <2>2. n \in LostOf(log, a, p, k) <=>
          n \in 1..Len(log) /\ log[n] = k /\ n \notin Range(a) /\ n \notin Range(p)
    BY <1>3, <1>4 DEF LostOf
  <2> QED BY <2>1, <2>2
<1>8. Lost(k) = LostOf(log, a, p, k)
  BY <1>7
<1> QED BY <1>8 DEF a, p

\* The same in the next state.
LEMMA LostNext == LostRule'
BY LostIs, PTL

\* The lost entries are finitely many.
LEMMA LostFinite ==
  ASSUME NEW lg \in Seq(Filters), NEW a, NEW p, NEW k
  PROVE  IsFiniteSet(LostOf(lg, a, p, k)) /\ Cardinality(LostOf(lg, a, p, k)) \in Nat
<1>1. LostOf(lg, a, p, k) \in SUBSET (1..Len(lg)) /\ Len(lg) \in Int /\ 1 \in Int
  BY DEF LostOf
<1>2. IsFiniteSet(1..Len(lg))
  BY ONLY <1>1, FS_Interval
<1>3. IsFiniteSet(LostOf(lg, a, p, k))
  BY <1>1, <1>2, FS_Subset
<1> QED BY <1>3, FS_CardinalityType

\* Cutting m entries from the old end of what waits loses exactly those.
LEMMA LostCut ==
  ASSUME NEW lg \in Seq(Filters), NEW k, NEW a, NEW p, NEW m \in 0..Len(p),
         KeyQueue(a, lg, k), KeyQueue(p, lg, k), Before(a, p)
  PROVE  Cardinality(LostOf(lg, a, SubSeq(p, m + 1, Len(p)), k))
           = Cardinality(LostOf(lg, a, p, k)) + m
<1> DEFINE s == SubSeq(p, m + 1, Len(p))
           cut == {p[i] : i \in 1..m}
           L == LostOf(lg, a, p, k)
           f == [i \in 1..m |-> p[i]]
<1>1. /\ p \in Seq(Nat) /\ Len(p) \in Nat /\ Len(lg) \in Nat /\ m \in Nat
      /\ \A i \in 1..Len(p) : p[i] \in 1..Len(lg) /\ lg[p[i]] = k
      /\ \A i, j \in 1..Len(p) : i < j => p[i] < p[j]
      /\ \A i \in 1..Len(a) : a[i] \in Nat
  BY DEF KeyQueue, Queue, Increasing
<1>2. Len(s) = Len(p) - m /\ \A i \in 1..Len(s) : s[i] = p[i + m] /\ i + m \in 1..Len(p)
  BY <1>1
<1>3. \A i, j \in 1..Len(p) : i # j => p[i] # p[j]
  <2> SUFFICES ASSUME NEW i \in 1..Len(p), NEW j \in 1..Len(p), i # j PROVE p[i] # p[j]
    OBVIOUS
  <2>1. p[i] \in Nat /\ p[j] \in Nat /\ (i < j \/ j < i)
    BY <1>1
  <2> QED BY <1>1, <2>1
<1>4. f \in Bijection(1..m, cut)
  <2>1. \A i \in 1..m : i \in 1..Len(p)
    BY <1>1
  <2> QED BY <1>3, <2>1 DEF Bijection, Injection, Surjection, IsInjective
<1>5. IsFiniteSet(cut) /\ Cardinality(cut) = m
  <2>1. IsFiniteSet(1..m) /\ Cardinality(1..m) = m
    <3>1. IsFiniteSet(1..m) /\ Cardinality(1..m) = IF 1 > m THEN 0 ELSE m - 1 + 1
      <4>1. m \in Int /\ 1 \in Int
        BY <1>1
      <4> QED BY ONLY <4>1, FS_Interval
    <3> QED BY <1>1, <3>1
  <2>2. ExistsBijection(1..m, cut)
    BY <1>4 DEF ExistsBijection
  <2> HIDE DEF cut
  <2> QED BY <2>1, <2>2, FS_Bijection
<1>6. ASSUME NEW n PROVE n \in LostOf(lg, a, s, k) <=> n \in L \/ n \in cut
  <2>1. ASSUME n \in cut PROVE n \in LostOf(lg, a, s, k)
    <3>1. PICK j \in 1..m : n = p[j]
      BY <2>1
    <3>2. j \in 1..Len(p)
      BY <1>1
    <3>3. \A i \in 1..Len(s) : s[i] # n
      <4> SUFFICES ASSUME NEW i \in 1..Len(s), s[i] = n PROVE FALSE
        OBVIOUS
      <4>1. i + m \in 1..Len(p) /\ s[i] = p[i + m] /\ i + m # j
        BY <1>1, <1>2
      <4> QED BY <1>3, <3>1, <3>2, <4>1
    <3>4. \A i \in 1..Len(a) : a[i] # n
      <4>1. \A i \in 1..Len(a) : a[i] < p[j]
        BY <3>2 DEF Before
      <4>2. p[j] \in Nat
        BY <1>1, <3>2
      <4> QED BY <1>1, <3>1, <4>1, <4>2
    <3> QED BY <1>1, <3>1, <3>2, <3>3, <3>4 DEF LostOf
  <2>2. ASSUME n \in L PROVE n \in LostOf(lg, a, s, k)
    BY <1>2, <2>2 DEF LostOf
  <2>3. ASSUME n \in LostOf(lg, a, s, k), n \notin cut PROVE n \in L
    <3>1. ASSUME NEW i \in 1..Len(p), p[i] = n PROVE FALSE
      <4>1. i \notin 1..m
        BY <2>3, <3>1
      <4>2. i - m \in 1..Len(s) /\ (i - m) + m = i
        BY <1>1, <1>2, <4>1
      <4>3. s[i - m] = p[i]
        BY <1>2, <4>2
      <4> QED BY <2>3, <3>1, <4>2, <4>3 DEF LostOf
    <3> QED BY <2>3, <3>1 DEF LostOf
  <2> HIDE DEF cut, L
  <2> QED BY <2>1, <2>2, <2>3
<1>7. L \cap cut = {}
  <2> SUFFICES ASSUME NEW i \in 1..m, p[i] \in L PROVE FALSE
    OBVIOUS
  <2>1. i \in 1..Len(p)
    BY <1>1
  <2> QED BY <2>1 DEF LostOf
<1>8. LostOf(lg, a, s, k) = L \cup cut
  <2> HIDE DEF cut, L
  <2> QED BY <1>6
<1>9. IsFiniteSet(L) /\ Cardinality(L) \in Nat
  BY LostFinite
<1>10. Cardinality(L \cup cut) = Cardinality(L) + Cardinality(cut) - Cardinality(L \cap cut)
  <2> HIDE DEF cut, L
  <2> QED BY ONLY <1>5, <1>9, FS_Union
<1>11. Cardinality({}) = 0
  BY FS_EmptySet
<1> HIDE DEF L, cut, s
<1>12. Cardinality(L \cap cut) = 0
  BY <1>7, <1>11, Zenon
<1>13. Cardinality(LostOf(lg, a, s, k)) = Cardinality(L) + m
  <2>1. Cardinality(LostOf(lg, a, s, k)) = Cardinality(L \cup cut)
    BY <1>8, Zenon
  <2> QED BY <1>1, <1>5, <1>9, <1>10, <1>12, <2>1
<1> QED BY <1>13 DEF L, s

\* An entry of the key that joins what waits is not lost; one that does not
\* join it is, and no other.
LEMMA LostPublish ==
  ASSUME NEW lg \in Seq(Filters), NEW k \in Filters, NEW a, NEW p,
         KeyQueue(a, lg, k), KeyQueue(p, lg, k)
  PROVE  /\ LostOf(Append(lg, k), a, Append(p, Len(lg) + 1), k) = LostOf(lg, a, p, k)
         /\ Cardinality(LostOf(Append(lg, k), a, p, k)) = Cardinality(LostOf(lg, a, p, k)) + 1
<1> DEFINE n == Len(lg) + 1
           l == Append(lg, k)
           q == Append(p, n)
           L == LostOf(lg, a, p, k)
<1>1. /\ Len(lg) \in Nat /\ Len(l) = n /\ l[n] = k /\ \A i \in 1..Len(lg) : l[i] = lg[i]
      /\ \A x : x \in 1..Len(l) <=> x \in 1..Len(lg) \/ x = n
      /\ n \notin 1..Len(lg)
  OBVIOUS
<1>2. /\ p \in Seq(Nat) /\ Len(p) \in Nat
      /\ \A i \in 1..Len(p) : p[i] \in 1..Len(lg)
      /\ \A i \in 1..Len(a) : a[i] \in 1..Len(lg)
  BY DEF KeyQueue, Queue
<1>3. /\ Len(q) = Len(p) + 1 /\ q[Len(p) + 1] = n /\ \A i \in 1..Len(p) : q[i] = p[i]
      /\ \A i : i \in 1..Len(q) <=> i \in 1..Len(p) \/ i = Len(p) + 1
  BY <1>1, <1>2
<1> HIDE DEF n, l, q
<1>4. ASSUME NEW x PROVE x \in LostOf(l, a, q, k) <=> x \in L
  <2>1. (\A i \in 1..Len(q) : q[i] # x) <=> (\A i \in 1..Len(p) : p[i] # x) /\ x # n
    BY <1>3
  <2> QED BY <1>1, <2>1 DEF LostOf
<1>5. ASSUME NEW x PROVE x \in LostOf(l, a, p, k) <=> x \in L \/ x = n
  <2>1. (\A i \in 1..Len(p) : p[i] # n) /\ (\A i \in 1..Len(a) : a[i] # n)
    BY <1>1, <1>2
  <2> QED BY <1>1, <2>1 DEF LostOf
<1>6. n \notin L
  BY <1>1 DEF LostOf
<1>7. IsFiniteSet(L) /\ Cardinality(L) \in Nat
  BY LostFinite
<1> HIDE DEF L
<1>8. LostOf(l, a, q, k) = L /\ LostOf(l, a, p, k) = L \cup {n}
  BY <1>4, <1>5
<1>9. Cardinality(L \cup {n}) = Cardinality(L) + 1
  BY <1>6, <1>7, FS_AddElement
<1> QED BY <1>8, <1>9 DEF L, l, q, n

\* A step of the feed loses as many entries as it counts, while the key stays
\* retained.
LEMMA LossStep ==
  ASSUME NEW k \in Keys, Tidy(k), drops[k] \in Nat, k \in DOMAIN retained, k \in DOMAIN retained',
         [FeedOf(k)!FeedNext]_(FeedOf(k)!feedVars)
  PROVE  Cardinality(LostOf(log', read'[k], Pending(k)', k))
           = Cardinality(LostOf(log, read[k], Pending(k), k)) + (drops'[k] - drops[k])
<1> DEFINE a == read[k]
           p == Pending(k)
           n == Len(log) + 1
           c == Cardinality(LostOf(log, a, p, k))
<1>1. /\ k \in Filters /\ log \in Seq(Filters) /\ Len(log) \in Nat
      /\ p \in Seq(Nat) /\ Len(p) \in Nat /\ a \in Seq(Nat) /\ Len(a) \in Nat
      /\ KeyQueue(a, log, k) /\ KeyQueue(p, log, k) /\ Before(a, p)
  BY SMTT(60) DEF Filters, Tidy, KeyQueue, Queue
<1>2. c \in Nat
  BY <1>1, LostFinite
<1>3. CASE FeedOf(k)!Offer
  <2>1. log' = Append(log, k) /\ read'[k] = a
    BY <1>3 DEF FeedOf!Offer
  <2>2. CASE p' = Append(p, n) /\ drops'[k] = drops[k]
    <3>1. LostOf(Append(log, k), a, Append(p, n), k) = LostOf(log, a, p, k)
      BY <1>1, LostPublish
    <3>2. LostOf(log', read'[k], p', k) = LostOf(log, a, p, k)
      BY <2>1, <2>2, <3>1
    <3> QED BY <1>2, <2>2, <3>2
  <2>3. CASE p' = p /\ drops'[k] = drops[k] + 1
    <3>1. Cardinality(LostOf(Append(log, k), a, p, k)) = c + 1
      BY <1>1, LostPublish
    <3>2. Cardinality(LostOf(log', read'[k], p', k)) = c + 1
      BY <2>1, <2>3, <3>1
    <3> QED BY <1>2, <2>3, <3>2
  <2>4. CASE Len(p) >= SubBufSize /\ p' = Append(Tail(p), n) /\ drops'[k] = drops[k] + 1
    <3>1. Len(p) >= 1 /\ Tail(p) = SubSeq(p, 1 + 1, Len(p)) /\ 1 \in 0..Len(p)
      BY <1>1, <2>4, HubAssumption
    <3>2. Cardinality(LostOf(log, a, SubSeq(p, 1 + 1, Len(p)), k)) = c + 1
      BY <1>1, <3>1, LostCut
    <3>3. KeyQueue(Tail(p), log, k)
      <4>1. LET t == SubSeq(p, 1 + 1, Len(p)) IN KeyQueue(t, log, k) /\ Before(a, t)
        BY <1>1, <3>1, KeyQueueSuffix
      <4> QED BY <3>1, <4>1, Zenon
    <3>4. LostOf(Append(log, k), a, Append(Tail(p), n), k) = LostOf(log, a, Tail(p), k)
      BY <1>1, <3>3, LostPublish
    <3>5. Cardinality(LostOf(log', read'[k], p', k)) = c + 1
      BY <2>1, <2>4, <3>1, <3>2, <3>4
    <3> QED BY <1>2, <2>4, <3>5
  <2> QED BY <1>3, <2>2, <2>3, <2>4 DEF FeedOf!Offer
<1>4. CASE FeedOf(k)!Other
  <2>1. PICK j \in Filters \ {k} : log' = Append(log, j)
    BY <1>4 DEF FeedOf!Other
  <2>2. read'[k] = a /\ p' = p /\ drops'[k] = drops[k]
    BY <1>4 DEF FeedOf!Other
  <2>3. /\ log'[n] # k /\ \A i \in 1..Len(log) : log'[i] = log[i]
        /\ \A x : x \in 1..Len(log') <=> x \in 1..Len(log) \/ x = n
    BY <1>1, <2>1
  <2>4. \A x : x \in LostOf(log', a, p, k) <=> x \in LostOf(log, a, p, k)
    <3> HIDE DEF a, p, n
    <3> QED BY <2>3 DEF LostOf
  <2>5. LostOf(log', read'[k], p', k) = LostOf(log, a, p, k)
    <3>1. LostOf(log', a, p, k) = LostOf(log, a, p, k)
      BY <2>4
    <3> QED BY <2>2, <3>1
  <2> QED BY <1>2, <2>2, <2>5
<1>5. CASE FeedOf(k)!Read
  <2> DEFINE t == Append(a, Head(p))
             q == Tail(p)
  <2>1. p # <<>> /\ read'[k] = t /\ p' = q /\ log' = log /\ drops'[k] = drops[k]
    BY <1>5 DEF FeedOf!Read
  <2>2. /\ Len(t) = Len(a) + 1 /\ t[Len(a) + 1] = p[1] /\ \A i \in 1..Len(a) : t[i] = a[i]
        /\ \A i : i \in 1..Len(t) <=> i \in 1..Len(a) \/ i = Len(a) + 1
    BY <1>1, <2>1, SMTT(60)
  <2>3. /\ \A i \in 1..Len(q) : q[i] = p[i + 1] /\ i + 1 \in 1..Len(p)
        /\ 1 \in 1..Len(p)
        /\ \A i \in 1..Len(p) : i # 1 => i - 1 \in 1..Len(q) /\ q[i - 1] = p[i]
    BY <1>1, <2>1
  <2> HIDE DEF t, q, a, p
  <2>4. ASSUME NEW x PROVE x \in LostOf(log, t, q, k) <=> x \in LostOf(log, a, p, k)
    <3>1. (\A i \in 1..Len(t) : t[i] # x) <=> (\A i \in 1..Len(a) : a[i] # x) /\ x # p[1]
      BY <2>2
    <3>2. (\A i \in 1..Len(p) : p[i] # x) <=> (\A i \in 1..Len(q) : q[i] # x) /\ x # p[1]
      BY <2>3
    <3> QED BY <3>1, <3>2 DEF LostOf
  <2>5. LostOf(log, t, q, k) = LostOf(log, a, p, k)
    BY <2>4
  <2>6. Cardinality(LostOf(log', read'[k], p', k)) = c
    BY <2>1, <2>5
  <2> QED BY <1>2, <2>1, <2>6 DEF a, p
<1>6. CASE FeedOf(k)!Trim
  <2> DEFINE m == Len(p) - SubBufSize
  <2>1. /\ m \in 0..Len(p) /\ p' = SubSeq(p, m + 1, Len(p)) /\ read'[k] = a /\ log' = log
        /\ drops'[k] = drops[k] + m
    BY <1>1, <1>6, HubAssumption, SMTT(60) DEF FeedOf!Trim
  <2> HIDE DEF m
  <2>2. Cardinality(LostOf(log, a, SubSeq(p, m + 1, Len(p)), k)) = c + m
    BY <1>1, <2>1, LostCut
  <2>3. Cardinality(LostOf(log', read'[k], p', k)) = c + m
    BY <2>1, <2>2
  <2> QED BY <1>1, <1>2, <2>1, <2>3
<1>7. CASE FeedOf(k)!Keep \/ UNCHANGED FeedOf(k)!feedVars
  <2>1. read'[k] = a /\ log' = log /\ p' = p /\ drops'[k] = drops[k]
    BY <1>7 DEF FeedOf!Keep, FeedOf!feedVars
  <2> QED BY <1>2, <2>1
<1>8. ~FeedOf(k)!Forget
  BY DEF FeedOf!Forget
<1> QED BY <1>3, <1>4, <1>5, <1>6, <1>7, <1>8 DEF FeedOf!FeedNext

\* While a key stays retained, the hub reports each entry that the consumers of
\* the key lose to the DropObserver exactly once, provided they connect one at a
\* time: for the newest entry dropped at a full channel, the oldest dropped from
\* a full backlog, and all that a requeue trims.
THEOREM HubLossesObservedOnce ==
  ASSUME ~Overlap
  PROVE  HubSpec => LossesObservedOnce
<1> DEFINE Loss == \A k \in DOMAIN retained \cap DOMAIN retained' :
                     Cardinality(Lost(k)') - Cardinality(Lost(k)) = drops'[k] - drops[k]
           Inv == FeedInv /\ (Keyed => \A k \in Keys : Tidy(k))
<1>1. HubInit => Inv
  <2> SUFFICES ASSUME HubInit PROVE Inv
    OBVIOUS
  <2>1. FeedInv /\ \A k \in Keys : FeedOf(k)!FeedInit
    BY FeedInvInit
  <2>2. ASSUME NEW k \in Keys PROVE Tidy(k)
    <3>1. log = <<>> /\ Pending(k) = <<>> /\ read[k] = <<>>
      BY <2>1 DEF FeedOf!FeedInit
    <3> QED BY <3>1, QueueEmpty DEF Tidy, KeyQueue, Before
  <2> QED BY <2>1, <2>2
<1>2. Inv /\ [HubNext]_hubVars => Inv' /\ [Loss]_hubVars
  <2> SUFFICES ASSUME Inv, [HubNext]_hubVars PROVE Inv' /\ Loss
    OBVIOUS
  <2>1. FeedInv'
    BY FeedInvNext
  <2>2. CASE ~Keyed
    <3>1. DOMAIN retained = {}
      BY <2>2 DEF FeedInv, HubInv, HubTypeOK
    <3> QED BY <2>1, <2>2, <3>1
  <2>3. CASE Keyed
    <3>1. ASSUME NEW k \in Keys
          PROVE  Tidy(k) /\ Tidy(k)' /\ [FeedOf(k)!FeedNext]_(FeedOf(k)!feedVars)
      BY <2>3, FeedStep, TidyStep
    <3>2. ASSUME NEW k \in DOMAIN retained, k \in DOMAIN retained'
          PROVE  Cardinality(Lost(k)') - Cardinality(Lost(k)) = drops'[k] - drops[k]
      <4>1. k \in Keys /\ drops[k] \in Nat /\ drops'[k] \in Nat
        BY <2>1 DEF FeedInv, HubInv, HubTypeOK, Filters
      <4>2. Tidy(k) /\ Tidy(k)' /\ [FeedOf(k)!FeedNext]_(FeedOf(k)!feedVars)
        BY <3>1, <4>1
      <4>3. Lost(k) = LostOf(log, read[k], Pending(k), k)
        BY <4>1, <4>2, LostIs DEF LostRule
      <4>4. Lost(k)' = LostOf(log', read'[k], Pending(k)', k)
        BY <2>1, <4>1, <4>2, LostNext DEF LostRule
      <4>5. Cardinality(Lost(k)') = Cardinality(Lost(k)) + (drops'[k] - drops[k])
        BY <3>2, <4>1, <4>2, <4>3, <4>4, LossStep
      <4>6. Cardinality(Lost(k)) \in Nat
        BY <4>2, <4>3, LostFinite DEF Tidy
      <4> QED BY <4>1, <4>5, <4>6
    <3> QED BY <2>1, <2>3, <3>1, <3>2
  <2> QED BY <2>2, <2>3
<1> QED BY <1>1, <1>2, PTL DEF HubSpec, LossesObservedOnce
=============================================================================
