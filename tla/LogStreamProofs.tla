--------------------------- MODULE LogStreamProofs --------------------------
(***************************************************************************)
(* Proofs about the SSE log stream, for any number of connections, filters *)
(* and keys, any buffer size, and subscribers of a key that overlap or not.*)
(*                                                                         *)
(* A step of the stream is a step of the hub or none (StreamStepsHub), so  *)
(* what LogHubProofs shows of the hub holds here as well.  StreamInv adds: *)
(* the entries in channels and backlogs are where they belong (Selected);  *)
(* handlers and subscriptions match one to one (Linked); and each          *)
(* connection is Served: what it wrote, what its handler holds and what is *)
(* queued are entries of its filter in publish order, and what is missing  *)
(* from them since ": connected" has been counted as dropped.              *)
(*                                                                         *)
(* Served speaks of one connection's record k, its channel q, the log and  *)
(* the drops of its filter, so that the lemmas on what a handler does to   *)
(* its connection (ServedMove and its like) know nothing of the others.    *)
(***************************************************************************)
EXTENDS LogStream, LogHubProofs

-----------------------------------------------------------------------------
(* What is queued where *)

\* A queue q holds only entries that the filter of s (a subscriber or a
\* connection) selects.
Chosen(s, q, lg) == \A i \in 1..Len(q) : Matches(s, KeyOf(lg[q[i]]))

\* Channels hold entries of their filter, backlogs entries of their key.
Selected ==
  /\ \A id \in DOMAIN subs : Chosen(subs[id], subs[id].ch, log)
  /\ \A k \in DOMAIN retained : \A i \in 1..Len(retained[k]) : KeyOf(log[retained[k][i]]) = k

\* Publish puts an entry only where it belongs, and replay and requeue move it
\* only between a key's backlog and a channel with that key as its filter.
LEMMA SelectedNext ==
  ASSUME HubInv, Selected, [HubNext]_hubVars
  PROVE  Selected'
<1>1. /\ SubsOK /\ RetainedOK /\ BacklogOnlyWhenDetached /\ nextID \in Nat
      /\ log \in Seq(Filters) /\ Len(log) \in Nat
  BY Regroup, HubAssumption DEF SubsOK, HistoryOK
<1>2. CASE \E k \in Keys : Retain(k) \/ Release(k)
  <2>1. subs' = subs /\ log' = log
    BY <1>2 DEF Retain, Release
  <2>2. \A k \in DOMAIN retained' : retained'[k] = <<>> \/ (k \in DOMAIN retained /\ retained'[k] = retained[k])
    <3>1. PICK j \in Keys : Retain(j) \/ Release(j)
      BY <1>2
    <3>2. CASE Retain(j)
      <4>1. DOMAIN retained' = DOMAIN retained \cup {j} /\ retained'[j] = <<>>
        BY <3>2 DEF Retain, Put
      <4>2. \A k \in DOMAIN retained : k # j => retained'[k] = retained[k]
        BY <3>2 DEF Retain, Put
      <4> QED BY <4>1, <4>2
    <3>3. CASE Release(j)
      BY <3>3 DEF Release, Delete, Restrict
    <3> QED BY <3>1, <3>2, <3>3
  <2>3. \A k \in DOMAIN retained' : \A i \in 1..Len(retained'[k]) : KeyOf(log[retained'[k][i]]) = k
    <3> SUFFICES ASSUME NEW k \in DOMAIN retained', NEW i \in 1..Len(retained'[k])
                 PROVE  KeyOf(log[retained'[k][i]]) = k
      OBVIOUS
    <3>1. retained'[k] # <<>>
      OBVIOUS
    <3> QED BY <2>2, <3>1 DEF Selected
  <2> QED BY <2>1, <2>3 DEF Selected
<1>3. CASE UNCHANGED hubVars
  BY <1>3 DEF hubVars, Selected
<1>4. CASE \E f \in Filters : Subscribe(f)
  <2>1. PICK f \in Filters : Subscribe(f)
    BY <1>4
  <2>2. /\ DOMAIN subs' = DOMAIN subs \cup {nextID + 1} /\ nextID + 1 \notin DOMAIN subs
        /\ subs'[nextID + 1].filter = f /\ subs'[nextID + 1].ch = Held(f)
        /\ \A id \in DOMAIN subs : subs'[id] = subs[id]
        /\ log' = log
    BY <1>1, <2>1 DEF Subscribe, Put, SubsOK
  <2>3. DOMAIN retained' = DOMAIN retained
        /\ \A k \in DOMAIN retained : retained'[k] = IF k = f THEN <<>> ELSE retained[k]
    BY <2>1 DEF Subscribe, HandedOver
  <2>4. Chosen(subs'[nextID + 1], subs'[nextID + 1].ch, log)
    <3>1. CASE f \in DOMAIN retained
      BY <2>2, <3>1 DEF Held, Selected, Chosen, Matches
    <3>2. CASE f \notin DOMAIN retained
      BY <2>2, <3>2 DEF Held, Chosen
    <3> QED BY <3>1, <3>2
  <2>5. \A id \in DOMAIN subs' : Chosen(subs'[id], subs'[id].ch, log)
    BY <2>2, <2>4 DEF Selected
  <2>6. \A k \in DOMAIN retained' : \A i \in 1..Len(retained'[k]) : KeyOf(log[retained'[k][i]]) = k
    BY <2>3 DEF Selected
  <2> QED BY <2>2, <2>5, <2>6 DEF Selected
<1>5. CASE \E id \in DOMAIN subs : Unsubscribe(id)
  <2>1. PICK id \in DOMAIN subs : Unsubscribe(id)
    BY <1>5
  <2> DEFINE s == subs[id]
  <2>2. /\ DOMAIN subs' \subseteq DOMAIN subs /\ \A x \in DOMAIN subs' : subs'[x] = subs[x]
        /\ log' = log
    BY <2>1 DEF Unsubscribe, Delete, Restrict
  <2>3. CASE s.filter \in DOMAIN retained /\ ~Holds(Delete(subs, id), s.filter)
    <3>1. retained[s.filter] = <<>>
      BY <1>1, <2>3 DEF BacklogOnlyWhenDetached, Holds
    <3>2. retained' = [retained EXCEPT ![s.filter] = Requeue(s.ch, @)]
      BY <2>1, <2>3 DEF Unsubscribe
    <3>3. DOMAIN retained' = DOMAIN retained
          /\ \A k \in DOMAIN retained : k # s.filter => retained'[k] = retained[k]
      BY <3>2
    <3>4. retained'[s.filter] = Requeue(s.ch, <<>>)
      BY <2>3, <3>1, <3>2
    <3>5. s.ch \in Seq(Nat) /\ Len(s.ch) \in Nat /\ s.filter # All /\ Keyed
      BY <1>1, <2>3, HubAssumption DEF SubsOK, GoodSub, Sub, RetainedOK
    <3>6. Requeue(s.ch, <<>>) = SubSeq(s.ch, Excess(s.ch) + 1, Len(s.ch))
      BY <3>5, ConcatEmptySeq DEF Requeue
    <3>7. Excess(s.ch) \in 0..Len(s.ch)
      BY <3>5, HubAssumption DEF Excess
    <3>8. \A i \in 1..Len(Requeue(s.ch, <<>>)) :
            \E j \in 1..Len(s.ch) : Requeue(s.ch, <<>>)[i] = s.ch[j]
      <4>1. PICK q, e : q = s.ch /\ e = Excess(s.ch)
        OBVIOUS
      <4>2. q \in Seq(Nat) /\ e \in 0..Len(q) /\ Requeue(s.ch, <<>>) = SubSeq(q, e + 1, Len(q))
        BY <3>5, <3>6, <3>7, <4>1
      <4>3. \A i \in 1..Len(SubSeq(q, e + 1, Len(q))) :
              i + e \in 1..Len(q) /\ SubSeq(q, e + 1, Len(q))[i] = q[i + e]
        BY <4>2, SMTT(60)
      <4>4. \A i \in 1..Len(SubSeq(q, e + 1, Len(q))) :
              \E j \in 1..Len(q) : SubSeq(q, e + 1, Len(q))[i] = q[j]
        BY <4>3
      <4>5. PICK r : r = Requeue(s.ch, <<>>)
        OBVIOUS
      <4>6. \A i \in 1..Len(r) : \E j \in 1..Len(q) : r[i] = q[j]
        BY <4>2, <4>4, <4>5
      <4> QED BY <4>1, <4>5, <4>6
    <3>9. \A j \in 1..Len(s.ch) : KeyOf(log[s.ch[j]]) = s.filter
      BY <3>5 DEF Selected, Chosen, Matches
    <3>10. \A i \in 1..Len(retained'[s.filter]) : KeyOf(log[retained'[s.filter][i]]) = s.filter
      BY <3>4, <3>8, <3>9
    <3>11. \A k \in DOMAIN retained' : \A i \in 1..Len(retained'[k]) : KeyOf(log[retained'[k][i]]) = k
      BY <3>3, <3>10 DEF Selected
    <3> QED BY <2>2, <3>11 DEF Selected
  <2>4. CASE ~(s.filter \in DOMAIN retained /\ ~Holds(Delete(subs, id), s.filter))
    <3>1. retained' = retained
      BY <2>1, <2>4 DEF Unsubscribe
    <3> QED BY <2>2, <3>1 DEF Selected
  <2> QED BY <2>3, <2>4
<1>6. CASE \E id \in DOMAIN subs : Receive(id)
  <2>1. PICK id \in DOMAIN subs : Receive(id)
    BY <1>6
  <2>2. /\ DOMAIN subs' = DOMAIN subs /\ \A x \in DOMAIN subs : x # id => subs'[x] = subs[x]
        /\ subs'[id].filter = subs[id].filter /\ subs'[id].ch = Tail(subs[id].ch)
        /\ subs[id].ch # <<>> /\ log' = log /\ retained' = retained
    BY <1>1, <2>1 DEF Receive, SubsOK, GoodSub, Sub
  <2>3. subs[id].ch \in Seq(Nat)
    BY <1>1 DEF SubsOK, GoodSub, Sub
  <2>4. \A i \in 1..Len(Tail(subs[id].ch)) :
          i + 1 \in 1..Len(subs[id].ch) /\ Tail(subs[id].ch)[i] = subs[id].ch[i + 1]
    BY <2>2, <2>3
  <2>5. Chosen(subs'[id], subs'[id].ch, log)
    BY <2>2, <2>4 DEF Selected, Chosen, Matches
  <2>6. \A x \in DOMAIN subs' : Chosen(subs'[x], subs'[x].ch, log)
    BY <2>2, <2>5 DEF Selected
  <2> QED BY <2>2, <2>6 DEF Selected
<1>7. CASE \E f \in Filters : Publish(f)
  <2>1. PICK f \in Filters : Publish(f)
    BY <1>7
  <2> DEFINE n == Len(log) + 1
             key == KeyOf(f)
  <2>2. /\ log' = Append(log, f) /\ log'[n] = f /\ \A i \in 1..Len(log) : log'[i] = log[i]
    BY <1>1, <2>1 DEF Publish
  <2>3. DOMAIN subs' = DOMAIN subs
        /\ \A id \in DOMAIN subs :
             \/ subs'[id] = subs[id]
             \/ /\ Matches(subs[id], key)
                /\ subs'[id] = [subs[id] EXCEPT !.ch = Append(@, n)]
    BY <2>1 DEF Publish, Recipients
  <2>4. ASSUME NEW id \in DOMAIN subs
        PROVE  Chosen(subs'[id], subs'[id].ch, log')
    <3> DEFINE q == subs[id].ch
    <3>1. q \in Seq(Nat) /\ Len(q) \in Nat /\ \A i \in 1..Len(q) : q[i] \in 1..Len(log)
      BY <1>1 DEF SubsOK, GoodSub, Sub, Queue
    <3>2. Chosen(subs[id], q, log')
      BY <2>2, <3>1 DEF Selected, Chosen
    <3>3. CASE subs'[id] = subs[id]
      BY <3>2, <3>3
    <3>4. CASE Matches(subs[id], key) /\ subs'[id] = [subs[id] EXCEPT !.ch = Append(@, n)]
      <4>1. subs'[id].filter = subs[id].filter /\ subs'[id].ch = Append(q, n)
        BY <1>1, <3>4 DEF SubsOK, GoodSub, Sub
      <4>2. n \in Nat
        BY <1>1
      <4> HIDE DEF q, n
      <4>3. Len(Append(q, n)) = Len(q) + 1 /\ Append(q, n)[Len(q) + 1] = n
            /\ \A i \in 1..Len(q) : Append(q, n)[i] = q[i]
        BY <3>1, <4>2
      <4>4. \A i \in 1..Len(Append(q, n)) : i \in 1..Len(q) \/ i = Len(q) + 1
        BY <3>1, <4>3
      <4>5. \A i \in 1..Len(q) : Matches(subs'[id], KeyOf(log'[q[i]]))
        BY <3>2, <4>1 DEF Chosen, Matches
      <4>6. Matches(subs'[id], KeyOf(log'[n]))
        BY <2>2, <3>4, <4>1 DEF Matches
      <4> QED BY <4>1, <4>3, <4>4, <4>5, <4>6 DEF Chosen
    <3> QED BY <2>3, <3>3, <3>4
  <2>5. DOMAIN retained' = DOMAIN retained
        /\ \A k \in DOMAIN retained :
             \/ retained'[k] = retained[k]
             \/ /\ k = key
                /\ \/ retained'[k] = Append(retained[k], n)
                   \/ Len(retained[k]) >= SubBufSize /\ retained'[k] = Append(Tail(retained[k]), n)
    BY <2>1 DEF Publish
  <2>6. ASSUME NEW k \in DOMAIN retained, NEW i \in 1..Len(retained'[k])
        PROVE  KeyOf(log'[retained'[k][i]]) = k
    <3> DEFINE q == retained[k]
    <3>1. /\ q \in Seq(Nat) /\ Len(q) \in Nat
          /\ \A j \in 1..Len(q) : q[j] \in 1..Len(log) /\ KeyOf(log[q[j]]) = k
      BY <1>1 DEF RetainedOK, GoodBacklog, Queue, Selected
    <3>2. \A j \in 1..Len(q) : KeyOf(log'[q[j]]) = k
      BY <2>2, <3>1
    <3>3. CASE retained'[k] = q
      BY <2>6, <3>2, <3>3
    <3>4. CASE k = key /\ retained'[k] = Append(q, n)
      <4>1. (i \in 1..Len(q) /\ retained'[k][i] = q[i]) \/ retained'[k][i] = n
        BY <1>1, <2>6, <3>1, <3>4
      <4> QED BY <2>2, <3>2, <3>4, <4>1
    <3>5. CASE k = key /\ Len(q) >= SubBufSize /\ retained'[k] = Append(Tail(q), n)
      <4>1. Len(q) >= 1
        BY <3>5, <3>1, HubAssumption
      <4>2. (i + 1 \in 1..Len(q) /\ retained'[k][i] = q[i + 1]) \/ retained'[k][i] = n
        BY <1>1, <2>6, <3>1, <3>5, <4>1
      <4> QED BY <2>2, <3>2, <3>5, <4>2
    <3> QED BY <2>5, <3>3, <3>4, <3>5
  <2> QED BY <2>3, <2>4, <2>5, <2>6 DEF Selected
<1> QED BY <1>2, <1>3, <1>4, <1>5, <1>6, <1>7 DEF HubNext

-----------------------------------------------------------------------------
(* One connection *)

\* The states of a connection when i subscriptions and n entries were made.
ConnRec(i, n) ==
  [pc : PCs, id : 0..i, filter : Filters, hand : 0..n,
   client : {"ok", "stalled", "gone"}, wire : Seq(1..n), skip : SUBSET (1..n), hello : 0..n]

\* Whether the handler runs.
Live(k) == k.pc \notin {"idle", "done"}

\* What reached the client and what the handler is about to write: entries of
\* the filter in publish order.
InHand(k, lg) ==
  /\ Increasing(k.wire) /\ Chosen(k, k.wire, lg)
  /\ k.pc = "idle" => k.wire = <<>>
  /\ k.pc # "data" => k.hand = 0
  /\ k.pc = "data" => /\ k.hand >= 1 /\ Matches(k, KeyOf(lg[k.hand]))
                      /\ \A i \in 1..Len(k.wire) : k.wire[i] < k.hand

\* All of that is older than what is queued.
Ahead(k, q) ==
  \A i \in 1..Len(q) : k.hand < q[i] /\ \A j \in 1..Len(k.wire) : k.wire[j] < q[i]

\* Missed, for connection k with channel q.
MissedOf(k, q, lg) ==
  {n \in k.hello + 1 .. Len(lg) :
     /\ Matches(k, KeyOf(lg[n]))
     /\ n \notin Range(k.wire) \cup {k.hand} \cup k.skip \cup Range(q)}

\* ConnectedMeansLive, for connection k with channel q and d drops counted.
Counted(k, q, lg, d) ==
  k.pc \in InLoop /\ k.client # "gone" => Cardinality(MissedOf(k, q, lg)) <= d

Served(k, q, lg, d) ==
  InHand(k, lg) /\ (Live(k) => Ahead(k, q) /\ Counted(k, q, lg, d))

\* What a queue contains after an append, and before its head is taken.
LEMMA RangeSteps ==
  ASSUME NEW S, NEW q \in Seq(S), NEW e \in S
  PROVE  /\ \A x : x \in Range(q) <=> \E i \in 1..Len(q) : q[i] = x
         /\ \A x : x \in Range(Append(q, e)) <=> x \in Range(q) \/ x = e
         /\ q # <<>> => \A x : x \in Range(q) <=> x \in Range(Tail(q)) \/ x = Head(q)
<1>0. ASSUME NEW r \in Seq(S) PROVE \A x : x \in Range(r) <=> \E i \in 1..Len(r) : r[i] = x
  BY DEF Range
<1>1. \A x : x \in Range(q) <=> \E i \in 1..Len(q) : q[i] = x
  BY <1>0
<1>2. /\ DOMAIN Append(q, e) = 1..(Len(q) + 1) /\ Len(q) \in Nat
      /\ Append(q, e)[Len(q) + 1] = e /\ \A i \in 1..Len(q) : Append(q, e)[i] = q[i]
  OBVIOUS
<1>3. ASSUME NEW x PROVE x \in Range(Append(q, e)) <=> x \in Range(q) \/ x = e
  <2>1. x \in Range(Append(q, e)) <=> \E i \in 1..(Len(q) + 1) : Append(q, e)[i] = x
    BY <1>2 DEF Range
  <2>2. \A i : i \in 1..(Len(q) + 1) <=> i \in 1..Len(q) \/ i = Len(q) + 1
    BY <1>2
  <2> QED BY <1>1, <1>2, <2>1, <2>2
<1>4. ASSUME q # <<>>, NEW x PROVE x \in Range(q) <=> x \in Range(Tail(q)) \/ x = Head(q)
  <2>1. /\ Tail(q) \in Seq(S) /\ Head(q) = q[1] /\ 1 \in 1..Len(q)
        /\ \A i \in 1..Len(Tail(q)) : i + 1 \in 1..Len(q) /\ Tail(q)[i] = q[i + 1]
        /\ \A i \in 1..Len(q) : i # 1 => i - 1 \in 1..Len(Tail(q)) /\ Tail(q)[i - 1] = q[i]
    BY <1>4
  <2>2. x \in Range(Tail(q)) <=> \E i \in 1..Len(Tail(q)) : Tail(q)[i] = x
    BY <1>0, <2>1, ZenonT(60)
  <2> QED BY <1>1, <2>1, <2>2
<1> QED BY <1>1, <1>3, <1>4

\* A connection's record stays one as entries are published and others subscribe.
LEMMA ConnRecGrow ==
  ASSUME NEW i \in Nat, NEW n \in Nat, NEW i2 \in Nat, NEW n2 \in Nat, i <= i2, n <= n2,
         NEW k \in ConnRec(i, n)
  PROVE  k \in ConnRec(i2, n2)
<1>1. 0..i \subseteq 0..i2 /\ 0..n \subseteq 0..n2 /\ 1..n \subseteq 1..n2
  OBVIOUS
<1>2. k.wire \in Seq(1..n2)
  <2>1. k.wire \in Seq(1..n)
    BY DEF ConnRec
  <2> QED BY <1>1, <2>1
<1> QED BY <1>1, <1>2 DEF ConnRec

\* Only finitely many entries are missed.
LEMMA MissedFinite ==
  ASSUME NEW i \in Nat, NEW lg \in Seq(Filters), NEW k \in ConnRec(i, Len(lg)), NEW q
  PROVE  IsFiniteSet(MissedOf(k, q, lg)) /\ Cardinality(MissedOf(k, q, lg)) \in Nat
<1>1. k.hello + 1 \in Int /\ Len(lg) \in Int
  BY DEF ConnRec
<1>2. MissedOf(k, q, lg) \in SUBSET (k.hello + 1 .. Len(lg))
  BY DEF MissedOf
<1>3. IsFiniteSet(k.hello + 1 .. Len(lg))
  BY ONLY <1>1, FS_Interval
<1>4. IsFiniteSet(MissedOf(k, q, lg))
  BY <1>2, <1>3, FS_Subset
<1> QED BY <1>4, FS_CardinalityType

\* More drops counted leave a connection served.
LEMMA ServedMore ==
  ASSUME NEW i \in Nat, NEW lg \in Seq(Filters), NEW k \in ConnRec(i, Len(lg)), NEW q,
         NEW d \in Nat, NEW d2 \in Nat, d <= d2, Served(k, q, lg, d)
  PROVE  Served(k, q, lg, d2)
<1>1. Cardinality(MissedOf(k, q, lg)) \in Nat
  BY MissedFinite
<1> QED BY <1>1 DEF Served, Counted

\* An entry is published: it joins the channel, or its loss is counted, or the
\* filter does not select it.
LEMMA ServedPublish ==
  ASSUME NEW i \in Nat, NEW lg \in Seq(Filters), NEW k \in ConnRec(i, Len(lg)),
         NEW q, NEW d \in Nat, NEW d2 \in Nat, NEW j \in Filters, NEW q2,
         Live(k) => Queue(q, Len(lg)),
         Served(k, q, lg, d), d <= d2,
         Live(k) => \/ q2 = Append(q, Len(lg) + 1)
                    \/ q2 = q /\ (Matches(k, KeyOf(j)) => d + 1 <= d2)
  PROVE  Served(k, q2, Append(lg, j), d2)
<1> DEFINE n == Len(lg) + 1
           l == Append(lg, j)
<1>1. /\ Len(lg) \in Nat /\ Len(l) = n /\ l[n] = j /\ \A x \in 1..Len(lg) : l[x] = lg[x]
      /\ n \notin 1..Len(lg) /\ n \in Nat
  OBVIOUS
<1>2. /\ k.wire \in Seq(1..Len(lg)) /\ k.hand \in 0..Len(lg) /\ k.hello \in 0..Len(lg)
      /\ \A x \in 1..Len(k.wire) : k.wire[x] \in 1..Len(lg)
  BY SMTT(60) DEF ConnRec
<1> HIDE DEF l, n
<1>3. InHand(k, l)
  <2>1. Chosen(k, k.wire, l)
    BY <1>1, <1>2 DEF Served, InHand, Chosen
  <2>2. k.pc = "data" => Matches(k, KeyOf(l[k.hand]))
    BY <1>1, <1>2 DEF Served, InHand
  <2> QED BY <2>1, <2>2 DEF Served, InHand
<1>4. ASSUME Live(k) PROVE Ahead(k, q2) /\ Counted(k, q2, l, d2)
  <2>1. q \in Seq(Nat) /\ Len(q) \in Nat /\ Ahead(k, q) /\ Counted(k, q, lg, d)
    BY <1>4 DEF Served, Queue
  <2>2. Cardinality(MissedOf(k, q, lg)) \in Nat /\ IsFiniteSet(MissedOf(k, q, lg))
    BY MissedFinite
  <2>3. \A x : x \in k.hello + 1 .. Len(l) <=> x \in k.hello + 1 .. Len(lg) \/ x = n
    BY <1>1, <1>2 DEF n
  <2>4. \A x \in k.hello + 1 .. Len(lg) : l[x] = lg[x] /\ x # n
    BY <1>1, <1>2
  <2>5. CASE q2 = Append(q, n)
    <3>1. Len(q2) = Len(q) + 1 /\ q2[Len(q) + 1] = n /\ \A x \in 1..Len(q) : q2[x] = q[x]
      BY <1>1, <2>1, <2>5
    <3>2. \A x \in 1..Len(q2) : x \in 1..Len(q) \/ x = Len(q) + 1
      BY <2>1, <3>1
    <3>3. k.hand < n /\ \A x \in 1..Len(k.wire) : k.wire[x] < n
      BY <1>1, <1>2 DEF n
    <3>4. Ahead(k, q2)
      BY <2>1, <3>1, <3>2, <3>3 DEF Ahead
    <3>5. \A x : x \in Range(q2) <=> x \in Range(q) \/ x = n
      BY <1>1, <2>1, <2>5, RangeSteps
    <3>6. \A x : x \in MissedOf(k, q2, l) <=> x \in MissedOf(k, q, lg)
      BY <2>3, <2>4, <3>5 DEF MissedOf
    <3>7. MissedOf(k, q2, l) = MissedOf(k, q, lg)
      BY <3>6
    <3> QED BY <2>1, <2>2, <3>4, <3>7 DEF Counted
  <2>6. CASE q2 = q /\ (Matches(k, KeyOf(j)) => d + 1 <= d2)
    <3>1. CASE Matches(k, KeyOf(j))
      <4>1. MissedOf(k, q, l) \in SUBSET (MissedOf(k, q, lg) \cup {n})
        <5>1. ASSUME NEW x \in MissedOf(k, q, l) PROVE x \in MissedOf(k, q, lg) \cup {n}
          BY <2>3, <2>4 DEF MissedOf
        <5> QED BY <5>1
      <4>2. /\ IsFiniteSet(MissedOf(k, q, lg) \cup {n})
            /\ Cardinality(MissedOf(k, q, lg) \cup {n}) <= Cardinality(MissedOf(k, q, lg)) + 1
            /\ Cardinality(MissedOf(k, q, lg) \cup {n}) \in Nat
        <5>1. /\ IsFiniteSet(MissedOf(k, q, lg) \cup {n})
              /\ Cardinality(MissedOf(k, q, lg) \cup {n}) =
                   IF n \in MissedOf(k, q, lg) THEN Cardinality(MissedOf(k, q, lg))
                                               ELSE Cardinality(MissedOf(k, q, lg)) + 1
          BY <2>2, FS_AddElement
        <5>2. PICK m : m = Cardinality(MissedOf(k, q, lg))
          OBVIOUS
        <5> QED BY <2>2, <5>1, <5>2
      <4>3. Cardinality(MissedOf(k, q, l)) <= Cardinality(MissedOf(k, q, lg) \cup {n})
        BY <4>1, <4>2, FS_Subset
      <4>4. Cardinality(MissedOf(k, q, l)) \in Nat
        <5>1. IsFiniteSet(MissedOf(k, q, l))
          BY <4>1, <4>2, FS_Subset
        <5> QED BY <5>1, FS_CardinalityType
      <4> QED BY <2>1, <2>2, <2>6, <3>1, <4>2, <4>3, <4>4 DEF Counted
    <3>2. CASE ~Matches(k, KeyOf(j))
      <4>1. \A x : x \in MissedOf(k, q, l) <=> x \in MissedOf(k, q, lg)
        BY <1>1, <2>3, <2>4, <3>2 DEF MissedOf
      <4>2. MissedOf(k, q, l) = MissedOf(k, q, lg)
        BY <4>1
      <4> QED BY <2>1, <2>2, <2>6, <4>2 DEF Counted
    <3> QED BY <3>1, <3>2
  <2> QED BY <1>4, <2>5, <2>6 DEF n
<1> QED BY <1>3, <1>4 DEF Served, l

\* Connection k2 is what became of k: served from q2, with its subscription.
Serves(k, k2, q2, i, lg, d) ==
  /\ k2 \in ConnRec(i, Len(lg)) /\ k2.id = k.id /\ k2.filter = k.filter
  /\ Served(k2, q2, lg, d)

\* The handler moves on, out of the select statement or for good.
LEMMA ServedMove ==
  ASSUME NEW i \in Nat, NEW lg \in Seq(Filters), NEW k \in ConnRec(i, Len(lg)), NEW q, NEW d \in Nat,
         Served(k, q, lg, d), k.pc # "data", NEW p \in PCs, p \notin {"data", "idle"},
         p \in InLoop => k.pc \in InLoop, p # "done" => Live(k),
         NEW k2, k2 = [k EXCEPT !.pc = p]
  PROVE  Serves(k, k2, q, i, lg, d)
<1>1. k2 \in ConnRec(i, Len(lg))
  BY DEF ConnRec
<1>2. /\ k2.pc = p /\ k2.id = k.id /\ k2.filter = k.filter /\ k2.hand = k.hand
      /\ k2.client = k.client /\ k2.wire = k.wire /\ k2.skip = k.skip /\ k2.hello = k.hello
  BY DEF ConnRec
<1>3. InHand(k2, lg)
  BY <1>2 DEF Served, InHand, Chosen, Matches
<1>4. ASSUME Live(k2) PROVE Ahead(k2, q) /\ Counted(k2, q, lg, d)
  <2>1. Ahead(k, q) /\ Counted(k, q, lg, d)
    BY <1>2, <1>4 DEF Served, Live
  <2>2. MissedOf(k2, q, lg) = MissedOf(k, q, lg)
    BY <1>2 DEF MissedOf, Matches
  <2>3. Ahead(k2, q)
    BY <1>2, <2>1 DEF Ahead
  <2>4. Counted(k2, q, lg, d)
    BY <1>2, <2>1, <2>2 DEF Counted
  <2> QED BY <2>3, <2>4
<1> QED BY <1>1, <1>2, <1>3, <1>4 DEF Serves, Served

\* The client stalls, resumes or hangs up; one that has gone does not return.
LEMMA ServedClient ==
  ASSUME NEW i \in Nat, NEW lg \in Seq(Filters), NEW k \in ConnRec(i, Len(lg)), NEW q, NEW d \in Nat,
         Served(k, q, lg, d), k.client # "gone", NEW to \in {"ok", "stalled", "gone"},
         NEW k2, k2 = [k EXCEPT !.client = to]
  PROVE  Serves(k, k2, q, i, lg, d)
<1>1. k2 \in ConnRec(i, Len(lg))
  BY DEF ConnRec
<1>2. /\ k2.pc = k.pc /\ k2.id = k.id /\ k2.filter = k.filter /\ k2.hand = k.hand
      /\ k2.client = to /\ k2.wire = k.wire /\ k2.skip = k.skip /\ k2.hello = k.hello
  BY DEF ConnRec
<1>3. InHand(k2, lg)
  BY <1>2 DEF Served, InHand, Chosen, Matches
<1>4. ASSUME Live(k2) PROVE Ahead(k2, q) /\ Counted(k2, q, lg, d)
  <2>1. Ahead(k, q) /\ Counted(k, q, lg, d)
    BY <1>2, <1>4 DEF Served, Live
  <2>2. MissedOf(k2, q, lg) = MissedOf(k, q, lg)
    BY <1>2 DEF MissedOf, Matches
  <2>3. Ahead(k2, q)
    BY <1>2, <2>1 DEF Ahead
  <2>4. Counted(k2, q, lg, d)
    BY <1>2, <2>1, <2>2 DEF Counted
  <2> QED BY <2>3, <2>4
<1> QED BY <1>1, <1>2, <1>3, <1>4 DEF Serves, Served

\* A write succeeds: the entry in hand is on the wire of a client that reads;
\* the first write opens the account of what the client may miss.
LEMMA ServedWrite ==
  ASSUME NEW i \in Nat, NEW lg \in Seq(Filters), NEW k \in ConnRec(i, Len(lg)), NEW q, NEW d \in Nat,
         Served(k, q, lg, d), Queue(q, Len(lg)), k.pc \in Writing, k.client # "stalled",
         NEW k2, k2 = [k EXCEPT !.pc = "select", !.hand = 0,
                         !.hello = IF k.pc = "hello" THEN Len(lg) ELSE @,
                         !.wire = IF k.pc = "data" /\ k.client = "ok" THEN Append(@, k.hand) ELSE @]
  PROVE  Serves(k, k2, q, i, lg, d)
<1>1. /\ k2.pc = "select" /\ k2.id = k.id /\ k2.filter = k.filter /\ k2.hand = 0
      /\ k2.client = k.client /\ k2.skip = k.skip
      /\ k2.hello = IF k.pc = "hello" THEN Len(lg) ELSE k.hello
      /\ k2.wire = IF k.pc = "data" /\ k.client = "ok" THEN Append(k.wire, k.hand) ELSE k.wire
  BY DEF ConnRec
<1>2. /\ k.wire \in Seq(1..Len(lg)) /\ k.hand \in 0..Len(lg) /\ Len(lg) \in Nat
      /\ \A x \in 1..Len(k.wire) : k.wire[x] \in 1..Len(lg)
      /\ k.hello \in 0..Len(lg) /\ k.skip \subseteq 1..Len(lg)
      /\ k.client \in {"ok", "stalled", "gone"}
  BY DEF ConnRec
<1>3. k.pc = "data" => k.hand \in 1..Len(lg)
  BY <1>2 DEF Served, InHand
<1>4. k2.wire \in Seq(1..Len(lg))
  <2>1. PICK S : S = 1..Len(lg)
    OBVIOUS
  <2>2. k.wire \in Seq(S) /\ (k.pc = "data" => k.hand \in S)
    BY <1>2, <1>3, <2>1
  <2>3. k2.wire \in Seq(S)
    BY <1>1, <2>2
  <2> QED BY <2>1, <2>3
<1>5. k2 \in ConnRec(i, Len(lg))
  <2>1. "select" \in PCs
    BY DEF PCs, InLoop
  <2>2. k2.hello \in 0..Len(lg)
    BY <1>1, <1>2
  <2>3. k2 = [pc |-> k2.pc, id |-> k2.id, filter |-> k2.filter, hand |-> k2.hand,
              client |-> k2.client, wire |-> k2.wire, skip |-> k2.skip, hello |-> k2.hello]
    BY DEF ConnRec
  <2>4. /\ k2.pc \in PCs /\ k2.id \in 0..i /\ k2.filter \in Filters /\ k2.hand \in 0..Len(lg)
        /\ k2.client \in {"ok", "stalled", "gone"} /\ k2.skip \in SUBSET (1..Len(lg))
    <3>1. /\ k.id \in 0..i /\ k.filter \in Filters /\ k.skip \in SUBSET (1..Len(lg))
          /\ 0 \in 0..Len(lg)
      BY <1>2 DEF ConnRec
    <3> QED BY <1>1, <1>2, <2>1, <3>1
  <2> QED BY <1>4, <2>2, <2>3, <2>4, Zenon DEF ConnRec
<1>6. Live(k) /\ Ahead(k, q) /\ Counted(k, q, lg, d) /\ InHand(k, lg)
  BY DEF Served, Live, Writing
<1>7. CASE k.pc = "data" /\ k.client = "ok"
  <2> DEFINE w == Append(k.wire, k.hand)
  <2>1. /\ Len(w) = Len(k.wire) + 1 /\ w[Len(k.wire) + 1] = k.hand
        /\ \A x \in 1..Len(k.wire) : w[x] = k.wire[x]
        /\ \A x \in 1..Len(w) : x \in 1..Len(k.wire) \/ x = Len(k.wire) + 1
        /\ Len(k.wire) \in Nat
    <3>1. PICK S : S = 1..Len(lg)
      OBVIOUS
    <3>2. k.wire \in Seq(S) /\ k.hand \in S
      BY <1>2, <1>3, <1>7, <3>1
    <3> QED BY <3>2
  <2>2. \A x : x \in Range(w) <=> x \in Range(k.wire) \/ x = k.hand
    BY <1>2, <1>3, <1>7, RangeSteps
  <2>3. k2.wire = w /\ k2.hello = k.hello
    BY <1>1, <1>7
  <2> HIDE DEF w
  <2>4. \A x, y \in 1..Len(w) : x < y => w[x] < w[y]
    <3> SUFFICES ASSUME NEW x \in 1..Len(w), NEW y \in 1..Len(w), x < y PROVE w[x] < w[y]
      OBVIOUS
    <3>1. x \in 1..Len(k.wire)
      BY <2>1
    <3>2. CASE y \in 1..Len(k.wire)
      BY <1>6, <2>1, <3>1, <3>2 DEF InHand, Increasing
    <3>3. CASE y = Len(k.wire) + 1
      BY <1>6, <1>7, <2>1, <3>1, <3>3 DEF InHand
    <3> QED BY <2>1, <3>2, <3>3
  <2>5. Chosen(k2, w, lg)
    <3>1. \A x \in 1..Len(k.wire) : Matches(k, KeyOf(lg[w[x]]))
      BY <1>6, <2>1 DEF InHand, Chosen
    <3>2. Matches(k, KeyOf(lg[k.hand]))
      BY <1>6, <1>7 DEF InHand
    <3> QED BY <1>1, <2>1, <3>1, <3>2 DEF Chosen, Matches
  <2>6. InHand(k2, lg)
    BY <1>1, <2>3, <2>4, <2>5 DEF InHand, Increasing
  <2>7. Ahead(k2, q)
    <3> SUFFICES ASSUME NEW x \in 1..Len(q)
                 PROVE  0 < q[x] /\ \A y \in 1..Len(w) : w[y] < q[x]
      BY <1>1, <2>3 DEF Ahead
    <3>1. k.hand < q[x] /\ \A y \in 1..Len(k.wire) : k.wire[y] < q[x]
      BY <1>6 DEF Ahead
    <3>2. q[x] \in Nat /\ q[x] > 0
      BY <1>2 DEF Queue
    <3> QED BY <2>1, <3>1, <3>2
  <2>8. \A x : x \in MissedOf(k2, q, lg) <=> x \in MissedOf(k, q, lg)
    <3>1. \A x \in k.hello + 1 .. Len(lg) : x # 0
      BY <1>2
    <3> QED BY <1>1, <2>2, <2>3, <3>1 DEF MissedOf, Matches
  <2>9. MissedOf(k2, q, lg) = MissedOf(k, q, lg)
    BY <2>8
  <2>10. Counted(k2, q, lg, d)
    BY <1>1, <1>6, <1>7, <2>9 DEF Counted, InLoop
  <2> QED BY <1>1, <1>5, <2>6, <2>7, <2>10 DEF Serves, Served
<1>8. CASE ~(k.pc = "data" /\ k.client = "ok")
  <2>1. k2.wire = k.wire
    BY <1>1, <1>8
  <2>2. InHand(k2, lg)
    BY <1>1, <1>6, <2>1 DEF InHand, Chosen, Matches
  <2>3. Ahead(k2, q)
    <3>1. \A x \in 1..Len(q) : 0 < q[x]
      BY <1>2 DEF Queue
    <3> QED BY <1>1, <1>6, <2>1, <3>1 DEF Ahead
  <2>4. CASE k.pc = "hello"
    <3>1. k2.hello = Len(lg)
      BY <1>1, <2>4
    <3>2. MissedOf(k2, q, lg) = {}
      BY <1>2, <3>1 DEF MissedOf
    <3>3. Cardinality(MissedOf(k2, q, lg)) = 0
      BY <3>2, FS_EmptySet
    <3>4. Counted(k2, q, lg, d)
      BY <3>3 DEF Counted
    <3> QED BY <1>1, <1>5, <2>2, <2>3, <3>4 DEF Serves, Served
  <2>5. CASE k.pc # "hello"
    <3>1. k.pc = "keepalive" \/ k.client = "gone"
      BY <1>2, <1>8, <2>5 DEF Writing
    <3>2. Counted(k2, q, lg, d)
      <4>1. CASE k.client = "gone"
        BY <1>1, <4>1 DEF Counted
      <4>2. CASE k.pc = "keepalive"
        <5>1. k.hand = 0 /\ k2.hello = k.hello
          BY <1>1, <1>6, <4>2 DEF InHand
        <5>2. MissedOf(k2, q, lg) = MissedOf(k, q, lg)
          BY <1>1, <2>1, <5>1 DEF MissedOf, Matches
        <5> QED BY <1>1, <1>6, <4>2, <5>2 DEF Counted, InLoop
      <4> QED BY <3>1, <4>1, <4>2
    <3> QED BY <1>1, <1>5, <2>2, <2>3, <3>2 DEF Serves, Served
  <2> QED BY <2>4, <2>5
<1> QED BY <1>7, <1>8

\* A write fails: the handler leaves, and the entry in hand is lost with the client.
LEMMA ServedFail ==
  ASSUME NEW i \in Nat, NEW lg \in Seq(Filters), NEW k \in ConnRec(i, Len(lg)), NEW q, NEW d \in Nat,
         Served(k, q, lg, d), Queue(q, Len(lg)), k.pc \in Writing,
         NEW k2, k2 = [k EXCEPT !.pc = "leaving", !.hand = 0]
  PROVE  Serves(k, k2, q, i, lg, d)
<1>1. k2 \in ConnRec(i, Len(lg))
  <2>1. "leaving" \in PCs /\ 0 \in 0..Len(lg)
    BY DEF PCs
  <2> QED BY <2>1 DEF ConnRec
<1>2. /\ k2.pc = "leaving" /\ k2.id = k.id /\ k2.filter = k.filter /\ k2.hand = 0
      /\ k2.wire = k.wire
  BY DEF ConnRec
<1>3. Live(k) /\ InHand(k, lg) /\ Ahead(k, q)
  BY DEF Served, Live, Writing
<1>4. InHand(k2, lg)
  BY <1>2, <1>3 DEF InHand, Chosen, Matches
<1>5. Ahead(k2, q)
  <2>1. \A x \in 1..Len(q) : 0 < q[x]
    BY DEF Queue
  <2> QED BY <1>2, <1>3, <2>1 DEF Ahead
<1>6. Counted(k2, q, lg, d)
  BY <1>2 DEF Counted, InLoop
<1> QED BY <1>1, <1>2, <1>4, <1>5, <1>6 DEF Serves, Served

\* Marshal fails: the entry in hand is skipped.
LEMMA ServedSkip ==
  ASSUME NEW i \in Nat, NEW lg \in Seq(Filters), NEW k \in ConnRec(i, Len(lg)), NEW q, NEW d \in Nat,
         Served(k, q, lg, d), Queue(q, Len(lg)), k.pc = "data",
         NEW k2, k2 = [k EXCEPT !.pc = "select", !.hand = 0, !.skip = @ \cup {k.hand}]
  PROVE  Serves(k, k2, q, i, lg, d)
<1>0. Live(k) /\ InHand(k, lg) /\ Ahead(k, q) /\ Counted(k, q, lg, d)
  BY DEF Served, Live
<1>1. /\ k.hand \in 1..Len(lg) /\ k.hello \in 0..Len(lg) /\ k.skip \subseteq 1..Len(lg)
      /\ Len(lg) \in Nat
  BY <1>0 DEF ConnRec, InHand
<1>2. k2 \in ConnRec(i, Len(lg))
  <2>1. "select" \in PCs /\ 0 \in 0..Len(lg) /\ k.skip \cup {k.hand} \in SUBSET (1..Len(lg))
    BY <1>1 DEF PCs, InLoop
  <2> QED BY <2>1 DEF ConnRec
<1>3. /\ k2.pc = "select" /\ k2.id = k.id /\ k2.filter = k.filter /\ k2.hand = 0
      /\ k2.wire = k.wire /\ k2.client = k.client /\ k2.hello = k.hello
      /\ k2.skip = k.skip \cup {k.hand}
  BY DEF ConnRec
<1>4. InHand(k2, lg)
  BY <1>0, <1>3 DEF InHand, Chosen, Matches
<1>5. Ahead(k2, q)
  <2>1. \A x \in 1..Len(q) : 0 < q[x]
    BY DEF Queue
  <2> QED BY <1>0, <1>3, <2>1 DEF Ahead
<1>6. \A x : x \in MissedOf(k2, q, lg) <=> x \in MissedOf(k, q, lg)
  <2>1. \A x \in k.hello + 1 .. Len(lg) : x # 0
    BY <1>1
  <2> QED BY <1>3, <2>1 DEF MissedOf, Matches
<1>7. MissedOf(k2, q, lg) = MissedOf(k, q, lg)
  BY <1>6
<1>8. Counted(k2, q, lg, d)
  BY <1>0, <1>3, <1>7 DEF Counted, InLoop
<1> QED BY <1>2, <1>3, <1>4, <1>5, <1>8 DEF Serves, Served

\* The handler takes the oldest entry from its channel.
LEMMA ServedTake ==
  ASSUME NEW i \in Nat, NEW lg \in Seq(Filters), NEW k \in ConnRec(i, Len(lg)), NEW q, NEW d \in Nat,
         Served(k, q, lg, d), Queue(q, Len(lg)), Chosen(k, q, lg), k.pc = "select", q # <<>>,
         NEW k2, k2 = [k EXCEPT !.pc = "data", !.hand = Head(q)]
  PROVE  Serves(k, k2, Tail(q), i, lg, d)
<1>0. Live(k) /\ InHand(k, lg) /\ Ahead(k, q) /\ Counted(k, q, lg, d) /\ k.hand = 0
  BY DEF Served, Live, InHand
<1>1. /\ q \in Seq(Nat) /\ Len(q) \in Nat /\ 1 \in 1..Len(q) /\ Head(q) = q[1] /\ q[1] \in 1..Len(lg)
      /\ Len(lg) \in Nat
      /\ \A x \in 1..Len(Tail(q)) : x + 1 \in 1..Len(q) /\ 1 < x + 1 /\ Tail(q)[x] = q[x + 1]
  BY DEF Queue
<1>2. k2 \in ConnRec(i, Len(lg))
  <2>1. "data" \in PCs /\ Head(q) \in 0..Len(lg)
    BY <1>1 DEF PCs, InLoop
  <2> QED BY <2>1 DEF ConnRec
<1>3. /\ k2.pc = "data" /\ k2.id = k.id /\ k2.filter = k.filter /\ k2.hand = q[1]
      /\ k2.wire = k.wire /\ k2.client = k.client /\ k2.hello = k.hello /\ k2.skip = k.skip
  BY <1>1 DEF ConnRec
<1>4. InHand(k2, lg)
  <2>1. Matches(k, KeyOf(lg[q[1]]))
    BY <1>1 DEF Chosen
  <2>2. \A x \in 1..Len(k.wire) : k.wire[x] < q[1]
    BY <1>0, <1>1 DEF Ahead
  <2> QED BY <1>0, <1>1, <1>3, <2>1, <2>2 DEF InHand, Chosen, Matches
<1>5. Ahead(k2, Tail(q))
  <2>1. \A x \in 1..Len(Tail(q)) : q[1] < Tail(q)[x]
    BY <1>1 DEF Queue, Increasing
  <2>2. \A x \in 1..Len(Tail(q)) : \A y \in 1..Len(k.wire) : k.wire[y] < Tail(q)[x]
    BY <1>0, <1>1 DEF Ahead
  <2> QED BY <1>3, <2>1, <2>2 DEF Ahead
<1>6. \A x : x \in MissedOf(k2, Tail(q), lg) <=> x \in MissedOf(k, q, lg)
  <2>1. \A x : x \in Range(q) <=> x \in Range(Tail(q)) \/ x = q[1]
    <3>1. 0 \in Nat
      OBVIOUS
    <3> QED BY <1>1, <3>1, RangeSteps
  <2>2. \A x \in k.hello + 1 .. Len(lg) : x # 0
    BY DEF ConnRec
  <2> QED BY <1>0, <1>3, <2>1, <2>2 DEF MissedOf, Matches
<1>7. MissedOf(k2, Tail(q), lg) = MissedOf(k, q, lg)
  BY <1>6
<1>8. Counted(k2, Tail(q), lg, d)
  BY <1>0, <1>3, <1>7 DEF Counted, InLoop
<1> QED BY <1>2, <1>3, <1>4, <1>5, <1>8 DEF Serves, Served

-----------------------------------------------------------------------------
(* All connections and the hub *)

ConnsOK == sseShutdown \in BOOLEAN /\ conn \in [Conns -> ConnRec(nextID, Len(log))]

\* SubscriptionsAreHandlers, connection by connection.
Linked ==
  /\ \A id \in DOMAIN subs : \E c \in Conns : Live(conn[c]) /\ conn[c].id = id
  /\ \A c \in Conns : Live(conn[c]) =>
       conn[c].id \in DOMAIN subs /\ subs[conn[c].id].filter = conn[c].filter
  /\ \A c, e \in Conns : Live(conn[c]) /\ Live(conn[e]) /\ c # e => conn[c].id # conn[e].id

AllServed == \A c \in Conns : Served(conn[c], subs[conn[c].id].ch, log, drops[conn[c].filter])

ConnInv == ConnsOK /\ Linked /\ AllServed

StreamInv == HubInv /\ Selected /\ ConnInv

\* To the hub, a step of the stream is a call of one of its methods, or nothing.
LEMMA StreamStepsHub ==
  ASSUME [StreamNext]_streamVars
  PROVE  [HubNext]_hubVars
<1>1. CASE UNCHANGED streamVars
  BY <1>1 DEF streamVars
<1>2. CASE CloseSSE
  BY <1>2 DEF CloseSSE
<1>3. CASE Backend
  BY <1>3 DEF Backend, HubNext
<1>4. CASE \E c \in Conns : Stall(c) \/ Resume(c) \/ Hangup(c)
  BY <1>4 DEF Stall, Resume, Hangup, SetClient
<1>5. ASSUME NEW c \in Conns, Handler(c) PROVE [HubNext]_hubVars
  <2>1. CASE Refuse(c) \/ WriteOK(c) \/ WriteFail(c) \/ SeeHangup(c) \/ SeeShutdown(c) \/ Tick(c) \/ Skip(c)
    BY <2>1 DEF Refuse, WriteOK, WriteFail, SeeHangup, SeeShutdown, Tick, Skip
  <2>2. CASE Leave(c)
    <3>1. Unsubscribe(conn[c].id) /\ conn[c].id \in DOMAIN subs
      BY <2>2 DEF Leave, Unsubscribe
    <3> QED BY <3>1 DEF HubNext
  <2>3. CASE Take(c)
    <3>1. Receive(conn[c].id) /\ conn[c].id \in DOMAIN subs
      BY <2>3 DEF Take, Receive
    <3> QED BY <3>1 DEF HubNext
  <2>4. CASE \E f \in Asked : Accept(c, f)
    <3>1. PICK f \in Asked : Subscribe(f)
      BY <2>4 DEF Accept
    <3>2. f \in Filters
      BY StreamAssumption
    <3> QED BY <3>1, <3>2 DEF HubNext
  <2> QED BY <1>5, <2>1, <2>2, <2>3, <2>4 DEF Handler
<1> QED BY <1>1, <1>2, <1>3, <1>4, <1>5 DEF StreamNext

\* What the invariant says of one connection.
LEMMA ConnFacts ==
  ASSUME StreamInv, NEW c \in Conns
  PROVE  /\ nextID \in Nat /\ log \in Seq(Filters) /\ Len(log) \in Nat
         /\ conn[c] \in ConnRec(nextID, Len(log))
         /\ Served(conn[c], subs[conn[c].id].ch, log, drops[conn[c].filter])
         /\ drops[conn[c].filter] \in Nat
         /\ Live(conn[c]) => /\ conn[c].id \in DOMAIN subs
                             /\ subs[conn[c].id].filter = conn[c].filter
                             /\ GoodSub(subs[conn[c].id], Len(log))
                             /\ Chosen(conn[c], subs[conn[c].id].ch, log)
<1>1. SubsOK /\ HistoryOK
  BY Regroup DEF StreamInv
<1>2. nextID \in Nat /\ log \in Seq(Filters) /\ Len(log) \in Nat /\ drops \in [Filters -> Nat]
  BY <1>1, HubAssumption DEF SubsOK, HistoryOK
<1>3. conn[c] \in ConnRec(nextID, Len(log))
  BY DEF StreamInv, ConnInv, ConnsOK
<1>4. conn[c].filter \in Filters
  BY <1>3 DEF ConnRec
<1>5. ASSUME Live(conn[c])
      PROVE  /\ conn[c].id \in DOMAIN subs
             /\ subs[conn[c].id].filter = conn[c].filter
             /\ GoodSub(subs[conn[c].id], Len(log))
             /\ Chosen(conn[c], subs[conn[c].id].ch, log)
  <2>1. conn[c].id \in DOMAIN subs /\ subs[conn[c].id].filter = conn[c].filter
    BY <1>5 DEF StreamInv, ConnInv, Linked
  <2>2. GoodSub(subs[conn[c].id], Len(log))
    BY <1>1, <2>1 DEF SubsOK
  <2>3. Chosen(subs[conn[c].id], subs[conn[c].id].ch, log)
    BY <2>1 DEF StreamInv, Selected
  <2> QED BY <2>1, <2>2, <2>3 DEF Chosen, Matches
<1>6. Served(conn[c], subs[conn[c].id].ch, log, drops[conn[c].filter])
  BY DEF StreamInv, ConnInv, AllServed
<1> QED BY <1>2, <1>3, <1>4, <1>5, <1>6

\* A step of one connection alone.
LEMMA OneConn ==
  ASSUME StreamInv, NEW c \in Conns, NEW k2, conn' = [conn EXCEPT ![c] = k2],
         UNCHANGED <<hubVars, sseShutdown>>, Live(k2) <=> Live(conn[c]),
         Serves(conn[c], k2, subs[conn[c].id].ch, nextID, log, drops[conn[c].filter])
  PROVE  ConnInv'
<1>1. UNCHANGED <<subs, nextID, retained, drops, log, read>> /\ sseShutdown' = sseShutdown
  BY DEF hubVars
<1>2. ConnsOK /\ Linked /\ AllServed
  BY DEF StreamInv, ConnInv
<1>3. /\ k2 \in ConnRec(nextID, Len(log)) /\ k2.id = conn[c].id /\ k2.filter = conn[c].filter
      /\ Served(k2, subs[conn[c].id].ch, log, drops[conn[c].filter])
  BY DEF Serves
<1>4. conn'[c] = k2 /\ \A e \in Conns : e # c => conn'[e] = conn[e]
  BY <1>2 DEF ConnsOK
<1>5. ConnsOK'
  BY <1>1, <1>2, <1>3 DEF ConnsOK
<1>6. \A e \in Conns : /\ Live(conn'[e]) <=> Live(conn[e])
                       /\ conn'[e].id = conn[e].id /\ conn'[e].filter = conn[e].filter
  BY <1>3, <1>4
<1>7. Linked'
  BY <1>1, <1>2, <1>6 DEF Linked
<1>8. AllServed'
  BY <1>1, <1>2, <1>3, <1>4 DEF AllServed
<1> QED BY <1>5, <1>7, <1>8 DEF ConnInv

\* The steps of a handler that do not touch the hub, and those of its client.
LEMMA ConnSteps ==
  ASSUME StreamInv, NEW c \in Conns,
         \/ Refuse(c) \/ WriteOK(c) \/ WriteFail(c) \/ SeeHangup(c) \/ SeeShutdown(c)
         \/ Tick(c) \/ Skip(c) \/ Stall(c) \/ Resume(c) \/ Hangup(c)
  PROVE  ConnInv'
<1>1. PICK k, q, d : k = conn[c] /\ q = subs[conn[c].id].ch /\ d = drops[conn[c].filter]
  OBVIOUS
<1>2. /\ nextID \in Nat /\ log \in Seq(Filters) /\ Len(log) \in Nat
      /\ k \in ConnRec(nextID, Len(log)) /\ Served(k, q, log, d) /\ d \in Nat
      /\ Live(k) => Queue(q, Len(log))
  BY <1>1, ConnFacts DEF GoodSub
<1>3. conn \in [Conns -> ConnRec(nextID, Len(log))]
  BY DEF StreamInv, ConnInv, ConnsOK
<1>4. ASSUME NEW p \in {"done", "leaving", "keepalive"},
             conn' = [conn EXCEPT ![c].pc = p], UNCHANGED <<hubVars, sseShutdown>>,
             \/ k.pc = "idle" /\ p = "done"
             \/ k.pc = "select" /\ p # "done"
      PROVE  ConnInv'
  <2>1. PICK k2 : k2 = [k EXCEPT !.pc = p]
    OBVIOUS
  <2>2. conn' = [conn EXCEPT ![c] = k2]
    BY <1>1, <1>3, <1>4, <2>1
  <2>3. p \in PCs /\ p \notin {"data", "idle"} /\ k.pc # "data"
        /\ (p \in InLoop => k.pc \in InLoop) /\ (p # "done" => Live(k))
    BY <1>4 DEF PCs, InLoop, Writing, Live
  <2>4. Serves(k, k2, q, nextID, log, d)
    BY <1>2, <2>1, <2>3, ServedMove
  <2>5. Live(k2) <=> Live(k)
    BY <1>2, <1>4, <2>1 DEF Live, ConnRec
  <2> QED BY <1>1, <1>4, <2>2, <2>4, <2>5, OneConn
<1>5. CASE Refuse(c)
  BY <1>1, <1>4, <1>5 DEF Refuse
<1>6. CASE SeeHangup(c)
  BY <1>1, <1>4, <1>6 DEF SeeHangup
<1>7. CASE SeeShutdown(c)
  BY <1>1, <1>4, <1>7 DEF SeeShutdown
<1>8. CASE Tick(c)
  BY <1>1, <1>4, <1>8 DEF Tick
<1>9. CASE WriteOK(c)
  <2>1. PICK k2 : k2 = [k EXCEPT !.pc = "select", !.hand = 0,
                         !.hello = IF k.pc = "hello" THEN Len(log) ELSE @,
                         !.wire = IF k.pc = "data" /\ k.client = "ok" THEN Append(@, k.hand) ELSE @]
    OBVIOUS
  <2>2. conn' = [conn EXCEPT ![c] = k2] /\ UNCHANGED <<hubVars, sseShutdown>>
        /\ k.pc \in Writing /\ k.client # "stalled"
    BY <1>1, <1>3, <1>9, <2>1 DEF WriteOK
  <2>3. Live(k)
    BY <2>2 DEF Live, Writing
  <2>4. Serves(k, k2, q, nextID, log, d)
    BY <1>2, <2>1, <2>2, <2>3, ServedWrite
  <2>5. Live(k2)
    BY <1>2, <2>1 DEF Live, ConnRec
  <2> QED BY <1>1, <2>2, <2>3, <2>4, <2>5, OneConn
<1>10. CASE WriteFail(c)
  <2>1. PICK k2 : k2 = [k EXCEPT !.pc = "leaving", !.hand = 0]
    OBVIOUS
  <2>2. conn' = [conn EXCEPT ![c] = k2] /\ UNCHANGED <<hubVars, sseShutdown>> /\ k.pc \in Writing
    BY <1>1, <1>3, <1>10, <2>1 DEF WriteFail
  <2>3. Live(k)
    BY <2>2 DEF Live, Writing
  <2>4. Serves(k, k2, q, nextID, log, d)
    BY <1>2, <2>1, <2>2, <2>3, ServedFail
  <2>5. Live(k2)
    BY <1>2, <2>1 DEF Live, ConnRec
  <2> QED BY <1>1, <2>2, <2>3, <2>4, <2>5, OneConn
<1>11. CASE Skip(c)
  <2>1. PICK k2 : k2 = [k EXCEPT !.pc = "select", !.hand = 0, !.skip = @ \cup {k.hand}]
    OBVIOUS
  <2>2. conn' = [conn EXCEPT ![c] = k2] /\ UNCHANGED <<hubVars, sseShutdown>> /\ k.pc = "data"
    BY <1>1, <1>3, <1>11, <2>1 DEF Skip
  <2>3. Live(k)
    BY <2>2 DEF Live
  <2>4. Serves(k, k2, q, nextID, log, d)
    BY <1>2, <2>1, <2>2, <2>3, ServedSkip
  <2>5. Live(k2)
    BY <1>2, <2>1 DEF Live, ConnRec
  <2> QED BY <1>1, <2>2, <2>3, <2>4, <2>5, OneConn
<1>12. CASE Stall(c) \/ Resume(c) \/ Hangup(c)
  <2>1. PICK to \in {"ok", "stalled", "gone"} : conn' = [conn EXCEPT ![c].client = to]
    BY <1>12 DEF Stall, Resume, Hangup, SetClient
  <2>2. UNCHANGED <<hubVars, sseShutdown>> /\ k.client # "gone"
    BY <1>1, <1>12 DEF Stall, Resume, Hangup, SetClient
  <2>3. PICK k2 : k2 = [k EXCEPT !.client = to]
    OBVIOUS
  <2>4. conn' = [conn EXCEPT ![c] = k2]
    BY <1>1, <1>3, <2>1, <2>3
  <2>5. Serves(k, k2, q, nextID, log, d)
    BY <1>2, <2>2, <2>3, ServedClient
  <2>6. Live(k2) <=> Live(k)
    BY <1>2, <2>3 DEF Live, ConnRec
  <2> QED BY <1>1, <2>2, <2>4, <2>5, <2>6, OneConn
<1> QED BY <1>5, <1>6, <1>7, <1>8, <1>9, <1>10, <1>11, <1>12

\* A connection that a step leaves alone, whose channel is as it was.
LEMMA ServedKeep ==
  ASSUME StreamInv, NEW e \in Conns, conn'[e] = conn[e], log' = log,
         drops'[conn[e].filter] \in Nat, drops[conn[e].filter] <= drops'[conn[e].filter],
         Live(conn[e]) => subs'[conn[e].id].ch = subs[conn[e].id].ch
  PROVE  Served(conn'[e], subs'[conn'[e].id].ch, log', drops'[conn'[e].filter])
<1>1. PICK k, q, q2, d, d2 : /\ k = conn[e] /\ q = subs[conn[e].id].ch /\ d = drops[conn[e].filter]
                             /\ q2 = subs'[conn[e].id].ch /\ d2 = drops'[conn[e].filter]
  OBVIOUS
<1>2. /\ nextID \in Nat /\ log \in Seq(Filters) /\ k \in ConnRec(nextID, Len(log))
      /\ Served(k, q, log, d) /\ d \in Nat /\ d2 \in Nat /\ d <= d2
  BY <1>1, ConnFacts
<1>3. Served(k, q, log, d2)
  BY <1>2, ServedMore
<1>4. Served(k, q2, log, d2)
  BY <1>1, <1>3 DEF Served
<1> QED BY <1>1, <1>4

\* The handler receives from its channel.
LEMMA TakeStep ==
  ASSUME StreamInv, NEW c \in Conns, Take(c)
  PROVE  ConnInv'
<1>1. PICK k, q, d, id : /\ k = conn[c] /\ q = subs[conn[c].id].ch /\ d = drops[conn[c].filter]
                         /\ id = conn[c].id
  OBVIOUS
<1>2. /\ k.pc = "select" /\ id \in DOMAIN subs /\ q # <<>> /\ sseShutdown' = sseShutdown
      /\ subs' = [subs EXCEPT ![id].ch = Tail(@)]
      /\ UNCHANGED <<nextID, retained, drops, log>>
      /\ conn' = [conn EXCEPT ![c].pc = "data", ![c].hand = Head(q)]
  BY <1>1 DEF Take, Receive
<1>3. Live(k)
  BY <1>2 DEF Live
<1>4. /\ nextID \in Nat /\ log \in Seq(Filters) /\ Len(log) \in Nat
      /\ k \in ConnRec(nextID, Len(log)) /\ Served(k, q, log, d) /\ d \in Nat
      /\ GoodSub(subs[id], Len(log)) /\ Queue(q, Len(log)) /\ Chosen(k, q, log)
  BY <1>1, <1>3, ConnFacts DEF GoodSub
<1>5. ConnsOK /\ Linked /\ SubsOK
  BY Regroup DEF StreamInv, ConnInv
<1>6. PICK k2 : k2 = [k EXCEPT !.pc = "data", !.hand = Head(q)]
  OBVIOUS
<1>7. conn' = [conn EXCEPT ![c] = k2]
  BY <1>1, <1>2, <1>5, <1>6 DEF ConnsOK
<1>8. Serves(k, k2, Tail(q), nextID, log, d)
  BY <1>2, <1>4, <1>6, ServedTake
<1>9. /\ k2 \in ConnRec(nextID, Len(log)) /\ k2.id = id /\ k2.filter = k.filter
      /\ Served(k2, Tail(q), log, d) /\ Live(k2)
  <2>1. k2.pc = "data"
    BY <1>4, <1>6 DEF ConnRec
  <2> QED BY <1>1, <1>8, <2>1 DEF Serves, Live
<1>10. conn'[c] = k2 /\ \A e \in Conns : e # c => conn'[e] = conn[e]
  BY <1>5, <1>7 DEF ConnsOK
<1>11. /\ DOMAIN subs' = DOMAIN subs /\ subs'[id].filter = subs[id].filter /\ subs'[id].ch = Tail(q)
       /\ \A x \in DOMAIN subs : x # id => subs'[x] = subs[x]
  BY <1>1, <1>2, <1>4 DEF GoodSub, Sub
<1>12. ConnsOK'
  BY <1>2, <1>5, <1>7, <1>9 DEF ConnsOK
<1>13. \A e \in Conns : /\ Live(conn'[e]) <=> Live(conn[e])
                        /\ conn'[e].id = conn[e].id /\ conn'[e].filter = conn[e].filter
  BY <1>1, <1>3, <1>9, <1>10
<1>14. Linked'
  <2>1. \A x \in DOMAIN subs : subs'[x].filter = subs[x].filter
    BY <1>11
  <2> QED BY <1>5, <1>11, <1>13, <2>1 DEF Linked
<1>15. AllServed'
  <2> SUFFICES ASSUME NEW e \in Conns
               PROVE  Served(conn'[e], subs'[conn'[e].id].ch, log', drops'[conn'[e].filter])
    BY DEF AllServed
  <2>1. CASE e = c
    BY <1>1, <1>2, <1>9, <1>10, <1>11, <2>1
  <2>2. CASE e # c
    <3>1. Live(conn[e]) => subs'[conn[e].id].ch = subs[conn[e].id].ch
      BY <1>1, <1>3, <1>5, <1>11, <2>2 DEF Linked
    <3>2. drops[conn[e].filter] \in Nat /\ drops' = drops /\ log' = log
      BY <1>2, ConnFacts
    <3> QED BY <1>10, <2>2, <3>1, <3>2, ServedKeep
  <2> QED BY <2>1, <2>2
<1> QED BY <1>12, <1>14, <1>15 DEF ConnInv

\* A request is accepted: its subscription is new, and nothing was sent yet.
LEMMA AcceptStep ==
  ASSUME StreamInv, HubInv', NEW c \in Conns, NEW f \in Filters, Accept(c, f)
  PROVE  ConnInv'
<1>1. PICK k, id : k = conn[c] /\ id = nextID + 1
  OBVIOUS
<1>2. /\ k.pc = "idle" /\ nextID' = id /\ UNCHANGED <<drops, log, read>> /\ sseShutdown' = sseShutdown
      /\ conn' = [conn EXCEPT ![c].pc = "hello", ![c].id = id, ![c].filter = f]
      /\ subs' = Put(subs, id, [filter |-> f, ch |-> Held(f), cap |-> ChanCap(Held(f)), since |-> Len(log)])
  BY <1>1 DEF Accept, Subscribe
<1>3. /\ nextID \in Nat /\ log \in Seq(Filters) /\ Len(log) \in Nat
      /\ k \in ConnRec(nextID, Len(log))
      /\ Served(k, subs[conn[c].id].ch, log, drops[conn[c].filter])
  BY <1>1, ConnFacts
<1>4. ConnsOK /\ Linked /\ SubsOK /\ HistoryOK
  BY Regroup DEF StreamInv, ConnInv
<1>5. SubsOK'
  BY Regroup, PTL
<1>6. id \in Nat /\ id \notin DOMAIN subs /\ nextID <= id
  BY <1>1, <1>3, <1>4 DEF SubsOK
<1>7. /\ DOMAIN subs' = DOMAIN subs \cup {id} /\ subs'[id].filter = f
      /\ \A x \in DOMAIN subs : subs'[x] = subs[x]
  BY <1>2, <1>6 DEF Put
<1>8. Queue(subs'[id].ch, Len(log))
  BY <1>2, <1>5, <1>7 DEF SubsOK, GoodSub
<1>9. PICK k2 : k2 = [k EXCEPT !.pc = "hello", !.id = id, !.filter = f]
  OBVIOUS
<1>10. conn' = [conn EXCEPT ![c] = k2]
  BY <1>1, <1>2, <1>4, <1>9 DEF ConnsOK
<1>11. k \in ConnRec(id, Len(log)) /\ \A e \in Conns : conn[e] \in ConnRec(id, Len(log))
  BY <1>3, <1>4, <1>6, ConnRecGrow DEF ConnsOK
<1>12. k2 \in ConnRec(id, Len(log))
  <2>1. "hello" \in PCs /\ id \in 0..id
    BY <1>6 DEF PCs, Writing
  <2> QED BY <1>9, <1>11, <2>1 DEF ConnRec
<1>13. /\ k2.pc = "hello" /\ k2.id = id /\ k2.filter = f
       /\ k2.hand = 0 /\ k2.wire = <<>>
  <2>1. k.hand = 0 /\ k.wire = <<>>
    BY <1>2, <1>3 DEF Served, InHand
  <2> QED BY <1>3, <1>9, <2>1 DEF ConnRec
<1>14. ASSUME NEW q, NEW d, Queue(q, Len(log)) PROVE Served(k2, q, log, d)
  <2>1. InHand(k2, log)
    BY <1>13 DEF InHand, Chosen, Increasing
  <2>2. Ahead(k2, q)
    <3>1. \A x \in 1..Len(q) : 0 < q[x]
      BY <1>14 DEF Queue
    <3> QED BY <1>13, <3>1 DEF Ahead
  <2>3. Counted(k2, q, log, d)
    BY <1>13 DEF Counted, InLoop
  <2> QED BY <2>1, <2>2, <2>3 DEF Served
<1>15. conn'[c] = k2 /\ \A e \in Conns : e # c => conn'[e] = conn[e]
  BY <1>4, <1>10 DEF ConnsOK
<1>16. ConnsOK'
  <2>1. conn' \in [Conns -> ConnRec(id, Len(log))]
    <3>1. conn \in [Conns -> ConnRec(id, Len(log))]
      BY <1>4, <1>11 DEF ConnsOK
    <3> QED BY <1>10, <1>12, <3>1
  <2> QED BY <1>2, <1>4, <2>1 DEF ConnsOK
<1>17. Live(k2) /\ ~Live(k)
  BY <1>2, <1>13 DEF Live
<1>18. Linked'
  <2>1. ASSUME NEW x \in DOMAIN subs' PROVE \E e \in Conns : Live(conn'[e]) /\ conn'[e].id = x
    <3>1. CASE x = id
      BY <1>13, <1>15, <1>17, <3>1
    <3>2. CASE x \in DOMAIN subs
      <4>1. PICK e \in Conns : Live(conn[e]) /\ conn[e].id = x
        BY <1>4, <3>2 DEF Linked
      <4>2. e # c
        BY <1>1, <1>17, <4>1
      <4> QED BY <1>15, <4>1, <4>2
    <3> QED BY <1>7, <3>1, <3>2
  <2>2. ASSUME NEW e \in Conns, Live(conn'[e])
        PROVE  conn'[e].id \in DOMAIN subs' /\ subs'[conn'[e].id].filter = conn'[e].filter
    <3>1. CASE e = c
      BY <1>7, <1>13, <1>15, <3>1
    <3>2. CASE e # c
      <4>1. conn'[e] = conn[e] /\ conn[e].id \in DOMAIN subs
            /\ subs[conn[e].id].filter = conn[e].filter
        BY <1>4, <1>15, <2>2, <3>2 DEF Linked
      <4> QED BY <1>7, <4>1
    <3> QED BY <3>1, <3>2
  <2>3. ASSUME NEW e \in Conns, NEW g \in Conns, Live(conn'[e]), Live(conn'[g]), e # g
        PROVE  conn'[e].id # conn'[g].id
    <3>1. \A x \in Conns : x # c /\ Live(conn'[x]) => conn'[x] = conn[x] /\ conn[x].id \in DOMAIN subs
      BY <1>4, <1>15 DEF Linked
    <3>2. CASE e = c
      BY <1>6, <1>13, <1>15, <2>3, <3>1, <3>2
    <3>3. CASE g = c
      BY <1>6, <1>13, <1>15, <2>3, <3>1, <3>3
    <3>4. CASE e # c /\ g # c
      BY <1>4, <1>15, <2>3, <3>4 DEF Linked
    <3> QED BY <3>2, <3>3, <3>4
  <2> QED BY <2>1, <2>2, <2>3 DEF Linked
<1>19. AllServed'
  <2> SUFFICES ASSUME NEW e \in Conns
               PROVE  Served(conn'[e], subs'[conn'[e].id].ch, log', drops'[conn'[e].filter])
    BY DEF AllServed
  <2>1. CASE e = c
    <3>1. Served(k2, subs'[id].ch, log, drops'[f])
      BY <1>8, <1>14
    <3> QED BY <1>2, <1>13, <1>15, <2>1, <3>1
  <2>2. CASE e # c
    <3>1. Live(conn[e]) => subs'[conn[e].id].ch = subs[conn[e].id].ch
      BY <1>4, <1>7 DEF Linked
    <3>2. drops[conn[e].filter] \in Nat /\ drops' = drops /\ log' = log
      BY <1>2, ConnFacts
    <3> QED BY <1>15, <2>2, <3>1, <3>2, ServedKeep
  <2> QED BY <2>1, <2>2
<1> QED BY <1>16, <1>18, <1>19 DEF ConnInv

\* The handler returns and gives its subscription back.
LEMMA LeaveStep ==
  ASSUME StreamInv, HubInv', NEW c \in Conns, Leave(c)
  PROVE  ConnInv'
<1>1. PICK k, q, d, id : /\ k = conn[c] /\ q = subs[conn[c].id].ch /\ d = drops[conn[c].filter]
                         /\ id = conn[c].id
  OBVIOUS
<1>2. /\ k.pc = "leaving" /\ Unsubscribe(id) /\ id \in DOMAIN subs
      /\ conn' = [conn EXCEPT ![c].pc = "done"] /\ sseShutdown' = sseShutdown
      /\ UNCHANGED <<nextID, log, read>>
  BY <1>1 DEF Leave, Unsubscribe
<1>3. Live(k)
  BY <1>2 DEF Live
<1>4. /\ nextID \in Nat /\ log \in Seq(Filters) /\ Len(log) \in Nat
      /\ k \in ConnRec(nextID, Len(log)) /\ Served(k, q, log, d) /\ d \in Nat
      /\ GoodSub(subs[id], Len(log))
  BY <1>1, <1>3, ConnFacts
<1>5. ConnsOK /\ Linked /\ SubsOK /\ BacklogOnlyWhenDetached /\ HistoryOK
  BY Regroup DEF StreamInv, ConnInv
<1>6. DOMAIN subs' = DOMAIN subs \ {id} /\ \A x \in DOMAIN subs' : subs'[x] = subs[x]
  BY <1>2 DEF Unsubscribe, Delete, Restrict
<1>7. \A f \in Filters : drops[f] \in Nat /\ drops'[f] \in Nat /\ drops[f] <= drops'[f]
  <2>1. HistoryOK'
    BY Regroup, PTL
  <2>2. CASE drops' = drops
    BY <1>5, <2>2 DEF HistoryOK
  <2>3. CASE /\ subs[id].filter \in DOMAIN retained
             /\ drops' = [drops EXCEPT ![subs[id].filter] = @ + Excess(subs[id].ch \o retained[subs[id].filter])]
    <3>1. retained[subs[id].filter] = <<>>
      BY <1>2, <1>5, <2>3 DEF BacklogOnlyWhenDetached, Holds
    <3>2. Excess(subs[id].ch \o <<>>) \in Nat
      BY <1>4, RequeueAlone DEF GoodSub
    <3>3. drops' = [drops EXCEPT ![subs[id].filter] = @ + Excess(subs[id].ch \o <<>>)]
      BY <2>3, <3>1
    <3>4. PICK g, x : g = subs[id].filter /\ x = Excess(subs[id].ch \o <<>>)
      OBVIOUS
    <3>5. x \in Nat /\ drops' = [drops EXCEPT ![g] = @ + x] /\ drops \in [Filters -> Nat]
      BY <1>5, <3>2, <3>3, <3>4 DEF HistoryOK
    <3> QED BY <3>5
  <2> QED BY <1>2, <2>2, <2>3 DEF Unsubscribe
<1>8. PICK k2 : k2 = [k EXCEPT !.pc = "done"]
  OBVIOUS
<1>9. conn' = [conn EXCEPT ![c] = k2]
  BY <1>1, <1>2, <1>5, <1>8 DEF ConnsOK
<1>10. Serves(k, k2, q, nextID, log, d)
  <2>1. "done" \in PCs /\ "done" \notin {"data", "idle"} /\ "done" \notin InLoop /\ k.pc # "data"
    BY <1>2 DEF PCs, InLoop
  <2> QED BY <1>4, <1>8, <2>1, ServedMove
<1>11. k2 \in ConnRec(nextID, Len(log)) /\ Served(k2, q, log, d) /\ ~Live(k2)
  <2>1. k2.pc = "done"
    BY <1>4, <1>8 DEF ConnRec
  <2> QED BY <1>10, <2>1 DEF Serves, Live
<1>12. conn'[c] = k2 /\ \A e \in Conns : e # c => conn'[e] = conn[e]
  BY <1>5, <1>9 DEF ConnsOK
<1>13. ConnsOK'
  BY <1>2, <1>5, <1>9, <1>11 DEF ConnsOK
<1>14. Linked'
  <2>1. ASSUME NEW x \in DOMAIN subs' PROVE \E e \in Conns : Live(conn'[e]) /\ conn'[e].id = x
    <3>1. PICK e \in Conns : Live(conn[e]) /\ conn[e].id = x
      BY <1>5, <1>6 DEF Linked
    <3>2. e # c
      BY <1>1, <1>6, <3>1
    <3> QED BY <1>12, <3>1, <3>2
  <2>2. ASSUME NEW e \in Conns, Live(conn'[e])
        PROVE  conn'[e].id \in DOMAIN subs' /\ subs'[conn'[e].id].filter = conn'[e].filter
    <3>1. e # c /\ conn'[e] = conn[e]
      BY <1>11, <1>12, <2>2
    <3>2. conn[e].id \in DOMAIN subs /\ subs[conn[e].id].filter = conn[e].filter /\ conn[e].id # id
      BY <1>1, <1>3, <1>5, <2>2, <3>1 DEF Linked
    <3> QED BY <1>6, <3>1, <3>2
  <2>3. ASSUME NEW e \in Conns, NEW g \in Conns, Live(conn'[e]), Live(conn'[g]), e # g
        PROVE  conn'[e].id # conn'[g].id
    BY <1>5, <1>11, <1>12, <2>3 DEF Linked
  <2> QED BY <2>1, <2>2, <2>3 DEF Linked
<1>15. AllServed'
  <2> SUFFICES ASSUME NEW e \in Conns
               PROVE  Served(conn'[e], subs'[conn'[e].id].ch, log', drops'[conn'[e].filter])
    BY DEF AllServed
  <2>1. CASE e = c
    <3>1. \A q2, d2 : Served(k2, q2, log, d2)
      BY <1>11 DEF Served
    <3> QED BY <1>2, <1>12, <2>1, <3>1
  <2>2. CASE e # c
    <3>1. Live(conn[e]) => subs'[conn[e].id].ch = subs[conn[e].id].ch
      BY <1>1, <1>3, <1>5, <1>6, <2>2 DEF Linked
    <3>2. conn[e].filter \in Filters
      BY <1>5 DEF ConnsOK, ConnRec
    <3> QED BY <1>2, <1>7, <1>12, <2>2, <3>1, <3>2, ServedKeep
  <2> QED BY <2>1, <2>2
<1> QED BY <1>13, <1>14, <1>15 DEF ConnInv

\* The drops a Publish counts for a filter: at least one when it passes a full
\* channel of that filter by.
LEMMA PassedByCounts ==
  ASSUME HubInv, NEW f, NEW key
  PROVE  /\ DropsAt(f, key) \in Nat
         /\ \A id \in Recipients(key) \cap Full : subs[id].filter = f => DropsAt(f, key) >= 1
<1> DEFINE S == {x \in Recipients(key) \cap Full : subs[x].filter = f}
<1>1. DOMAIN subs \subseteq 1..nextID /\ nextID \in Int /\ 1 \in Int
  BY Regroup, HubAssumption DEF SubsOK
<1>2. IsFiniteSet(1..nextID)
  BY ONLY <1>1, FS_Interval
<1>3. S \in SUBSET (1..nextID)
  BY <1>1 DEF Recipients
<1>4. (\E id \in Recipients(key) \cap Full : subs[id].filter = f) => S # {}
  OBVIOUS
<1>5. Cardinality(S) \in Nat /\ (S # {} => Cardinality(S) >= 1)
  <2> HIDE DEF S
  <2>1. IsFiniteSet(S)
    BY <1>2, <1>3, FS_Subset
  <2>2. Cardinality(S) \in Nat /\ (S # {} => Cardinality(S) # 0)
    BY <2>1, FS_CardinalityType, FS_EmptySet
  <2> QED BY <2>2
<1> QED BY <1>4, <1>5 DEF DropsAt

\* The backend publishes, retains or releases.
LEMMA BackendStep ==
  ASSUME StreamInv, HubInv', Backend
  PROVE  ConnInv'
<1>1. conn' = conn /\ sseShutdown' = sseShutdown
  BY DEF Backend
<1>2. ConnsOK /\ Linked /\ SubsOK /\ HistoryOK /\ nextID \in Nat /\ Len(log) \in Nat
  BY Regroup, HubAssumption DEF StreamInv, ConnInv, SubsOK, HistoryOK
<1>3. CASE \E k \in Keys : Retain(k) \/ Release(k)
  <2>1. UNCHANGED <<subs, nextID, drops, log>>
    BY <1>3 DEF Retain, Release
  <2> QED BY <1>1, <2>1 DEF StreamInv, ConnInv, ConnsOK, Linked, AllServed
<1>4. CASE \E f \in Filters : Publish(f)
  <2>1. PICK f \in Filters : Publish(f)
    BY <1>4
  <2>2. PICK n, key : n = Len(log) + 1 /\ key = KeyOf(f)
    OBVIOUS
  <2>3. /\ log' = Append(log, f) /\ nextID' = nextID /\ Len(log') = n /\ n \in Nat /\ Len(log) <= n
    BY <1>2, <2>1, <2>2 DEF Publish, HistoryOK
  <2>4. /\ DOMAIN subs' = DOMAIN subs
        /\ \A id \in DOMAIN subs :
             subs'[id] = IF id \in Recipients(key) \ Full
                         THEN [subs[id] EXCEPT !.ch = Append(@, n)] ELSE subs[id]
    BY <2>1, <2>2 DEF Publish
  <2>5. \A id \in DOMAIN subs :
          /\ subs'[id].filter = subs[id].filter
          /\ subs'[id].ch = IF id \in Recipients(key) \ Full
                            THEN Append(subs[id].ch, n) ELSE subs[id].ch
    BY <1>2, <2>4 DEF SubsOK, GoodSub, Sub
  <2>6. ConnsOK'
    <3>1. \A c \in Conns : conn[c] \in ConnRec(nextID, n)
      BY <1>2, <2>3, ConnRecGrow DEF ConnsOK
    <3>2. conn \in [Conns -> ConnRec(nextID, n)]
      BY <1>2, <3>1 DEF ConnsOK
    <3> QED BY <1>1, <1>2, <2>3, <3>2 DEF ConnsOK
  <2>7. Linked'
    BY <1>1, <1>2, <2>4, <2>5 DEF Linked
  <2>8. HistoryOK'
    BY Regroup, PTL
  <2>9. ASSUME NEW c \in Conns
        PROVE  Served(conn[c], subs'[conn[c].id].ch, log', drops'[conn[c].filter])
    <3>1. PICK k, q, q2, d, d2, id :
            /\ k = conn[c] /\ id = conn[c].id /\ q = subs[conn[c].id].ch /\ q2 = subs'[conn[c].id].ch
            /\ d = drops[conn[c].filter] /\ d2 = drops'[conn[c].filter]
      OBVIOUS
    <3>2. /\ log \in Seq(Filters) /\ k \in ConnRec(nextID, Len(log)) /\ Served(k, q, log, d) /\ d \in Nat
          /\ Live(k) => id \in DOMAIN subs /\ subs[id].filter = k.filter /\ Queue(q, Len(log))
      BY <3>1, ConnFacts DEF GoodSub
    <3>3. k.filter \in Filters /\ d2 \in Nat /\ k.filter = conn[c].filter
      BY <2>8, <3>1, <3>2 DEF ConnRec, HistoryOK
    <3>4. PICK x \in {0, 1} : d2 = d + DropsAt(k.filter, key) + x
      <4>1. drops' = [g \in Filters |-> drops[g] + DropsAt(g, key)
                        + IF (~Attached(key) /\ key \in DOMAIN retained)
                             /\ Len(retained[key]) >= SubBufSize /\ g = key THEN 1 ELSE 0]
        BY <2>1, <2>2 DEF Publish
      <4> QED BY <3>1, <3>3, <4>1
    <3>5. DropsAt(k.filter, key) \in Nat
      BY PassedByCounts DEF StreamInv
    <3>6. d <= d2
      BY <3>2, <3>4, <3>5
    <3>7. ASSUME Live(k)
          PROVE  \/ q2 = Append(q, Len(log) + 1)
                 \/ q2 = q /\ (Matches(k, KeyOf(f)) => d + 1 <= d2)
      <4>1. id \in DOMAIN subs /\ subs[id].filter = k.filter
        BY <3>2, <3>7
      <4>2. CASE id \in Recipients(key) \ Full
        BY <2>2, <2>5, <3>1, <4>1, <4>2
      <4>3. CASE id \notin Recipients(key)
        <5>1. ~Matches(k, KeyOf(f))
          BY <2>2, <4>1, <4>3 DEF Recipients, Matches
        <5> QED BY <2>5, <3>1, <4>1, <4>3, <5>1
      <4>4. CASE id \in Recipients(key) \cap Full
        <5>1. DropsAt(k.filter, key) >= 1
          BY <4>1, <4>4, PassedByCounts DEF StreamInv
        <5>2. d + 1 <= d2
          BY <3>2, <3>4, <3>5, <4>1, <5>1
        <5> QED BY <2>5, <3>1, <4>1, <4>4, <5>2
      <4> QED BY <4>2, <4>3, <4>4
    <3>8. Served(k, q2, Append(log, f), d2)
      BY <1>2, <3>2, <3>3, <3>6, <3>7, ServedPublish
    <3> QED BY <2>3, <3>1, <3>8
  <2>10. AllServed'
    BY <1>1, <2>9 DEF AllServed
  <2> QED BY <2>6, <2>7, <2>10 DEF ConnInv
<1> QED BY <1>3, <1>4 DEF Backend

\* The invariant of the stream is inductive.
LEMMA StreamInvNext ==
  ASSUME StreamInv, [StreamNext]_streamVars
  PROVE  StreamInv'
<1>1. [HubNext]_hubVars
  BY StreamStepsHub
<1>2. HubInv' /\ Selected'
  BY <1>1, NextInv, SelectedNext DEF StreamInv
<1>3. CASE UNCHANGED streamVars \/ CloseSSE
  <2>1. UNCHANGED <<subs, nextID, drops, log>> /\ conn' = conn /\ sseShutdown' \in BOOLEAN
    BY <1>3 DEF streamVars, hubVars, CloseSSE, StreamInv, ConnInv, ConnsOK
  <2>2. ConnInv'
    BY <2>1 DEF StreamInv, ConnInv, ConnsOK, Linked, AllServed
  <2> QED BY <1>2, <2>2 DEF StreamInv
<1>4. CASE Backend
  BY <1>2, <1>4, BackendStep DEF StreamInv
<1>5. ASSUME NEW c \in Conns, Handler(c) \/ Stall(c) \/ Resume(c) \/ Hangup(c)
      PROVE  ConnInv'
  <2>1. CASE Take(c)
    BY <2>1, TakeStep
  <2>2. CASE Leave(c)
    BY <1>2, <2>2, LeaveStep
  <2>3. CASE \E f \in Asked : Accept(c, f)
    BY <1>2, <2>3, AcceptStep, StreamAssumption
  <2> QED BY <1>5, <2>1, <2>2, <2>3, ConnSteps DEF Handler
<1> QED BY <1>2, <1>3, <1>4, <1>5 DEF StreamNext, StreamInv

\* No connection has come in yet, and the hub is new.
LEMMA StreamInvInit == StreamInit => StreamInv
<1> SUFFICES ASSUME StreamInit PROVE StreamInv
  OBVIOUS
<1>1. HubInv
  BY InitInv DEF StreamInit
<1>2. /\ DOMAIN subs = {} /\ DOMAIN retained = {} /\ nextID = 0 /\ log = <<>>
      /\ conn = [c \in Conns |-> Idle] /\ sseShutdown = FALSE
  BY DEF StreamInit, HubInit
<1>3. Selected
  BY <1>2 DEF Selected
<1>4. Idle \in ConnRec(nextID, Len(log))
  <2>1. /\ "idle" \in PCs /\ All \in Filters /\ <<>> \in Seq(1..0) /\ {} \in SUBSET (1..0)
        /\ 0 \in 0..0 /\ Len(log) = 0
    BY <1>2 DEF PCs, Filters
  <2> QED BY <1>2, <2>1 DEF Idle, ConnRec
<1>5. \A q, d : Served(Idle, q, log, d)
  BY DEF Idle, Served, InHand, Live, Increasing, Chosen
<1>6. ConnInv
  BY <1>2, <1>4, <1>5 DEF ConnInv, ConnsOK, Linked, AllServed, Live, Idle
<1> QED BY <1>1, <1>3, <1>6 DEF StreamInv

\* The invariant holds in every state of the stream.
LEMMA StreamInvariant == StreamSpec => []StreamInv
BY StreamInvInit, StreamInvNext, PTL DEF StreamSpec

-----------------------------------------------------------------------------
(* The theorems *)

\* The hub has exactly one subscription for each handler that runs, with the
\* filter of its request: every way out of HandleLogs gives the subscription
\* back once, and none is given back while its handler still reads.
THEOREM StreamSubscriptions == StreamSpec => []SubscriptionsAreHandlers
<1>1. StreamInv => SubscriptionsAreHandlers
  <2> SUFFICES ASSUME StreamInv PROVE SubscriptionsAreHandlers
    OBVIOUS
  <2> DEFINE live == {c \in Conns : conn[c].pc \notin {"idle", "done"}}
  <2>1. HubTypeOK /\ ConnsOK /\ Linked
    BY DEF StreamInv, HubInv, ConnInv
  <2>2. StreamTypeOK
    BY <2>1 DEF StreamTypeOK, ConnsOK, ConnRec
  <2>3. \A c \in Conns : c \in live <=> Live(conn[c])
    BY DEF Live
  <2>4. DOMAIN subs = {conn[c].id : c \in live}
    BY <2>1, <2>3 DEF Linked
  <2> QED BY <2>1, <2>2, <2>3, <2>4 DEF Linked, SubscriptionsAreHandlers
<1> QED BY <1>1, StreamInvariant, PTL

\* Each client receives entries its filter selects, in publish order and none of
\* them twice: what Subscribe replayed, then what Publish sent.
THEOREM StreamWireInOrder == StreamSpec => []WireInOrder
<1>1. StreamInv => WireInOrder
  BY DEF StreamInv, ConnInv, AllServed, Served, InHand, Chosen, WireInOrder
<1> QED BY <1>1, StreamInvariant, PTL

\* A client that got ": connected" and is still there misses no more of the
\* entries published since than the hub counted as dropped for its filter:
\* HandleLogs subscribes before it writes the line, and Publish reports to the
\* DropObserver every channel that it finds full.
THEOREM StreamConnectedMeansLive == StreamSpec => []ConnectedMeansLive
<1>1. StreamInv => ConnectedMeansLive
  <2> SUFFICES ASSUME StreamInv, NEW c \in Conns, conn[c].pc \in InLoop, conn[c].client # "gone"
               PROVE  Cardinality(Missed(c)) <= drops[conn[c].filter]
    BY DEF ConnectedMeansLive
  <2>1. Live(conn[c])
    BY DEF Live, InLoop
  <2>2. Counted(conn[c], subs[conn[c].id].ch, log, drops[conn[c].filter])
    BY <2>1 DEF StreamInv, ConnInv, AllServed, Served
  <2>3. Missed(c) = MissedOf(conn[c], subs[conn[c].id].ch, log)
    BY DEF Missed, MissedOf
  <2> QED BY <2>2, <2>3 DEF Counted
<1> QED BY <1>1, StreamInvariant, PTL

\* The handlers, the backend and CloseSSE together use the hub only as its
\* methods allow: whatever holds of every behaviour of the hub holds of it under
\* HandleLogs.
THEOREM StreamIsHub == StreamSpec => HubSpec
<1>1. StreamInit => HubInit
  BY DEF StreamInit
<1>2. [StreamNext]_streamVars => [HubNext]_hubVars
  BY StreamStepsHub
<1> QED BY <1>1, <1>2, PTL DEF StreamSpec, HubSpec

\* So with clients of a key one at a time, the keyed hub under its HTTP handlers
\* implements the abstract lossy queue: stalls, hangups, failed writes and the
\* shutdown show in it as reads and drops only.
THEOREM StreamRefinesFeed ==
  ASSUME Keyed, ~Overlap
  PROVE  StreamSpec => HubImplementsFeed
<1>1. HubSpec => HubImplementsFeed
  BY HubRefinesFeed
<1> QED BY <1>1, StreamIsHub
=============================================================================
