------------------------------- MODULE LogHub -------------------------------
(***************************************************************************)
(* The fan-out hub of package logbridge (logbridge/hub.go).                *)
(*                                                                         *)
(* A Hub delivers published log entries to subscribers and keeps a backlog *)
(* for the keys a backend asked to retain.  Every method runs under h.mu   *)
(* from its first to its last access of the hub's state, so each method is *)
(* one action; the reader of a subscriber's channel does not take h.mu, so *)
(* Receive is an action of its own.  The goroutine that reads a channel is *)
(* the one that unsubscribes it (HandleLogs is the only reader), so no     *)
(* Receive falls between the steps of Unsubscribe's requeue.               *)
(*                                                                         *)
(* An entry is the number of its Publish call: log[n] is the key of entry  *)
(* n, and content, timestamp and type are left out.                        *)
(*                                                                         *)
(* Some definitions are preceded by an altered form of themselves          *)
(* (HandedOverKept before HandedOver): a bug the properties must notice,   *)
(* substituted for the definition in the runs that test the properties.    *)
(***************************************************************************)
EXTENDS Integers, Sequences, FiniteSets, Functions

CONSTANTS
  Keys,           \* the non-empty keys (projects of the agent, sessions of chat)
  All,            \* the empty string: the all-entries filter, the key of unkeyed entries
  Keyed,          \* FALSE models a hub built with a nil keyOf
  SubBufSize,     \* subBufSize
  Overlap,        \* FALSE: at most one subscriber at a time per non-empty filter
  MaxPublish,     \* bound on the number of Publish calls
  MaxSubscribe    \* bound on the number of Subscribe calls

ASSUME HubAssumption ==
  /\ All \notin Keys
  /\ Keyed \in BOOLEAN
  /\ SubBufSize \in Nat \ {0}
  /\ Overlap \in BOOLEAN
  /\ MaxPublish \in Nat
  /\ MaxSubscribe \in Nat

VARIABLES
  subs,       \* h.subs: id -> subscriber
  nextID,     \* h.nextID
  retained,   \* h.retained: key -> backlog
  drops,      \* ObserveDrop calls, split by the filter of the queue that overflowed
  log,        \* history: the key of each published entry
  read        \* history: filter -> entries read from channels with that filter

hubVars == <<subs, nextID, retained, drops, log, read>>

Filters == Keys \cup {All}

(***************************************************************************)
(* A subscriber: its channel, the channel's capacity, its filter, and (a   *)
(* history field) the number of entries published before it subscribed.    *)
(***************************************************************************)
Sub == [filter : Filters, ch : Seq(Nat), cap : Nat, since : Nat]

\* Map assignment m[k] = v and delete(m, k).
Put(m, k, v) == [x \in DOMAIN m \cup {k} |-> IF x = k THEN v ELSE m[x]]
Delete(m, k) == Restrict(m, DOMAIN m \ {k})

HubInit ==
  /\ subs = [id \in {} |-> [filter |-> All, ch |-> <<>>, cap |-> 0, since |-> 0]]
  /\ nextID = 0
  /\ retained = [k \in {} |-> <<>>]
  /\ drops = [f \in Filters |-> 0]
  /\ log = <<>>
  /\ read = [f \in Filters |-> <<>>]

-----------------------------------------------------------------------------
(* Retain and Release *)

\* An empty key or a nil keyOf returns early; a key already retained is kept as it is.
Retain(k) ==
  /\ Keyed
  /\ k \notin DOMAIN retained
  /\ retained' = Put(retained, k, <<>>)
  /\ UNCHANGED <<subs, nextID, drops, log, read>>

Release(k) ==
  /\ k \in DOMAIN retained
  /\ retained' = Delete(retained, k)
  /\ UNCHANGED <<subs, nextID, drops, log, read>>

-----------------------------------------------------------------------------
(* Subscribe and Unsubscribe *)

\* h.retained[filter], where a missing key reads as an empty backlog.
Held(f) == IF f \in DOMAIN retained THEN retained[f] ELSE <<>>

ChanCapNoReplayRoom(held) == SubBufSize
ChanCap(held) == SubBufSize + Len(held)

HandedOverKept(f) == retained
HandedOverAlways(f) == Put(retained, f, <<>>)
HandedOver(f) == [k \in DOMAIN retained |-> IF k = f THEN <<>> ELSE retained[k]]

\* Whether a registered subscriber carries filter f.
Holds(ss, f) == \E id \in DOMAIN ss : ss[id].filter = f

Subscribe(f) ==
  /\ nextID < MaxSubscribe
  /\ Overlap \/ f = All \/ ~Holds(subs, f)
  /\ nextID' = nextID + 1
  /\ subs' = Put(subs, nextID + 1, [filter |-> f, ch |-> Held(f), cap |-> ChanCap(Held(f)),
                                    since |-> Len(log)])
  /\ retained' = HandedOver(f)
  /\ UNCHANGED <<drops, log, read>>

\* requeue: the unread entries ahead of the backlog, trimmed from the old end.
ExcessNone(q) == 0
Excess(q) == IF Len(q) > SubBufSize THEN Len(q) - SubBufSize ELSE 0

RequeueForgets(ch, backlog) == backlog
Requeue(ch, backlog) ==
  LET merged == ch \o backlog
  IN  SubSeq(merged, Excess(merged) + 1, Len(merged))

Unsubscribe(id) ==
  LET s == subs[id]
      rest == Delete(subs, id)
  IN
  /\ id \in DOMAIN subs
  /\ subs' = rest
  /\ \/ /\ s.filter \in DOMAIN retained /\ ~Holds(rest, s.filter)
        /\ retained' = [retained EXCEPT ![s.filter] = Requeue(s.ch, @)]
        /\ drops' = [drops EXCEPT ![s.filter] = @ + Excess(s.ch \o retained[s.filter])]
     \/ /\ ~(s.filter \in DOMAIN retained /\ ~Holds(rest, s.filter))
        /\ UNCHANGED <<retained, drops>>
  /\ UNCHANGED <<nextID, log, read>>

-----------------------------------------------------------------------------
(* Publish *)

KeyOf(k) == IF Keyed THEN k ELSE All

MatchesAny(s, key) == TRUE
Matches(s, key) == s.filter = All \/ ~Keyed \/ s.filter = key

AttachedNever(key) == FALSE
Attached(key) == key # All /\ Holds(subs, key)

Recipients(key) == {id \in DOMAIN subs : Matches(subs[id], key)}
Full == {id \in DOMAIN subs : Len(subs[id].ch) >= subs[id].cap}

\* Channels of filter f that are full and drop the entry.
DropsAtUncounted(f, key) == 0
DropsAt(f, key) == Cardinality({id \in Recipients(key) \cap Full : subs[id].filter = f})

Publish(k) ==
  LET n == Len(log) + 1
      key == KeyOf(k)
      kept == ~Attached(key) /\ key \in DOMAIN retained
      overflow == kept /\ Len(retained[key]) >= SubBufSize
      backlog == IF overflow THEN Tail(retained[key]) ELSE retained[key]
  IN
  /\ Len(log) < MaxPublish
  /\ log' = Append(log, k)
  /\ subs' = [id \in DOMAIN subs |->
                IF id \in Recipients(key) \ Full
                THEN [subs[id] EXCEPT !.ch = Append(@, n)]
                ELSE subs[id]]
  /\ retained' = IF kept THEN [retained EXCEPT ![key] = Append(backlog, n)] ELSE retained
  /\ drops' = [f \in Filters |-> drops[f] + DropsAt(f, key) + IF overflow /\ f = key THEN 1 ELSE 0]
  /\ UNCHANGED <<nextID, read>>

-----------------------------------------------------------------------------
(* The reader of a channel takes the oldest entry queued on it. *)
Receive(id) ==
  /\ id \in DOMAIN subs
  /\ subs[id].ch # <<>>
  /\ read' = [read EXCEPT ![subs[id].filter] = Append(@, Head(subs[id].ch))]
  /\ subs' = [subs EXCEPT ![id].ch = Tail(@)]
  /\ UNCHANGED <<nextID, retained, drops, log>>

HubNext ==
  \/ \E k \in Keys : Retain(k) \/ Release(k)
  \/ \E f \in Filters : Subscribe(f) \/ Publish(f)
  \/ \E id \in DOMAIN subs : Unsubscribe(id) \/ Receive(id)

HubSpec == HubInit /\ [][HubNext]_hubVars

-----------------------------------------------------------------------------
(* Properties *)

\* What waits for the consumer of key k: its channel, or the backlog.
Pending(k) ==
  IF Holds(subs, k)
  THEN subs[CHOOSE id \in DOMAIN subs : subs[id].filter = k].ch
  ELSE Held(k)

Increasing(q) == \A i, j \in 1..Len(q) : i < j => q[i] < q[j]

\* The entries waiting in a queue carry numbers that were really published.
Published(q) == \A i \in 1..Len(q) : q[i] \in 1..Len(log)

\* Type invariant: every variable of the hub keeps its shape, ids are handed
\* out once and in order, and only a keyed hub retains.
HubTypeOK ==
  /\ nextID \in 0..MaxSubscribe
  /\ DOMAIN subs \subseteq 1..nextID
  /\ \A id \in DOMAIN subs : subs[id] \in Sub
  /\ DOMAIN retained \subseteq Keys
  /\ Keyed \/ DOMAIN retained = {}
  /\ \A k \in DOMAIN retained : retained[k] \in Seq(Nat)
  /\ drops \in [Filters -> Nat]
  /\ log \in Seq(Filters)
  /\ Len(log) <= MaxPublish
  /\ read \in [Filters -> Seq(Nat)]

\* A retained key has waiting entries only while no subscriber carries it
\* (Subscribe empties the backlog, Publish appends to it only when nobody is
\* attached, Unsubscribe refills it only for the last one to leave).  Replay
\* "ahead of live entries" rests on this: an entry in the backlog behind an
\* attached subscriber would be delivered after newer ones.
BacklogOnlyWhenDetached ==
  \A k \in DOMAIN retained : retained[k] # <<>> => ~Holds(subs, k)

\* Every channel and every backlog holds its entries in publish order and
\* without repetition, across Subscribe's replay, Unsubscribe's requeue and
\* the drops at either end.
QueuesInOrder ==
  /\ \A id \in DOMAIN subs : Increasing(subs[id].ch) /\ Published(subs[id].ch)
  /\ \A k \in DOMAIN retained : Increasing(retained[k]) /\ Published(retained[k])

\* No queue outgrows its bound: a backlog holds at most subBufSize entries, a
\* channel at most its capacity, which is at most twice subBufSize.  Subscribe
\* sends on the channel while it holds h.mu, so a backlog larger than the
\* capacity would block every method of the hub for ever.
QueuesBounded ==
  /\ \A k \in DOMAIN retained : Len(retained[k]) <= SubBufSize
  /\ \A id \in DOMAIN subs :
       /\ Len(subs[id].ch) <= subs[id].cap
       /\ subs[id].cap <= 2 * SubBufSize

\* A live entry is dropped at a channel only behind subBufSize unread live
\* entries: replaying a backlog never uses up the room for live ones.
LiveRoom ==
  \A id \in Full :
    Cardinality({i \in 1..Len(subs[id].ch) : subs[id].ch[i] > subs[id].since}) >= SubBufSize

=============================================================================
