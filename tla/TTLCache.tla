------------------------------ MODULE TTLCache ------------------------------
(***************************************************************************)
(* The data structure of ReplayCache (webhookcore/replay.go) and of        *)
(* DedupCache (webhookcore/dedup.go): an insertion-ordered list of entries *)
(* and an index from the key of an entry to its list element.  The list    *)
(* and the index are updated by separate statements, so they are separate  *)
(* here.                                                                   *)
(*                                                                         *)
(* An element is [key, at, el]: its key, the time it was stored, and its   *)
(* identity, which stands for the pointer *list.Element.                   *)
(***************************************************************************)
EXTENDS Integers, Sequences

CONSTANTS
  TTL,        \* c.ttl; 0 disables expiry
  Capacity    \* c.capacity; 0 disables the cap

\* Map m without the keys ks.
Without(m, ks) == [k \in DOMAIN m \ ks |-> m[k]]

Empty == [list |-> <<>>, index |-> [k \in {} |-> 0], made |-> 0]

\* Where the element is that the index leads to, and the element.
Position(c, k) == CHOOSE i \in 1..Len(c.list) : c.list[i].el = c.index[k]
Element(c, k) == c.list[Position(c, k)]

\* Whether a stored key still counts as seen at time now.
WithinStrictly(at, now) == TTL <= 0 \/ now - at < TTL
Within(at, now) == TTL <= 0 \/ now - at <= TTL

Hit(c, k, now) == k \in DOMAIN c.index /\ Within(Element(c, k).at, now)

\* entries.Remove(el) and delete(index, key); nothing if the key is unknown.
Remove(c, k) ==
  IF k \in DOMAIN c.index
  THEN LET i == Position(c, k)
       IN  [list  |-> SubSeq(c.list, 1, i - 1) \o SubSeq(c.list, i + 1, Len(c.list)),
            index |-> Without(c.index, {k}),
            made  |-> c.made]
  ELSE c

PushBack(c, k, now) ==
  [list  |-> Append(c.list, [key |-> k, at |-> now, el |-> c.made + 1]),
   index |-> [x \in DOMAIN c.index \cup {k} |-> IF x = k THEN c.made + 1 ELSE c.index[x]],
   made  |-> c.made + 1]

\* The front n elements are removed, and their keys deleted from the index.
DropFrontKeepIndex(c, n) == [c EXCEPT !.list = SubSeq(@, n + 1, Len(@))]
DropFront(c, n) ==
  [list  |-> SubSeq(c.list, n + 1, Len(c.list)),
   index |-> Without(c.index, {c.list[i].key : i \in 1..n}),
   made  |-> c.made]

\* How many elements the list holds beyond the capacity.
OverCapacity(c) ==
  IF Capacity > 0 /\ Len(c.list) > Capacity THEN Len(c.list) - Capacity ELSE 0

\* A key that is not a hit is recorded: an expired element goes first, then the
\* new one is pushed, then the oldest ones make room.
RecordLeavesExpired(c, k, now) ==
  LET pushed == PushBack(c, k, now)
  IN  DropFront(pushed, OverCapacity(pushed))
Record(c, k, now) ==
  LET pushed == PushBack(Remove(c, k), k, now)
  IN  DropFront(pushed, OverCapacity(pushed))

\* The keys that Record pushes out to make room.
Evicted(c, k, now) ==
  LET pushed == PushBack(Remove(c, k), k, now)
  IN  {pushed.list[i].key : i \in 1..OverCapacity(pushed)}

-----------------------------------------------------------------------------
\* The list and the index describe the same entries, oldest first, one per key.
Agree(c) ==
  /\ \A i, j \in 1..Len(c.list) : i < j =>
       c.list[i].at <= c.list[j].at /\ c.list[i].el < c.list[j].el /\ c.list[i].key # c.list[j].key
  /\ DOMAIN c.index = {c.list[i].key : i \in 1..Len(c.list)}
  /\ \A i \in 1..Len(c.list) : c.index[c.list[i].key] = c.list[i].el

\* And there are no more of them than the capacity.
WellFormed(c) == Agree(c) /\ (Capacity > 0 => Len(c.list) <= Capacity)
=============================================================================
