------------------------------- MODULE LogFeed -------------------------------
(***************************************************************************)
(* What the hub promises the consumer of one key: a single bounded lossy   *)
(* queue, in which connections, disconnections and reconnections do not    *)
(* show.  An entry published for the key waits in the queue until it is    *)
(* read; what the queue loses while the key is retained is counted.        *)
(***************************************************************************)
EXTENDS Integers, Sequences

CONSTANTS
  key, others,   \* the feed's key, and the other keys that are published
  cap            \* the number of entries the queue is sure to hold

VARIABLES
  log,       \* the key of each published entry
  pending,   \* the entries waiting to be read
  got,       \* the entries read so far
  dropped,   \* the entries lost and counted
  kept       \* whether the key is retained

feedVars == <<log, pending, got, dropped, kept>>

FeedInit ==
  /\ log = <<>> /\ pending = <<>> /\ got = <<>>
  /\ dropped = 0
  /\ kept = FALSE

\* An entry of the key arrives.  It waits; a queue that holds cap entries may
\* lose the oldest or the new one instead, and counts it; only a queue that is
\* not retained may lose the entry uncounted.
Offer ==
  /\ log' = Append(log, key)
  /\ \/ /\ pending' = Append(pending, Len(log) + 1)
        /\ dropped' = dropped
     \/ /\ Len(pending) >= cap
        /\ pending' \in {pending, Append(Tail(pending), Len(log) + 1)}
        /\ dropped' = dropped + 1
     \/ /\ ~kept
        /\ UNCHANGED <<pending, dropped>>
  /\ UNCHANGED <<got, kept>>

\* An entry of another key arrives.
Other ==
  /\ \E k \in others : log' = Append(log, k)
  /\ UNCHANGED <<pending, got, dropped, kept>>

Read ==
  /\ pending # <<>>
  /\ got' = Append(got, Head(pending))
  /\ pending' = Tail(pending)
  /\ UNCHANGED <<log, dropped, kept>>

\* The queue is cut to cap entries from the old end; each lost entry is counted.
Trim ==
  /\ Len(pending) > cap
  /\ pending' = SubSeq(pending, Len(pending) - cap + 1, Len(pending))
  /\ dropped' = dropped + Len(pending) - cap
  /\ UNCHANGED <<log, got, kept>>

Keep ==
  /\ kept' = TRUE
  /\ UNCHANGED <<log, pending, got, dropped>>

\* Retention ends, with or without the waiting entries; an unretained queue
\* may be discarded at any time.
Forget ==
  /\ kept' = FALSE
  /\ pending' \in {pending, <<>>}
  /\ UNCHANGED <<log, got, dropped>>

FeedNext == Offer \/ Other \/ Read \/ Trim \/ Keep \/ Forget

FeedSpec == FeedInit /\ [][FeedNext]_feedVars

\* The consumer's view across all its connections: what it has read followed
\* by what waits for it never repeats an entry and never goes back in time.
FeedInOrder ==
  LET seen == got \o pending
  IN  \A i, j \in 1..Len(seen) : i < j => seen[i] < seen[j]
=============================================================================
