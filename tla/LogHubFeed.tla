----------------------------- MODULE LogHubFeed -----------------------------
(***************************************************************************)
(* The hub seen from the consumers of one key: the refinement of LogFeed,  *)
(* which holds while consumers of a key connect one at a time (Overlap     *)
(* FALSE), and the properties of replay and loss.                          *)
(***************************************************************************)
EXTENDS LogHub

CONSTANT Watched   \* the key whose consumers are looked at: any key

ASSUME WatchedAssumption == Watched \in Keys

Feed == INSTANCE LogFeed WITH
  key <- Watched, others <- Filters \ {Watched}, cap <- SubBufSize,
  log <- log, pending <- Pending(Watched), got <- read[Watched],
  dropped <- drops[Watched], kept <- Watched \in DOMAIN retained

\* Refinement: to the consumers of a key the hub is one lossy queue; a
\* consumer that leaves and comes back (Subscribe, Unsubscribe) finds it as
\* it was, cut to subBufSize entries.
HubImplementsFeed == Feed!FeedSpec

\* Entries of key k that no consumer of k has read or can still read.
Lost(k) ==
  {n \in 1..Len(log) :
     /\ log[n] = k
     /\ n \notin Range(read[k])
     /\ \A id \in DOMAIN subs : subs[id].filter = k => n \notin Range(subs[id].ch)
     /\ n \notin Range(Held(k))}

\* While a key stays retained, each entry its consumers lose is reported to
\* the DropObserver exactly once ("notified once per LogEntry dropped").
LossesObservedOnce ==
  [][\A k \in DOMAIN retained \cap DOMAIN retained' :
       Cardinality(Lost(k)') - Cardinality(Lost(k)) = drops'[k] - drops[k]]_hubVars
=============================================================================
