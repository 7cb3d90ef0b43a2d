----------------------------- MODULE ReplayCache -----------------------------
(***************************************************************************)
(* Authentication of signed requests: Auth (webhookcore/middleware.go), the*)
(* replay cache and its janitor (webhookcore/replay.go), and the TTL floor *)
(* NewCore gives the cache (webhookcore/core.go).                          *)
(*                                                                         *)
(* A request carries a (timestamp, signature) pair.  The signature check   *)
(* is external (the protocol module): it accepts a genuine pair while the  *)
(* wall clock is at most Skew past and MaxFutureSkew before the timestamp, *)
(* and then asks the cache, which measures ages by the monotonic clock of  *)
(* time.Time.  The two read the clock separately, and other requests, the  *)
(* janitor and time itself get between them.                               *)
(***************************************************************************)
EXTENDS Integers, Sequences, FiniteSets

CONSTANTS
  Requests,        \* the requests that may arrive, copies of one another included
  Pairs,           \* the pairs they carry: records with a field ts, the timestamp
  Skew,            \* c.skew
  MaxFutureSkew,   \* protocol.DefaultMaxFutureSkew
  ConfigTTL,       \* the TTL of the cache handed to NewCore; 0 for no expiry
  Capacity,        \* its capacity; 0 for no cap
  MaxTime,         \* bound on the clock
  MaxBehind        \* bound on how far the wall clock is set back in all

ASSUME ReplayAssumption ==
  /\ Skew \in Nat /\ MaxFutureSkew \in Nat /\ ConfigTTL \in Nat /\ Capacity \in Nat
  /\ MaxTime \in Nat /\ MaxBehind \in Nat
  /\ \A p \in Pairs : p.ts \in Nat

-----------------------------------------------------------------------------
(* NewCore and ensureMinTTL: a cache that expires at all keeps an entry for *)
(* at least the window in which its pair verifies.                          *)
ReplayFloor == Skew + MaxFutureSkew
EnsureMinTTLNever(ttl) == ttl
EnsureMinTTL(ttl) == IF ttl > 0 /\ ttl < ReplayFloor THEN ReplayFloor ELSE ttl
ReplayTTL == EnsureMinTTL(ConfigTTL)

C == INSTANCE TTLCache WITH TTL <- ReplayTTL, Capacity <- Capacity

VARIABLES
  cache,     \* the entries and the index, guarded by c.mu
  now,       \* the monotonic clock, by which the cache measures ages
  behind,    \* how far the wall clock was set back: it shows now - behind
  req,       \* Requests -> [pc, pair, at]; at: when the signature was checked
  janitor,   \* "running", "stopping" (c.stopCh is closed) or "exited"
  accepted,  \* history: the pairs that reached the handler, with both clock readings
  evicted    \* history: the pairs the capacity pushed out

replayVars == <<cache, now, behind, req, janitor, accepted, evicted>>

ReplayInit ==
  /\ cache = C!Empty
  /\ now = 0
  /\ behind = 0
  /\ req \in [Requests -> [pc : {"new"}, pair : Pairs, at : {0}]]
  /\ janitor = "running"
  /\ accepted = <<>>
  /\ evicted = {}

-----------------------------------------------------------------------------
\* 413 for a body too large or unreadable, 401 for missing headers, a wrong
\* signature or a timestamp out of the window: the cache is not asked.
RefuseUnverified(r) ==
  /\ req[r].pc = "new"
  /\ req' = [req EXCEPT ![r].pc = "refused"]
  /\ UNCHANGED <<cache, now, behind, janitor, accepted, evicted>>

\* protocol.VerifySignatureWithTimestamp, up to its call of the cache.
InWindow(ts, t) == t - ts <= Skew /\ ts - t <= MaxFutureSkew

Verify(r) ==
  /\ req[r].pc = "new"
  /\ InWindow(req[r].pair.ts, now - behind)
  /\ req' = [req EXCEPT ![r].pc = "verified", ![r].at = now]
  /\ UNCHANGED <<cache, now, behind, janitor, accepted, evicted>>

\* A duplicate is refused; a fresh pair is recorded and the handler runs.
CheckAndInsert(r) ==
  LET p == req[r].pair IN
  /\ req[r].pc = "verified"
  /\ \/ /\ C!Hit(cache, p, now)
        /\ req' = [req EXCEPT ![r].pc = "refused"]
        /\ UNCHANGED <<cache, accepted, evicted>>
     \/ /\ ~C!Hit(cache, p, now)
        /\ req' = [req EXCEPT ![r].pc = "handled"]
        /\ cache' = C!Record(cache, p, now)
        /\ accepted' = Append(accepted, [pair |-> p, verified |-> req[r].at, recorded |-> now])
        /\ evicted' = evicted \cup C!Evicted(cache, p, now)
  /\ UNCHANGED <<now, behind, janitor>>

-----------------------------------------------------------------------------
\* What sweep removes from the front: every entry not after the cutoff.
Stale(at) == at <= now - ReplayTTL
StaleCount ==
  Cardinality({i \in 1..Len(cache.list) : \A j \in 1..i : Stale(cache.list[j].at)})

\* A tick of the janitor.  While it is stopping, a tick that is due may still be
\* chosen by the select.
Sweep ==
  /\ janitor # "exited"
  /\ ReplayTTL > 0
  /\ cache' = C!DropFront(cache, StaleCount)
  /\ UNCHANGED <<now, behind, req, janitor, accepted, evicted>>

\* The stop function of StartJanitor (a second call changes nothing), and the
\* janitor that sees the closed channel.
StopJanitor ==
  /\ janitor = "running"
  /\ janitor' = "stopping"
  /\ UNCHANGED <<cache, now, behind, req, accepted, evicted>>

JanitorExit ==
  /\ janitor = "stopping"
  /\ janitor' = "exited"
  /\ UNCHANGED <<cache, now, behind, req, accepted, evicted>>

Tick ==
  /\ now < MaxTime
  /\ now' = now + 1
  /\ UNCHANGED <<cache, behind, req, janitor, accepted, evicted>>

\* The wall clock is set back (by an operator, or NTP).
SetClockBack ==
  /\ behind < MaxBehind
  /\ behind' = behind + 1
  /\ UNCHANGED <<cache, now, req, janitor, accepted, evicted>>

ReplayNext ==
  \/ \E r \in Requests : RefuseUnverified(r) \/ Verify(r) \/ CheckAndInsert(r)
  \/ Sweep \/ StopJanitor \/ JanitorExit \/ Tick \/ SetClockBack

ReplaySpec == ReplayInit /\ [][ReplayNext]_replayVars

-----------------------------------------------------------------------------
(* Properties *)

\* Type invariant.
ReplayTypeOK ==
  /\ cache.list \in Seq([key : Pairs, at : 0..now, el : 1..cache.made])
  /\ now \in 0..MaxTime
  /\ behind \in 0..MaxBehind
  /\ req \in [Requests -> [pc : {"new", "verified", "refused", "handled"},
                           pair : Pairs, at : 0..now]]
  /\ janitor \in {"running", "stopping", "exited"}
  /\ accepted \in Seq([pair : Pairs, verified : 0..now, recorded : 0..now])
  /\ evicted \subseteq Pairs

\* List and index agree, oldest first, within the capacity, after every mixture
\* of inserts, expiries, evictions and sweeps.  sweep stops at the first fresh
\* entry from the front: the order is why it leaves nothing expired behind.
ReplayWellFormed ==
  /\ ReplayTypeOK
  /\ C!WellFormed(cache)
  /\ ReplayTTL > 0 => \A i \in 1..Len(cache.list) : Stale(cache.list[i].at) => i <= StaleCount

\* A pair reaches the handler a second time only if the capacity pushed it out,
\* or if the second request was verified before the instant at which the record
\* of the first expires and was held up past it before it asked the cache.
\* NewCore's floor on the TTL is what leaves nothing else.  A wall clock that is
\* set back gives a pair its time over again, while records keep ageing by the
\* monotonic clock: it widens that instant by as much as it was set back, no more.
HandledOnce ==
  \A i, j \in 1..Len(accepted) :
    /\ i < j
    /\ accepted[i].pair = accepted[j].pair
    /\ accepted[i].pair \notin evicted
    => /\ accepted[j].verified <= accepted[i].recorded + ReplayTTL + behind
       /\ accepted[j].recorded >= accepted[i].recorded + ReplayTTL
       /\ ReplayTTL > 0
=============================================================================
