----------------------------- MODULE DedupCache -----------------------------
(***************************************************************************)
(* The /message dedup cache (webhookcore/dedup.go) and the handler its doc *)
(* comment asks of a caller: CheckAndRecord, deliver, Rollback on failure, *)
(* all under one lock per scope.  The handler lives in the backends; it is *)
(* modelled from that comment, with the lock and without it.               *)
(*                                                                         *)
(* A request carries a message [scope, id]; NoID stands for the empty      *)
(* messageID, with which a client opts out of deduplication.               *)
(***************************************************************************)
EXTENDS Integers, Sequences, FiniteSets

CONSTANTS
  Requests,   \* the /message requests that may arrive, retries included
  Scopes, IDs, NoID,
  TTL,        \* c.ttl; 0 disables expiry
  Capacity,   \* c.capacity; 0 disables the cap
  MaxTime,    \* bound on the clock
  MaxRestarts \* bound on the deaths of the process

ASSUME DedupAssumption ==
  /\ NoID \notin IDs
  /\ TTL \in Nat /\ Capacity \in Nat /\ MaxTime \in Nat /\ MaxRestarts \in Nat

C == INSTANCE TTLCache

Messages == [scope : Scopes, id : IDs \cup {NoID}]

VARIABLES
  cache,      \* the entries and the index, guarded by c.mu
  now,        \* the clock
  req,        \* Requests -> [pc, msg, at, el]; at, el: when and as which element recorded
  locked,     \* whether handlers take the lock of their scope
  lock,       \* the scopes whose lock is held
  life,       \* how often the process has died
  delivered,  \* history: the deliveries, with their life and the time of their record
  evicted,    \* history: the messages the capacity pushed out
  robbed      \* history: the messages whose record another request's Rollback removed

dedupVars == <<cache, now, req, locked, lock, life, delivered, evicted, robbed>>

DedupInit ==
  /\ cache = C!Empty
  /\ now = 0
  /\ req \in [Requests -> [pc : {"new"}, msg : Messages, at : {0}, el : {0}]]
  /\ locked \in BOOLEAN
  /\ lock = {}
  /\ life = 0
  /\ delivered = <<>>
  /\ evicted = {}
  /\ robbed = {}

-----------------------------------------------------------------------------
(* The cache *)

\* CheckAndRecord reports a duplicate and changes nothing ...
Duplicate(m) == m.id # NoID /\ C!Hit(cache, m, now)

\* ... or records the message, unless it has no id.
CheckAndRecord(m) ==
  IF m.id = NoID
  THEN UNCHANGED <<cache, evicted>>
  ELSE /\ cache' = C!Record(cache, m, now)
       /\ evicted' = evicted \cup C!Evicted(cache, m, now)

RollbackNothing(m) == UNCHANGED cache
Rollback(m) == cache' = IF m.id = NoID THEN cache ELSE C!Remove(cache, m)

-----------------------------------------------------------------------------
(* The handler *)

Lock(r) ==
  /\ req[r].pc = "new"
  /\ locked => req[r].msg.scope \notin lock
  /\ lock' = IF locked THEN lock \cup {req[r].msg.scope} ELSE lock
  /\ req' = [req EXCEPT ![r].pc = "check"]
  /\ UNCHANGED <<cache, now, locked, life, delivered, evicted, robbed>>

Finish(r, pc) ==
  /\ req' = [req EXCEPT ![r].pc = pc]
  /\ lock' = lock \ {req[r].msg.scope}

\* A duplicate is acknowledged without a delivery.
AckDuplicate(r) ==
  /\ req[r].pc = "check"
  /\ Duplicate(req[r].msg)
  /\ Finish(r, "acked")
  /\ UNCHANGED <<cache, now, locked, life, delivered, evicted, robbed>>

StartDelivery(r) ==
  /\ req[r].pc = "check"
  /\ ~Duplicate(req[r].msg)
  /\ CheckAndRecord(req[r].msg)
  /\ req' = [req EXCEPT ![r].pc = "deliver", ![r].at = now, ![r].el = cache'.made]
  /\ UNCHANGED <<now, locked, lock, life, delivered, robbed>>

Deliver(r) ==
  /\ req[r].pc = "deliver"
  /\ delivered' = Append(delivered, [msg |-> req[r].msg, recorded |-> req[r].at, life |-> life])
  /\ Finish(r, "acked")
  /\ UNCHANGED <<cache, now, locked, life, evicted, robbed>>

\* The delivery fails: the record is taken back and the client told so.  Rollback
\* removes whatever record the message has by then, its own or not.
FailDelivery(r) ==
  LET m == req[r].msg IN
  /\ req[r].pc = "deliver"
  /\ Rollback(m)
  /\ robbed' = IF m \in DOMAIN cache.index /\ cache.index[m] # req[r].el
               THEN robbed \cup {m} ELSE robbed
  /\ Finish(r, "failed")
  /\ UNCHANGED <<now, locked, life, delivered, evicted>>

\* The process dies and NewDedupCache builds an empty cache: locks and records are
\* gone, and the requests in flight are never answered, whether their record was
\* followed by a delivery or not.
Restart ==
  /\ life < MaxRestarts
  /\ life' = life + 1
  /\ cache' = [C!Empty EXCEPT !.made = cache.made]
  /\ lock' = {}
  /\ req' = [r \in Requests |->
               IF req[r].pc \in {"check", "deliver"} THEN [req[r] EXCEPT !.pc = "lost"] ELSE req[r]]
  /\ UNCHANGED <<now, locked, delivered, evicted, robbed>>

Tick ==
  /\ now < MaxTime
  /\ now' = now + 1
  /\ UNCHANGED <<cache, req, locked, lock, life, delivered, evicted, robbed>>

DedupNext ==
  \/ \E r \in Requests :
       Lock(r) \/ AckDuplicate(r) \/ StartDelivery(r) \/ Deliver(r) \/ FailDelivery(r)
  \/ Restart \/ Tick

DedupSpec == DedupInit /\ [][DedupNext]_dedupVars

-----------------------------------------------------------------------------
(* Properties *)

\* Type invariant.
DedupTypeOK ==
  /\ cache.list \in Seq([key : Messages, at : 0..now, el : 1..cache.made])
  /\ now \in 0..MaxTime
  /\ req \in [Requests -> [pc : {"new", "check", "deliver", "acked", "failed", "lost"},
                           msg : Messages, at : 0..now, el : 0..cache.made]]
  /\ locked \in BOOLEAN
  /\ lock \subseteq Scopes
  /\ life \in 0..MaxRestarts
  /\ delivered \in Seq([msg : Messages, recorded : 0..now, life : 0..life])
  /\ evicted \subseteq Messages /\ robbed \subseteq Messages

\* List and index agree, oldest first, within the capacity, after every mixture
\* of records, expiries, evictions and rollbacks, and an opted-out message is
\* never recorded.
DedupWellFormed ==
  /\ DedupTypeOK
  /\ C!WellFormed(cache)
  /\ \A m \in DOMAIN cache.index : m.id # NoID

\* Under the lock, an acknowledged message was delivered, by this request or by
\* an earlier one: no retry is swallowed because of a delivery that failed, nor
\* because the process died between the record and the delivery.
AckedWasDelivered ==
  locked => \A r \in Requests : req[r].pc = "acked" =>
              \E i \in 1..Len(delivered) : delivered[i].msg = req[r].msg

\* A message with an id is delivered a second time by one process only after its
\* record was evicted or has expired or, where handlers take no lock, was removed by the
\* Rollback of another request.  CheckAndRecord alone, which leaves no gap
\* between check and record, accounts for everything else.
DeliveredOnce ==
  \A i, j \in 1..Len(delivered) :
    /\ i # j /\ delivered[i].recorded <= delivered[j].recorded
    /\ delivered[i].msg = delivered[j].msg /\ delivered[i].life = delivered[j].life
    /\ delivered[i].msg.id # NoID
    /\ delivered[i].msg \notin evicted
    => \/ TTL > 0 /\ delivered[j].recorded > delivered[i].recorded + TTL
       \/ ~locked /\ delivered[i].msg \in robbed
=============================================================================
