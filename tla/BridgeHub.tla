------------------------------ MODULE BridgeHub ------------------------------
(***************************************************************************)
(* The bridge composed with the hub it publishes to: a worker's key is     *)
(* retained before the worker starts, and the consumer of that key         *)
(* connects, leaves and comes back, while sessions register and remove     *)
(* their secrets.  Every line mentions every secret wherever its kind      *)
(* can: each is masked or shown whatever else the line says.               *)
(***************************************************************************)
EXTENDS Bridge, Sequences

CONSTANTS
  Heard,          \* the kinds of lines that workers write
  SubBufSize,     \* as in LogHub
  MaxEvents,      \* bound on what happens: a mutation of the registry counts one, a line two
  MaxSubscribe    \* bound on the number of connections

ASSUME BridgeHubAssumption ==
  /\ Heard \subseteq Kinds
  /\ SubBufSize \in Nat \ {0} /\ MaxEvents \in Nat /\ MaxSubscribe \in Nat

VARIABLES
  subs, nextID, retained, drops, log, read,   \* the hub
  events,    \* how much of MaxEvents is used up
  told,      \* history: what worker w last said of its run, "none" if nothing
  entries    \* history: for each published entry, who caused it and what it says

H == INSTANCE LogHub WITH Keys <- Workers, All <- NoOrigin, Keyed <- TRUE, Overlap <- FALSE,
  MaxPublish <- MaxEvents

hub == <<subs, nextID, retained, drops, log, read>>
bridgeHubVars == <<bridgeVars, hub, events, told, entries>>

BridgeHubInit ==
  /\ BridgeInit
  /\ H!HubInit
  /\ events = 0
  /\ told = [w \in Workers |-> "none"]
  /\ entries = <<>>

-----------------------------------------------------------------------------
(* The backend *)

Event(n) == events + n <= MaxEvents /\ events' = events + n

\* The registry, whose mutation has two steps.
Mutate ==
  /\ Event(1)
  /\ \E s \in Sessions : RemoveSessionKey(s) \/ \E k \in Secrets : AddSessionKey(s, k)
  /\ UNCHANGED <<hub, told, entries>>

Rebuilt ==
  /\ SetRedactor
  /\ UNCHANGED <<hub, events, told, entries>>

\* The backend retains a session, then starts its worker.
Start(w) ==
  /\ H!Retain(w)
  /\ UNCHANGED <<bridgeVars, events, told, entries>>

-----------------------------------------------------------------------------
(* The readers of the workers' output *)

RunState(kind) ==
  CASE kind \in {"user_input", "model_request"} -> "working"
    [] kind = "awaiting_human" -> "idle"
    [] OTHER -> "none"

Line(r, kind) ==
  /\ r[1] \in DOMAIN retained
  /\ Event(2)
  /\ BridgeLine(r, kind, Secrets, Secrets)
  /\ told' = IF r[2] = "stdout" /\ RunState(kind) # "none"
             THEN [told EXCEPT ![r[1]] = RunState(kind)] ELSE told
  /\ UNCHANGED <<hub, entries>>

PublishEntry(r) ==
  LET e == reader[r].entry IN
  /\ Publish(r)
  /\ H!Publish(e.origin)
  /\ entries' = Append(entries, [worker |-> r[1], type |-> e.type, awaiting |-> e.awaiting])
  /\ UNCHANGED <<events, told>>

Hook(r) ==
  /\ OnAwaiting(r)
  /\ UNCHANGED <<hub, events, told, entries>>

\* The consumer of a session.
Consumer ==
  /\ \/ \E w \in Workers : H!Subscribe(w)
     \/ \E id \in DOMAIN subs : H!Receive(id) \/ H!Unsubscribe(id)
  /\ UNCHANGED <<bridgeVars, events, told, entries>>

BridgeHubNext ==
  \/ Mutate \/ Rebuilt
  \/ \E w \in Workers : Start(w)
  \/ \E r \in Readers :
       \/ \E kind \in Heard : Line(r, kind)
       \/ PublishEntry(r) \/ Hook(r)
  \/ Consumer

BridgeHubSpec == BridgeHubInit /\ [][BridgeHubNext]_bridgeHubVars

-----------------------------------------------------------------------------
(* Properties *)

\* The consumer of a session reads lines of that session's worker only, also
\* when MapExtra returns an entry with a key of its own.
OwnLinesOnly ==
  \A w \in Workers : \A i \in 1..Len(read[w]) : entries[read[w][i]].worker = w

\* Positions of the entries of worker w that take part in the awaiting flag.
Progress(w) == {n \in 1..Len(entries) : entries[n].worker = w /\ entries[n].type # "stderr"}
Newest(S) == CHOOSE n \in S : \A m \in S : m <= n

\* Those whose hook has run.
Seen(w) ==
  LET p == Progress(w)
  IN  IF reader[<<w, "stdout">>].pc = "hook" THEN {n \in p : \E m \in p : m > n} ELSE p

\* The flag of a worker follows the published entries: it is what the newest
\* entry that is not stderr says, or the one before while the hook of the newest
\* is still to run.  So "a parked HITL worker" stays marked as awaiting whatever it
\* "still logs to stderr", the flag is never set before the entry that explains it
\* is out, and another worker's entry never sets or clears it.
FlagFollowsLog ==
  \A w \in Workers : awaiting[w] = (Seen(w) # {} /\ entries[Newest(Seen(w))].awaiting)

Status == {"working", "idle"}

\* The working indicator is current: a consumer that has read all that waits for
\* it, over however many connections, last read the run state that the worker
\* last reported, unless the hub counted a drop.
IndicatorCurrent ==
  \A w \in Workers :
    /\ config.surfaceRunState /\ ~config.surfaceAwaitingHuman
    /\ drops[w] = 0 /\ H!Pending(w) = <<>>
    /\ reader[<<w, "stdout">>].pc # "publish"
    /\ told[w] # "none"
    => \E i \in 1..Len(read[w]) :
         /\ entries[read[w][i]].type = told[w]
         /\ \A j \in i + 1 .. Len(read[w]) : entries[read[w][j]].type \notin Status
=============================================================================
