------------------------------ MODULE LogStream ------------------------------
(***************************************************************************)
(* The SSE log stream: HandleLogs (webhookcore/logs.go) and CloseSSE       *)
(* (webhookcore/core.go) on top of the hub.                                *)
(*                                                                         *)
(* A connection is one /logs request with its handler goroutine and its    *)
(* client.  The handler takes a step at each point where it touches shared *)
(* state or may block: the hub's methods, the select statement, and every  *)
(* write to the client.                                                    *)
(***************************************************************************)
EXTENDS LogHub

CONSTANTS
  Conns,    \* the /logs requests that may arrive
  Asked     \* the values their filter parameter may have

ASSUME StreamAssumption == Asked \subseteq Filters

VARIABLES
  conn,        \* Conns -> connection
  sseShutdown  \* whether the channel c.sseShutdown is closed

streamVars == <<hubVars, conn, sseShutdown>>

(***************************************************************************)
(* pc     where the handler is (see below)                                 *)
(* id     its subscription, 0 when it has none                             *)
(* hand   the entry received from the channel and not yet written, or 0    *)
(* client "ok", "stalled" (reads nothing, a write to it blocks) or "gone"  *)
(* wire   history: the entries that reached the client                     *)
(* skip   history: the entries json.Marshal failed on                      *)
(* hello  history: the entries published when ": connected" was written    *)
(***************************************************************************)
Writing == {"hello", "keepalive", "data"}
InLoop == {"select", "keepalive", "data"}
PCs == {"idle", "leaving", "done"} \cup Writing \cup InLoop

Idle == [pc |-> "idle", id |-> 0, filter |-> All, hand |-> 0, client |-> "ok",
         wire |-> <<>>, skip |-> {}, hello |-> 0]

StreamInit ==
  /\ HubInit
  /\ conn = [c \in Conns |-> Idle]
  /\ sseShutdown = FALSE

-----------------------------------------------------------------------------
(* The handler *)

\* The ResponseWriter is no Flusher: 500 and return.
Refuse(c) ==
  /\ conn[c].pc = "idle"
  /\ conn' = [conn EXCEPT ![c].pc = "done"]
  /\ UNCHANGED <<hubVars, sseShutdown>>

\* The subscription is taken before ": connected" is written.
AcceptUnfiltered(c, f) ==
  /\ conn[c].pc = "idle"
  /\ Subscribe(All)
  /\ conn' = [conn EXCEPT ![c].pc = "hello", ![c].id = nextID', ![c].filter = f]
  /\ UNCHANGED sseShutdown
Accept(c, f) ==
  /\ conn[c].pc = "idle"
  /\ Subscribe(f)
  /\ conn' = [conn EXCEPT ![c].pc = "hello", ![c].id = nextID', ![c].filter = f]
  /\ UNCHANGED sseShutdown

\* A write that succeeds.  One to a client that has gone may still succeed: the
\* bytes stay in a buffer on the way.
WriteOK(c) ==
  LET k == conn[c] IN
  /\ k.pc \in Writing
  /\ k.client # "stalled"
  /\ conn' = [conn EXCEPT
       ![c].pc = "select",
       ![c].hand = 0,
       ![c].hello = IF k.pc = "hello" THEN Len(log) ELSE @,
       ![c].wire = IF k.pc = "data" /\ k.client = "ok" THEN Append(@, k.hand) ELSE @]
  /\ UNCHANGED <<hubVars, sseShutdown>>

\* A write that fails ends the handler; the entry in hand is not given back.
WriteFail(c) ==
  /\ conn[c].pc \in Writing
  /\ conn[c].client = "gone"
  /\ conn' = [conn EXCEPT ![c].pc = "leaving", ![c].hand = 0]
  /\ UNCHANGED <<hubVars, sseShutdown>>

\* The cases of the select statement.  (A closed channel is not one of them:
\* only the handler itself closes it, through the deferred Unsubscribe.)
SeeHangupBreaks(c) ==
  /\ conn[c].pc = "select"
  /\ conn[c].client = "gone"
  /\ UNCHANGED <<conn, hubVars, sseShutdown>>
SeeHangup(c) ==
  /\ conn[c].pc = "select"
  /\ conn[c].client = "gone"
  /\ conn' = [conn EXCEPT ![c].pc = "leaving"]
  /\ UNCHANGED <<hubVars, sseShutdown>>

SeeShutdownReturns(c) ==
  /\ conn[c].pc = "select"
  /\ sseShutdown
  /\ conn' = [conn EXCEPT ![c].pc = "done"]
  /\ UNCHANGED <<hubVars, sseShutdown>>
SeeShutdownBreaks(c) ==
  /\ conn[c].pc = "select"
  /\ sseShutdown
  /\ UNCHANGED <<conn, hubVars, sseShutdown>>
SeeShutdown(c) ==
  /\ conn[c].pc = "select"
  /\ sseShutdown
  /\ conn' = [conn EXCEPT ![c].pc = "leaving"]
  /\ UNCHANGED <<hubVars, sseShutdown>>

Tick(c) ==
  /\ conn[c].pc = "select"
  /\ conn' = [conn EXCEPT ![c].pc = "keepalive"]
  /\ UNCHANGED <<hubVars, sseShutdown>>

TakeIgnored(c) ==
  /\ conn[c].pc = "select"
  /\ Receive(conn[c].id)
  /\ UNCHANGED <<conn, sseShutdown>>
Take(c) ==
  /\ conn[c].pc = "select"
  /\ Receive(conn[c].id)
  /\ conn' = [conn EXCEPT ![c].pc = "data", ![c].hand = Head(subs[conn[c].id].ch)]
  /\ UNCHANGED sseShutdown

\* json.Marshal fails: the entry is skipped and the loop goes on.
Skip(c) ==
  /\ conn[c].pc = "data"
  /\ conn' = [conn EXCEPT ![c].pc = "select", ![c].hand = 0, ![c].skip = @ \cup {conn[c].hand}]
  /\ UNCHANGED <<hubVars, sseShutdown>>

\* The deferred Unsubscribe.
Leave(c) ==
  /\ conn[c].pc = "leaving"
  /\ Unsubscribe(conn[c].id)
  /\ conn' = [conn EXCEPT ![c].pc = "done"]
  /\ UNCHANGED sseShutdown

Handler(c) ==
  \/ Refuse(c) \/ WriteOK(c) \/ WriteFail(c) \/ Leave(c)
  \/ SeeHangup(c) \/ SeeShutdown(c) \/ Tick(c) \/ Take(c) \/ Skip(c)
  \/ \E f \in Asked : Accept(c, f)

-----------------------------------------------------------------------------
(* The clients, the backend and the server's shutdown *)

SetClient(c, from, to) ==
  /\ conn[c].pc \notin {"idle", "done"}
  /\ conn[c].client \in from
  /\ conn' = [conn EXCEPT ![c].client = to]
  /\ UNCHANGED <<hubVars, sseShutdown>>

Stall(c) == SetClient(c, {"ok"}, "stalled")
Resume(c) == SetClient(c, {"stalled"}, "ok")
Hangup(c) == SetClient(c, {"ok", "stalled"}, "gone")

CloseSSE ==
  /\ sseShutdown' = TRUE
  /\ UNCHANGED <<hubVars, conn>>

Backend ==
  /\ \/ \E k \in Keys : Retain(k) \/ Release(k)
     \/ \E f \in Filters : Publish(f)
  /\ UNCHANGED <<conn, sseShutdown>>

StreamNext ==
  \/ \E c \in Conns : Handler(c) \/ Stall(c) \/ Resume(c) \/ Hangup(c)
  \/ CloseSSE
  \/ Backend

StreamSpec == StreamInit /\ [][StreamNext]_streamVars

(***************************************************************************)
(* Fairness.  A handler that can leave does so: its goroutine is           *)
(* scheduled.  A write completes if its client reads again and again, even *)
(* when it stalls in between: the kernel moves the bytes as soon as there  *)
(* is room.  An entry that does not marshal is an accident, and carries no *)
(* fairness.  Each case of the select is strongly fair: select picks       *)
(* uniformly among the ready cases, so a case that is ready again and      *)
(* again is taken.                                                         *)
(***************************************************************************)
HandlerFairness ==
  \A c \in Conns :
    /\ SF_streamVars(WriteOK(c) \/ WriteFail(c))
    /\ WF_streamVars(Leave(c))
    /\ SF_streamVars(SeeHangup(c))
    /\ SF_streamVars(SeeShutdown(c))
    /\ SF_streamVars(Take(c))
    /\ SF_streamVars(Tick(c))

\* A client that stalls reads on or goes away, sooner or later.
ClientFairness == \A c \in Conns : WF_streamVars(Resume(c) \/ Hangup(c))

FairStreamSpec == StreamSpec /\ HandlerFairness
ResponsiveStreamSpec == FairStreamSpec /\ ClientFairness

-----------------------------------------------------------------------------
(* Properties *)

\* Type invariant of the stream, with the hub's.
StreamTypeOK ==
  /\ HubTypeOK
  /\ sseShutdown \in BOOLEAN
  /\ conn \in [Conns -> [pc : PCs, id : 0..nextID, filter : Filters, hand : 0..Len(log),
                         client : {"ok", "stalled", "gone"}, wire : Seq(1..Len(log)),
                         skip : SUBSET (1..Len(log)), hello : 0..Len(log)]]

\* The hub has exactly one subscription for each handler that runs: every way
\* out of HandleLogs, from the first failed write to a shutdown, gives the
\* subscription back, and none is given back while its handler still reads.
SubscriptionsAreHandlers ==
  LET live == {c \in Conns : conn[c].pc \notin {"idle", "done"}}
  IN  /\ StreamTypeOK
      /\ DOMAIN subs = {conn[c].id : c \in live}
      /\ \A c, d \in live : c # d => conn[c].id # conn[d].id
      /\ \A c \in live : subs[conn[c].id].filter = conn[c].filter

\* Entries the client of c was promised and can no longer get: published after
\* ": connected" reached it, selected by its filter, and neither on the wire,
\* in the handler's hand, queued, nor skipped by a failed Marshal.
Missed(c) ==
  LET k == conn[c]
  IN  {n \in k.hello + 1 .. Len(log) :
         /\ Matches(k, KeyOf(log[n]))
         /\ n \notin Range(k.wire) \cup {k.hand} \cup k.skip \cup Range(subs[k.id].ch)}

\* "Receiving that line is a client-observable guarantee that the subscription
\* is already live": a client that got ": connected" and is still there misses
\* an entry published since only if the hub counted it as dropped.
ConnectedMeansLive ==
  \A c \in Conns :
    conn[c].pc \in InLoop /\ conn[c].client # "gone"
      => Cardinality(Missed(c)) <= drops[conn[c].filter]

\* Each client receives entries its filter selects, in publish order, none of
\* them twice: replayed ones first, then live ones.
WireInOrder ==
  \A c \in Conns :
    /\ Increasing(conn[c].wire)
    /\ \A i \in 1..Len(conn[c].wire) : Matches(conn[c], KeyOf(log[conn[c].wire[i]]))

\* Once CloseSSE has run, every handler that is or gets connected returns, even
\* while ticks and entries keep its select busy.
DrainCompletes ==
  \A c \in Conns : sseShutdown /\ conn[c].pc # "idle" ~> conn[c].pc = "done"

\* A client that hangs up has its handler return and its subscription released,
\* so the key counts as detached again and its backlog fills.
HangupReleases ==
  \A c \in Conns :
    conn[c].client = "gone" ~> conn[c].pc = "done" /\ conn[c].id \notin DOMAIN subs

\* An entry queued for a connected client is written to it, or skipped, unless
\* the stream ends: a ticker that is always ready does not starve the entries.
QueuedGetsOut ==
  \A c \in Conns, n \in 1..MaxPublish :
    conn[c].pc = "select" /\ n \in Range(subs[conn[c].id].ch)
      ~> n \in Range(conn[c].wire) \cup conn[c].skip \/ conn[c].pc = "done"
=============================================================================
