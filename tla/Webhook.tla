------------------------------- MODULE Webhook -------------------------------
(***************************************************************************)
(* The request pipeline of a backend's server: RecordMetrics and its       *)
(* statusRecorder (webhookcore/recorder.go), Auth and DrainGate            *)
(* (middleware.go), AdminAuth and CloseSSE (core.go), the health, readiness*)
(* and image handlers, together with the shutdown of the server.           *)
(*                                                                         *)
(* Each request runs on a goroutine of its own, through the chain of       *)
(* middlewares of its route and then its handler.  A step ends where the   *)
(* goroutine reads or writes shared state, or waits.  The replay cache is  *)
(* the set of pairs it holds, which may forget any of them at any time:    *)
(* when it does is the subject of ReplayCache.  /logs is reduced to what   *)
(* LogStream shows of it: it streams until the client leaves or it sees    *)
(* sseShutdown, and looks at neither while a write is blocked.             *)
(***************************************************************************)
EXTENDS Integers, Sequences, FiniteSets

CONSTANTS
  Requests,        \* the requests that may arrive
  Pairs,           \* genuine (timestamp, signature) pairs, as strings
  Metrics,         \* FALSE: nil metrics, no instrumentation
  Endpoints,       \* the allowlist handed to metrics.New
  Images,          \* FALSE: no image lister is wired
  Hook             \* FALSE: no image revision hook is wired

ASSUME WebhookAssumption ==
  /\ Metrics \in BOOLEAN /\ Images \in BOOLEAN /\ Hook \in BOOLEAN

Routes == {"trigger", "logs", "images", "health", "readyz", "metrics", "llm"}
Guarded == {"trigger", "images", "logs", "metrics"}

(***************************************************************************)
(* What a request brings along: nothing valid (no signature, a forged one, *)
(* a timestamp out of the window), a body over the cap (on a route that    *)
(* takes one), the right bearer token, an empty bearer token, or a genuine *)
(* pair, though perhaps one that was signed for another request.           *)
(***************************************************************************)
Creds(route) ==
  CASE route = "trigger" -> {"none", "big"} \cup Pairs
    [] route \in {"images", "logs"} -> {"none"} \cup Pairs
    [] route = "metrics" -> {"none", "token", "blank"} \cup Pairs
    [] OTHER -> {"none"}

VARIABLES
  token,        \* whether a metrics token is configured
  signs,        \* Pairs -> the route it was signed for, known when it is first seen
  draining,     \* c.draining
  sseShutdown,  \* whether c.sseShutdown is closed
  server,       \* "up", "closing" (Shutdown waits for its requests) or "down"
  recorded,     \* the pairs in the replay cache
  forgotten,    \* history: the pairs it has dropped
  req,          \* Requests -> the state of the request
  counts        \* WebhookRequestsTotal: labels -> how often they were counted

webhookVars == <<token, signs, draining, sseShutdown, server, recorded, forgotten, req, counts>>

(***************************************************************************)
(* status, wrote  the statusRecorder                                       *)
(* sent           the final status the server sends, 0 if none yet         *)
(* todo           the middlewares still ahead                              *)
(* ran            history: whether the handler was reached                 *)
(* late           history: whether the drain had begun when it arrived     *)
(* end            history: how the handler ended                           *)
(***************************************************************************)
New == [pc |-> "new", route |-> "health", cred |-> "none", todo |-> <<>>, status |-> 200,
        wrote |-> FALSE, sent |-> 0, ran |-> FALSE, late |-> FALSE, end |-> "none"]

WebhookInit ==
  /\ token \in BOOLEAN
  /\ signs = [p \in Pairs |-> "unsigned"]
  /\ draining = FALSE /\ sseShutdown = FALSE
  /\ server = "up"
  /\ recorded = {} /\ forgotten = {}
  /\ req = [r \in Requests |-> New]
  /\ counts = [l \in {} |-> 0]

\* The middlewares of a route; their order on a mutating one is the backend's.
Middlewares(route) ==
  CASE route = "trigger" -> {<<"gate", "auth">>, <<"auth", "gate">>}
    [] route \in {"images", "logs"} -> {<<"auth">>}
    [] route = "metrics" -> {<<"admin">>}
    [] OTHER -> {<<>>}

\* A connection that was opened before Shutdown may still carry a request.  If it
\* brings a pair, that was signed for this route or for another one.
Arrive(r, route, cred, signed) ==
  /\ req[r].pc = "new"
  /\ server # "down"
  /\ \E todo \in Middlewares(route) :
       req' = [req EXCEPT ![r] = [New EXCEPT !.pc = "chain", !.route = route, !.cred = cred,
                                             !.todo = todo, !.late = draining]]
  /\ \/ cred \notin Pairs /\ UNCHANGED signs
     \/ /\ cred \in Pairs /\ signs[cred] \in {"unsigned", signed}
        /\ signs' = [signs EXCEPT ![cred] = signed]
  /\ UNCHANGED <<token, draining, sseShutdown, server, recorded, forgotten, counts>>

-----------------------------------------------------------------------------
(* statusRecorder over the server's ResponseWriter, which sends the first   *)
(* final status and treats 1xx as informational.                            *)

Final(code) == code >= 200

WriteHeader(q, code) ==
  [q EXCEPT !.status = IF q.wrote THEN @ ELSE code, !.wrote = TRUE,
            !.sent = IF @ = 0 /\ Final(code) THEN code ELSE @]

Write(q) ==
  [q EXCEPT !.status = IF q.wrote THEN @ ELSE 200, !.wrote = TRUE,
            !.sent = IF @ = 0 THEN 200 ELSE @]

\* WriteJSON and WriteError.
WriteJSON(q, code) == Write(WriteHeader(q, code))

Replied(q, code) == [WriteJSON(q, code) EXCEPT !.pc = "replied"]

Set(r, q) ==
  /\ req' = [req EXCEPT ![r] = q]
  /\ UNCHANGED <<token, signs, draining, sseShutdown, server, forgotten, counts>>

-----------------------------------------------------------------------------
(* The middlewares *)

At(r, m) == req[r].pc = "chain" /\ req[r].todo # <<>> /\ Head(req[r].todo) = m
Onward(q) == [q EXCEPT !.todo = Tail(@)]

\* The signature covers method, URI and body.
Signed(q) == q.cred \in Pairs /\ signs[q.cred] = q.route

\* Auth: 413 for a body over the cap, or one that cannot be read to its end, before
\* the signature is looked at; 401 without a valid signature or for a pair the
\* cache holds; else the pair is recorded and the request goes on.
Verified(r) ==
  LET q == req[r] IN
  \/ /\ q.cred \in Pairs \cup {"big"}
     /\ Set(r, Replied(q, 413)) /\ UNCHANGED recorded
  \/ /\ ~(Signed(q) /\ q.cred \notin recorded) /\ q.cred # "big"
     /\ Set(r, Replied(q, 401)) /\ UNCHANGED recorded
  \/ /\ Signed(q) /\ q.cred \notin recorded
     /\ Set(r, Onward(q)) /\ recorded' = recorded \cup {q.cred}

Auth(r) == At(r, "auth") /\ Verified(r)

\* The replay cache drops a pair, which has expired or makes room for another.
Forget(p) ==
  /\ p \in recorded
  /\ recorded' = recorded \ {p} /\ forgotten' = forgotten \cup {p}
  /\ UNCHANGED <<token, signs, draining, sseShutdown, server, req, counts>>

\* AdminAuth: the configured token, or else as Auth.
BearerUnconfigured(cred) == (token /\ cred = "token") \/ (~token /\ cred = "blank")
Bearer(cred) == token /\ cred = "token"

AdminAuth(r) ==
  /\ At(r, "admin")
  /\ \/ Bearer(req[r].cred) /\ Set(r, Onward(req[r])) /\ UNCHANGED recorded
     \/ ~Bearer(req[r].cred) /\ Verified(r)

DrainGateAtStart(r) == At(r, "gate") /\ Set(r, Onward(req[r])) /\ UNCHANGED recorded
DrainGate(r) ==
  /\ At(r, "gate")
  /\ Set(r, IF draining THEN Replied(req[r], 503) ELSE Onward(req[r]))
  /\ UNCHANGED recorded

-----------------------------------------------------------------------------
(* The handlers *)

Reached(r, route) == req[r].pc = "chain" /\ req[r].todo = <<>> /\ req[r].route = route
Ran(r) == [req[r] EXCEPT !.ran = TRUE]

HandleReadyz(r) ==
  /\ Reached(r, "readyz")
  /\ Set(r, Replied(Ran(r), IF draining THEN 503 ELSE 200))
  /\ UNCHANGED recorded

\* No lister, a lister that fails, or the list.
HandleImages(r) ==
  /\ Reached(r, "images")
  /\ \E code \in IF Images THEN {200, 502} ELSE {500} : Set(r, Replied(Ran(r), code))
  /\ UNCHANGED recorded

\* The hook runs on the handler's goroutine, with a context of 500 ms.
HandleHealth(r) ==
  /\ Reached(r, "health")
  /\ Set(r, IF Hook THEN [Ran(r) EXCEPT !.pc = "hook"] ELSE Replied(Ran(r), 200))
  /\ UNCHANGED recorded

\* ImageRevisionHook's lookup ends in time, with an answer, an error or a panic,
\* which is recovered and reads as unknown.
HookPanicEscapes(r) ==
  /\ req[r].pc = "hook"
  /\ Set(r, [req[r] EXCEPT !.pc = "panicked"]) /\ UNCHANGED recorded
HookReturns(r) ==
  /\ req[r].pc = "hook"
  /\ Set(r, Replied(req[r], 200)) /\ UNCHANGED recorded

\* The timeout of the context; the hook must return once it is done.
HookTimeoutNone(r) == req[r].pc = "hook" /\ UNCHANGED webhookVars
HookTimeout(r) ==
  /\ req[r].pc = "hook"
  /\ Set(r, [req[r] EXCEPT !.pc = "hookdone"]) /\ UNCHANGED recorded
HookGivesUp(r) ==
  /\ req[r].pc = "hookdone"
  /\ Set(r, Replied(req[r], 200)) /\ UNCHANGED recorded

\* promhttp.
HandleMetrics(r) ==
  /\ Reached(r, "metrics")
  /\ Set(r, Replied(Ran(r), 200)) /\ UNCHANGED recorded

\* A backend's handler: 400 from Decode, any other answer, the 500 of WriteJSON for
\* one that does not marshal (the kit's own answers do), none at all (the server
\* then sends 200), or a panic.
HandleTrigger(r) ==
  /\ Reached(r, "trigger")
  /\ \/ \E code \in {200, 400, 429, 500} : Set(r, Replied(Ran(r), code))
     \/ \E pc \in {"replied", "panicked"} : Set(r, [Ran(r) EXCEPT !.pc = pc])
  /\ UNCHANGED recorded

\* The LLM proxy: the reverse proxy passes an informational response of the
\* upstream on, then its final one (or the proxy's own); the copying of the body
\* may abort.
PassInformational(r) ==
  /\ Reached(r, "llm") /\ ~req[r].wrote
  /\ Set(r, WriteHeader(Ran(r), 103)) /\ UNCHANGED recorded
ServeLLM(r) ==
  /\ Reached(r, "llm")
  /\ \E code \in {200, 502}, pc \in {"replied", "panicked"} :
       Set(r, [Replied(Ran(r), code) EXCEPT !.pc = pc])
  /\ UNCHANGED recorded

HandleLogs(r) ==
  /\ Reached(r, "logs")
  /\ Set(r, [Write(Ran(r)) EXCEPT !.pc = "streaming"]) /\ UNCHANGED recorded
\* A write waits for a client that does not read; it ends when the client does, or
\* fails with the connection.
Block(r) ==
  /\ req[r].pc = "streaming"
  /\ Set(r, [req[r] EXCEPT !.pc = "blocked"]) /\ UNCHANGED recorded
Unblock(r) ==
  /\ req[r].pc = "blocked"
  /\ \E pc \in {"streaming", "replied"} : Set(r, [req[r] EXCEPT !.pc = pc])
  /\ UNCHANGED recorded
SeeShutdown(r) ==
  /\ req[r].pc = "streaming" /\ sseShutdown
  /\ Set(r, [req[r] EXCEPT !.pc = "replied"]) /\ UNCHANGED recorded
SeeHangup(r) ==
  /\ req[r].pc = "streaming"
  /\ Set(r, [req[r] EXCEPT !.pc = "replied"]) /\ UNCHANGED recorded

-----------------------------------------------------------------------------
(* RecordMetrics' deferred function, which also runs on a panic *)

NormalizeEndpoint(route) == IF route \in Endpoints THEN route ELSE "other"

Bucket(status, completed) ==
  IF ~completed THEN "aborted"
  ELSE IF status = 429 THEN "rate_limited"
  ELSE IF status >= 400 THEN "error" ELSE "success"

Label(q, completed) ==
  [endpoint |-> NormalizeEndpoint(q.route), status |-> q.status, code |-> Bucket(q.status, completed)]

Count(l) == IF l \in DOMAIN counts THEN counts[l] ELSE 0
Inc(label) == [l \in DOMAIN counts \cup {label} |-> IF l = label THEN Count(l) + 1 ELSE counts[l]]

Observed(r) == IF Metrics THEN Inc(Label(req[r], req[r].pc = "replied")) ELSE counts

\* The handler has returned or panicked; the server completes the response, or
\* closes the connection.
FinishPlain(r) ==
  LET q == req[r] IN
  /\ q.pc \in {"replied", "panicked"}
  /\ counts' = IF q.pc = "replied" THEN Observed(r) ELSE counts
  /\ req' = [req EXCEPT ![r].pc = "done", ![r].end = q.pc,
                        ![r].sent = IF q.pc = "replied" /\ @ = 0 THEN 200 ELSE @]
  /\ UNCHANGED <<token, signs, draining, sseShutdown, server, recorded, forgotten>>
Finish(r) ==
  LET q == req[r] IN
  /\ q.pc \in {"replied", "panicked"}
  /\ counts' = Observed(r)
  /\ req' = [req EXCEPT ![r].pc = "done", ![r].end = q.pc,
                        ![r].sent = IF q.pc = "replied" /\ @ = 0 THEN 200 ELSE @]
  /\ UNCHANGED <<token, signs, draining, sseShutdown, server, recorded, forgotten>>

-----------------------------------------------------------------------------
(* The backend's shutdown sequence: the flag, then Shutdown, whose hook is  *)
(* CloseSSE and which returns when no request is left.                      *)

BeginDrain ==
  /\ ~draining /\ draining' = TRUE
  /\ UNCHANGED <<token, signs, sseShutdown, server, recorded, forgotten, req, counts>>

Shutdown ==
  /\ draining /\ server = "up" /\ server' = "closing"
  /\ UNCHANGED <<token, signs, draining, sseShutdown, recorded, forgotten, req, counts>>

CloseSSE ==
  /\ server = "closing" /\ sseShutdown' = TRUE
  /\ UNCHANGED <<token, signs, draining, server, recorded, forgotten, req, counts>>

ShutdownReturns ==
  /\ server = "closing"
  /\ \A r \in Requests : req[r].pc \in {"new", "done"}
  /\ server' = "down"
  /\ UNCHANGED <<token, signs, draining, sseShutdown, recorded, forgotten, req, counts>>

\* What a request's goroutine does by itself, in bounded time.
Own(r) ==
  \/ DrainGate(r) \/ HandleReadyz(r) \/ HandleHealth(r) \/ HandleLogs(r)
  \/ HookTimeout(r) \/ Finish(r)

\* What takes as long as the client, the image store, the upstream or the backend
\* takes: reading the body, writing a long answer, a handler of the backend.
Outward(r) ==
  \/ Auth(r) \/ AdminAuth(r)
  \/ HandleImages(r) \/ HandleMetrics(r) \/ HandleTrigger(r)
  \/ PassInformational(r) \/ ServeLLM(r)
  \/ HookReturns(r) \/ HookGivesUp(r)
  \/ Block(r) \/ Unblock(r) \/ SeeHangup(r)

WebhookNext ==
  \/ \E r \in Requests :
       \/ Own(r) \/ SeeShutdown(r) \/ Outward(r)
       \/ \E route \in Routes : \E cred \in Creds(route), signed \in Guarded :
            Arrive(r, route, cred, signed)
  \/ \E p \in Pairs : Forget(p)
  \/ BeginDrain \/ Shutdown \/ CloseSSE \/ ShutdownReturns

WebhookSpec == WebhookInit /\ [][WebhookNext]_webhookVars

(***************************************************************************)
(* Fairness: goroutines are scheduled, the timer of the lookup fires, and  *)
(* what the server calls on shutdown is called.  A select that is reached  *)
(* again and again with sseShutdown closed takes that case at some time.   *)
(* Nothing that waits for somebody else is assumed to end.                 *)
(***************************************************************************)
FairWebhookSpec ==
  /\ WebhookSpec
  /\ \A r \in Requests : SF_webhookVars(Own(r) \/ SeeShutdown(r))
  /\ WF_webhookVars(CloseSSE \/ ShutdownReturns)
-----------------------------------------------------------------------------
(* Properties *)

\* Type invariant.
WebhookTypeOK ==
  /\ token \in BOOLEAN /\ draining \in BOOLEAN /\ sseShutdown \in BOOLEAN
  /\ server \in {"up", "closing", "down"}
  /\ signs \in [Pairs -> Guarded \cup {"unsigned"}]
  /\ recorded \subseteq Pairs /\ forgotten \subseteq Pairs
  /\ counts \in [DOMAIN counts -> Nat \ {0}]
  /\ \A l \in DOMAIN counts : l.endpoint \in Endpoints \cup {"other"}
  /\ \A r \in Requests :
       /\ req[r].pc \in {"new", "chain", "hook", "hookdone", "streaming", "blocked",
                         "replied", "panicked", "done"}
       /\ req[r].route \in Routes /\ req[r].cred \in Creds(req[r].route)
       /\ req[r].end \in {"none", "replied", "panicked"}

Done == {r \in Requests : req[r].pc = "done"}
Ended(how) == {r \in Done : req[r].end = how}
Counted(q) == Label(q, q.end = "replied")

\* What the series should say of a request that was answered.
Answer(q) == [endpoint |-> NormalizeEndpoint(q.route), status |-> q.sent,
              code |-> Bucket(q.sent, TRUE)]

\* Every request that ended is counted once, under the label of its end, also
\* after a panic, and one that was answered is counted under the status its client
\* was sent, whichever middleware or handler sent it, unless an informational
\* response came first.
CountedAsAnswered ==
  /\ WebhookTypeOK
  /\ Metrics =>
       /\ \A l \in DOMAIN counts \cup {Counted(req[r]) : r \in Done} :
            Count(l) = Cardinality({r \in Done : Counted(req[r]) = l})
       /\ \A r \in Ended("replied") :
            Final(req[r].status) =>
              Count(Answer(req[r])) =
                Cardinality({s \in Ended("replied") : /\ Final(req[s].status)
                                                      /\ Answer(req[s]) = Answer(req[r])})

\* statusRecorder is there "to capture the written HTTP status": when the handler
\* has returned, the recorder holds the status of the response.
StatusCaptured == \A r \in Ended("replied") : req[r].status = req[r].sent

\* "DrainGate refuses mutating requests with 503 once graceful shutdown has
\* begun": one that arrives after that never reaches its handler, wherever the
\* gate stands in the chain, and /readyz no longer says ready.
DrainSticks ==
  \A r \in Requests :
    req[r].late =>
      /\ req[r].route = "trigger" => ~req[r].ran
      /\ req[r].route = "readyz" => req[r].sent # 200

\* The requests past authentication that did not bring the bearer token.
Bearing(q) == q.route = "metrics" /\ token /\ q.cred = "token"
Vouched(q) == q.route \in Guarded /\ q.todo \in {<<>>, <<"gate">>} /\ ~Bearing(q)

\* A guarded handler runs only for the configured bearer token or for a pair that
\* was signed for its route.  A pair lets a second request past only if the cache
\* has dropped it, and a request that brings its own pair is refused only if a
\* copy of it has been let past: no other request uses the pair up, whether it was
\* turned away, asks for another route or stands before the gate.
PairsAuthorise ==
  /\ \A r \in Requests :
       req[r].ran /\ req[r].route \in Guarded => Bearing(req[r]) \/ Signed(req[r])
  /\ \A r, s \in {t \in Requests : Vouched(req[t])} :
       r # s /\ req[r].cred = req[s].cred => req[r].cred \in forgotten
  /\ \A r \in Requests :
       req[r].sent = 401 /\ Signed(req[r]) =>
         \E s \in Requests : s # r /\ Vouched(req[s]) /\ req[s].cred = req[r].cred

\* "A panic is logged and reads as unknown so /health still answers": a probe that
\* ends was answered 200.
HealthAnswers ==
  \A r \in Requests :
    req[r].pc = "done" /\ req[r].route = "health" => req[r].end = "replied" /\ req[r].sent = 200

\* Whether the request waits for somebody else, who may never act: its client (for
\* the rest of the body, or to read), the image store, the upstream of the proxy, the
\* backend's handler, or a lookup whose context is done.
Waits(r) ==
  \/ req[r].pc = "chain" /\ req[r].todo # <<>> /\ Head(req[r].todo) \in {"auth", "admin"}
  \/ req[r].pc = "chain" /\ req[r].todo = <<>> /\ req[r].route \in {"images", "metrics", "trigger", "llm"}
  \/ req[r].pc \in {"hookdone", "blocked"}

\* Once Shutdown waits, it returns, unless a request waits for somebody else for
\* ever: no /logs stream whose client reads, also one that connects after CloseSSE,
\* no probe and no gate holds it up, and a hanging lookup is told to give up.
ShutdownCompletes ==
  (\A r \in Requests : []<>~Waits(r)) => (server = "closing" ~> server = "down")
=============================================================================
