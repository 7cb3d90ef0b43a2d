---------------------------- MODULE WebhookProofs ----------------------------
(***************************************************************************)
(* Proofs about the request pipeline, for any number of requests, any      *)
(* pairs and either order of the middlewares.                              *)
(*                                                                         *)
(* What a request may still do is in the middlewares it has ahead.         *)
(* RequestOK ties its history to them: one that arrived late has the gate  *)
(* ahead, one whose handler ran has none left.  PairsOK ties the pairs of  *)
(* the replay cache to the requests that are past authentication, and      *)
(* Tallied says that the series counts the requests that ended, by label.  *)
(***************************************************************************)
EXTENDS Webhook, FiniteSetTheorems, TLAPS

-----------------------------------------------------------------------------
(* The inductive invariant *)

Todos(route) ==
  CASE route = "trigger" -> {<<>>, <<"auth">>, <<"gate">>, <<"gate", "auth">>, <<"auth", "gate">>}
    [] route \in {"images", "logs"} -> {<<>>, <<"auth">>}
    [] route = "metrics" -> {<<>>, <<"admin">>}
    [] OTHER -> {<<>>}

Gated == {<<"gate">>, <<"gate", "auth">>, <<"auth", "gate">>}

PCs == {"new", "chain", "hook", "hookdone", "streaming", "blocked", "replied", "panicked", "done"}

Request == [pc : PCs, route : Routes, cred : {"none", "big", "token", "blank"} \cup Pairs,
            todo : {<<>>, <<"admin">>, <<"auth">>} \cup Gated, status : Nat, wrote : BOOLEAN,
            sent : Nat, ran : BOOLEAN, late : BOOLEAN, end : {"none", "replied", "panicked"}]

\* The recorder against the status the server sends.
RecorderOK(q) ==
  /\ q.pc # "done" => \/ ~q.wrote /\ q.status = 200 /\ q.sent = 0
                      \/ q.wrote /\ (Final(q.status) => q.sent = q.status)
  /\ q.pc = "done" /\ q.end = "replied" /\ Final(q.status) => q.sent = q.status
  /\ q.pc = "done" => q.end \in {"replied", "panicked"}

\* /health and /readyz.
ProbeOK(q) ==
  /\ q.route = "health" =>
       \/ q.pc \in {"new", "chain", "hook", "hookdone"} /\ q.sent = 0
       \/ q.pc = "replied" /\ q.sent = 200
       \/ q.pc = "done" /\ q.end = "replied" /\ q.sent = 200
  /\ q.route = "readyz" =>
       \/ q.pc = "chain" /\ q.sent = 0
       \/ q.pc \in {"replied", "done"} /\ (q.late => q.sent = 503)
  /\ q.pc \in {"hook", "hookdone"} => q.route = "health"
  /\ q.pc \in {"streaming", "blocked"} => q.route = "logs"
  /\ q.pc = "new" => q.route = "health"

RequestOK(q) ==
  /\ q \in Request /\ q.cred \in Creds(q.route) /\ q.todo \in Todos(q.route)
  /\ q.ran => q.todo = <<>>
  /\ q.late => draining /\ (q.route = "trigger" => q.todo \in Gated)
  /\ RecorderOK(q) /\ ProbeOK(q)

\* What the cache holds, or held once, are the pairs of the requests that are past
\* authentication; and who is refused with a pair of its own met one of these.
PairsOK ==
  /\ signs \in [Pairs -> Guarded \cup {"unsigned"}]
  /\ recorded \subseteq Pairs /\ forgotten \subseteq Pairs
  /\ \A r \in Requests : req[r].pc # "new" /\ req[r].cred \in Pairs => signs[req[r].cred] \in Guarded
  /\ \A r \in Requests : Vouched(req[r]) => Signed(req[r]) /\ req[r].cred \in recorded \cup forgotten
  /\ \A r, s \in Requests :
       Vouched(req[r]) /\ Vouched(req[s]) /\ r # s /\ req[r].cred = req[s].cred =>
         req[r].cred \in forgotten
  /\ \A p \in recorded : \E s \in Requests : Vouched(req[s]) /\ req[s].cred = p
  /\ \A r \in Requests :
       req[r].sent = 401 /\ Signed(req[r]) =>
         \E s \in Requests : s # r /\ Vouched(req[s]) /\ req[s].cred = req[r].cred

CountedWith(l) == {r \in Done : Counted(req[r]) = l}

Tallied ==
  /\ IsFiniteSet(Done)
  /\ counts \in [DOMAIN counts -> Nat \ {0}]
  /\ \A l \in DOMAIN counts : l.endpoint \in Endpoints \cup {"other"}
  /\ Metrics => \A l : Count(l) = Cardinality(CountedWith(l))

RequestsOK == DOMAIN req = Requests /\ \A r \in Requests : RequestOK(req[r])

ServerOK ==
  /\ token \in BOOLEAN /\ draining \in BOOLEAN /\ sseShutdown \in BOOLEAN /\ server \in {"up", "closing", "down"}

WebhookInv == ServerOK /\ RequestsOK /\ PairsOK /\ Tallied

\* A fresh server.
LEMMA WebhookInitInv == WebhookInit => WebhookInv
<1> SUFFICES ASSUME WebhookInit PROVE WebhookInv
  OBVIOUS
<1>1. New \in Request /\ New.route = "health" /\ New.cred = "none" /\ New.todo = <<>>
      /\ New.pc = "new" /\ ~New.ran /\ ~New.late /\ ~New.wrote /\ New.status = 200 /\ New.sent = 0
  BY DEF New, Request, PCs, Routes, Gated
<1>2. RequestOK(New)
  BY <1>1 DEF RequestOK, Creds, Todos, RecorderOK, ProbeOK
<1>3. RequestsOK
  BY <1>2 DEF WebhookInit, RequestsOK
<1>4. PairsOK
  BY <1>1 DEF WebhookInit, PairsOK, Vouched, Guarded
<1>5. Tallied
  <2>1. Done = {}
    BY <1>1 DEF WebhookInit, Done
  <2>2. \A l : CountedWith(l) = {}
    BY <2>1 DEF CountedWith
  <2> QED BY <2>1, <2>2, FS_EmptySet DEF WebhookInit, Tallied, Count
<1> QED BY <1>3, <1>4, <1>5 DEF WebhookInit, WebhookInv, ServerOK

-----------------------------------------------------------------------------
(* What the steps of one request have in common *)

Codes == {200, 400, 401, 413, 429, 500, 502, 503}

\* Request p is q, answered with a code.
AnsweredWith(p, q, code) ==
  /\ p \in Request /\ p.pc = "replied" /\ p.route = q.route /\ p.cred = q.cred
  /\ p.todo = q.todo /\ p.ran = q.ran /\ p.late = q.late /\ p.end = q.end
  /\ p.wrote = TRUE /\ p.status = (IF q.wrote THEN q.status ELSE code)
  /\ p.sent = IF q.sent = 0 THEN code ELSE q.sent

\* WriteJSON of a final status, field by field.
LEMMA RepliedFields ==
  ASSUME NEW q \in Request, NEW code \in Codes
  PROVE  AnsweredWith(Replied(q, code), q, code)
<1> USE DEF Codes
<1> DEFINE h == WriteHeader(q, code)
           w == Write(h)
<1>1. /\ h \in Request /\ h.pc = q.pc /\ h.route = q.route /\ h.cred = q.cred
      /\ h.todo = q.todo /\ h.ran = q.ran /\ h.late = q.late /\ h.end = q.end
      /\ h.wrote = TRUE /\ h.status = (IF q.wrote THEN q.status ELSE code)
      /\ h.sent = IF q.sent = 0 THEN code ELSE q.sent
  <2> DEFINE st == IF q.wrote THEN q.status ELSE code
             se == IF q.sent = 0 THEN code ELSE q.sent
  <2>1. h = [q EXCEPT !.status = st, !.wrote = TRUE, !.sent = se]
    <3>1. Final(code)
      BY DEF Final
    <3> QED BY <3>1 DEF WriteHeader
  <2>2. st \in Nat /\ se \in Nat
    BY DEF Request
  <2> HIDE DEF st, se, h
  <2>3. h \in Request
    BY <2>1, <2>2, ZenonT(60) DEF Request
  <2>4. /\ h.pc = q.pc /\ h.route = q.route /\ h.cred = q.cred
        /\ h.todo = q.todo /\ h.ran = q.ran /\ h.late = q.late /\ h.end = q.end
        /\ h.wrote = TRUE /\ h.status = st /\ h.sent = se
    BY <2>1 DEF Request
  <2> QED BY <2>3, <2>4 DEF st, se
<1> HIDE DEF h
<1>2. h.sent # 0
  BY <1>1 DEF Request
<1>3. /\ w \in Request /\ w.pc = h.pc /\ w.route = h.route /\ w.cred = h.cred
      /\ w.todo = h.todo /\ w.ran = h.ran /\ w.late = h.late /\ w.end = h.end
      /\ w.wrote = TRUE /\ w.status = h.status /\ w.sent = h.sent
  <2>1. w = [h EXCEPT !.status = h.status, !.wrote = TRUE, !.sent = h.sent]
    BY <1>1, <1>2, ZenonT(60) DEF Write
  <2> HIDE DEF w
  <2>2. w \in Request
    BY <1>1, <2>1, ZenonT(60) DEF Request
  <2> QED BY <1>1, <2>1, <2>2 DEF Request
<1> HIDE DEF w
<1>4. Replied(q, code) = [w EXCEPT !.pc = "replied"]
  BY DEF Replied, WriteJSON, w, h
<1> DEFINE p == [w EXCEPT !.pc = "replied"]
<1>5. AnsweredWith(p, q, code)
  BY <1>1, <1>3 DEF AnsweredWith, Request, PCs
<1> QED BY <1>4, <1>5

\* What the middlewares do to the chain.
LEMMA Chains ==
  /\ Tail(<<"gate">>) = <<>> /\ Tail(<<"auth">>) = <<>> /\ Tail(<<"admin">>) = <<>>
  /\ Tail(<<"gate", "auth">>) = <<"auth">> /\ Tail(<<"auth", "gate">>) = <<"gate">>
  /\ Head(<<"gate">>) = "gate" /\ Head(<<"auth">>) = "auth" /\ Head(<<"admin">>) = "admin"
  /\ Head(<<"gate", "auth">>) = "gate" /\ Head(<<"auth", "gate">>) = "auth"
OBVIOUS

\* Steps that end no request, and add no pair or the one of the request itself.
LEMMA RequestStep ==
  ASSUME WebhookInv, NEW r \in Requests, NEW q, RequestOK(q), req' = [req EXCEPT ![r] = q],
         UNCHANGED <<token, draining, sseShutdown, server, forgotten, counts>>,
         req[r].pc # "done", q.pc \notin {"new", "done"},
         signs' \in [Pairs -> Guarded \cup {"unsigned"}],
         \A p \in Pairs : signs[p] \in Guarded => signs'[p] = signs[p],
         q.cred \in Pairs => signs'[q.cred] \in Guarded,
         Vouched(req[r]) => Vouched(q) /\ q.cred = req[r].cred /\ q.route = req[r].route,
         \/ recorded' = recorded /\ (Vouched(q) => Vouched(req[r]))
         \/ /\ Signed(q) /\ q.cred \notin recorded /\ Vouched(q) /\ ~Vouched(req[r])
            /\ recorded' = recorded \cup {q.cred},
         q.sent = 401 =>
           /\ signs' = signs
           /\ \/ req[r].sent = 401 /\ q.cred = req[r].cred /\ q.route = req[r].route
              \/ ~Vouched(req[r]) /\ (Signed(q) => q.cred \in recorded)
  PROVE  WebhookInv'
<1>1. DOMAIN req' = Requests /\ req'[r] = q /\ \A x \in Requests : x # r => req'[x] = req[x]
  BY DEF WebhookInv, RequestsOK
<1>2. \A x : (RequestOK(x)' <=> RequestOK(x)) /\ (Vouched(x)' <=> Vouched(x))
  BY DEF RequestOK, Vouched, Bearing
<1>3. RequestsOK'
  <2>1. ASSUME NEW x \in Requests PROVE RequestOK(req[x])'
    <3>1. PICK y : y = req'[x]
      OBVIOUS
    <3>2. RequestOK(y)
      BY <1>1, <3>1 DEF WebhookInv, RequestsOK
    <3> QED BY <1>2, <3>1, <3>2
  <2> QED BY <1>1, <2>1 DEF RequestsOK
<1>4. PairsOK'
  <2> DEFINE Signs(x) == x.cred \in Pairs /\ signs'[x.cred] = x.route
  <2>1. \A x \in Requests : (Vouched(req[x])' <=> Vouched(req'[x])) /\ (Signed(req[x])' <=> Signs(req'[x]))
    BY DEF Vouched, Bearing, Signed
  <2>2. \A x : Signed(x) /\ x.route \in Guarded => Signs(x)
    BY DEF Signed
  <2>3. \A x \in Requests : Vouched(req[x]) => Vouched(req'[x]) /\ req'[x].cred = req[x].cred
    BY <1>1
  <2>4. PairsOK
    BY DEF WebhookInv
  <2> HIDE DEF Signs
  <2>5. ASSUME NEW x \in Requests, req'[x].pc # "new", req'[x].cred \in Pairs
        PROVE  signs'[req'[x].cred] \in Guarded
    BY <1>1, <2>4, <2>5 DEF PairsOK
  <2>6. ASSUME NEW x \in Requests, Vouched(req'[x])
        PROVE  Signs(req'[x]) /\ req'[x].cred \in recorded' \cup forgotten
    <3>1. CASE x # r \/ Vouched(req[r])
      <4>1. Vouched(req[x]) /\ req'[x].cred = req[x].cred /\ req'[x].route = req[x].route
        BY <1>1, <2>6, <3>1
      <4>2. Signed(req[x]) /\ req[x].cred \in recorded \cup forgotten
        BY <2>4, <4>1 DEF PairsOK
      <4>3. Signed(req'[x]) /\ req'[x].route \in Guarded
        BY <4>1, <4>2 DEF Signed, Vouched
      <4> QED BY <2>2, <4>1, <4>2, <4>3
    <3>2. CASE x = r /\ ~Vouched(req[r])
      BY <1>1, <2>2, <2>6, <3>2 DEF Vouched
    <3> QED BY <3>1, <3>2
  <2>7. ASSUME NEW x \in Requests, NEW y \in Requests, x # y, Vouched(req'[x]), Vouched(req'[y]),
               req'[x].cred = req'[y].cred
        PROVE  req'[x].cred \in forgotten
    <3>1. CASE recorded' = recorded /\ (Vouched(q) => Vouched(req[r]))
      BY <1>1, <2>4, <2>7, <3>1 DEF PairsOK
    <3>2. CASE q.cred \notin recorded /\ ~Vouched(req[r])
      BY <1>1, <2>4, <2>7, <3>2 DEF PairsOK
    <3> QED BY <3>1, <3>2
  <2>8. ASSUME NEW p \in recorded' PROVE \E s \in Requests : Vouched(req'[s]) /\ req'[s].cred = p
    <3>1. CASE p \in recorded
      BY <2>3, <2>4, <3>1 DEF PairsOK
    <3>2. CASE p \notin recorded
      BY <1>1, <3>2
    <3> QED BY <3>1, <3>2
  <2>9. ASSUME NEW x \in Requests, req'[x].sent = 401, Signs(req'[x])
        PROVE  \E s \in Requests : s # x /\ Vouched(req'[s]) /\ req'[s].cred = req'[x].cred
    <3>1. CASE x = r /\ req[r].sent # 401
      <4>1. ~Vouched(req[r]) /\ Signed(q)
        BY <1>1, <2>9, <3>1 DEF Signed, Signs
      <4>2. q.cred \in recorded
        BY <1>1, <2>9, <3>1, <4>1
      <4>3. PICK s \in Requests : Vouched(req[s]) /\ req[s].cred = q.cred
        BY <2>4, <4>2 DEF PairsOK
      <4> QED BY <1>1, <2>3, <3>1, <4>1, <4>3
    <3>2. CASE x # r \/ req[r].sent = 401
      <4>1. CASE x = r /\ ~(q.cred = req[r].cred /\ q.route = req[r].route)
        <5>1. ~Vouched(req[r]) /\ Signed(q)
          BY <1>1, <2>9, <4>1 DEF Signed, Signs
        <5>2. q.cred \in recorded
          BY <1>1, <2>9, <4>1, <5>1
        <5>3. PICK s \in Requests : Vouched(req[s]) /\ req[s].cred = q.cred
          BY <2>4, <5>2 DEF PairsOK
        <5> QED BY <1>1, <2>3, <4>1, <5>1, <5>3
      <4>2. CASE x # r \/ (q.cred = req[r].cred /\ q.route = req[r].route)
        <5>1. req[x].sent = 401 /\ req'[x].cred = req[x].cred /\ req'[x].route = req[x].route
          BY <1>1, <2>9, <3>2, <4>2
        <5>2. req[x].pc # "new"
          BY <5>1 DEF WebhookInv, RequestsOK, RequestOK, ProbeOK
        <5>3. Signed(req[x])
          <6>1. req[x].cred \in Pairs /\ signs[req[x].cred] \in Guarded
            BY <2>4, <2>9, <5>1, <5>2 DEF PairsOK, Signs
          <6> QED BY <2>9, <5>1, <6>1 DEF Signed, Signs
        <5>4. PICK s \in Requests : s # x /\ Vouched(req[s]) /\ req[s].cred = req[x].cred
          BY <2>4, <5>1, <5>3 DEF PairsOK
        <5> QED BY <2>3, <5>1, <5>4
      <4> QED BY <3>2, <4>1, <4>2
    <3> QED BY <3>1, <3>2
  <2>10. recorded' \subseteq Pairs /\ forgotten' \subseteq Pairs /\ forgotten' = forgotten
    BY <2>4 DEF PairsOK, Signed
  <2> QED BY <2>1, <2>5, <2>6, <2>7, <2>8, <2>9, <2>10 DEF PairsOK
<1>5. Tallied'
  <2>1. Done' = Done /\ \A x \in Done : req'[x] = req[x]
    BY <1>1 DEF Done
  <2>2. \A l : CountedWith(l)' = CountedWith(l)
    BY <2>1 DEF CountedWith, Counted, Label
  <2> QED BY <2>1, <2>2 DEF WebhookInv, Tallied, Count
<1> QED BY <1>3, <1>4, <1>5 DEF WebhookInv, ServerOK

\* An answer of a middleware or a handler.
LEMMA ReplyOK ==
  ASSUME NEW q, RequestOK(q), q.pc \notin {"new", "replied", "done"},
         NEW code \in Codes,
         q.route = "health" => code = 200,
         q.route = "readyz" => (q.late => code = 503)
  PROVE  RequestOK(Replied(q, code))
<1>1. q \in Request
  BY DEF RequestOK
<1> DEFINE p == Replied(q, code)
<1>0. AnsweredWith(p, q, code)
  BY <1>1, RepliedFields
<1> HIDE DEF p
<1>2. /\ p \in Request /\ p.pc = "replied" /\ p.route = q.route /\ p.cred = q.cred
      /\ p.todo = q.todo /\ p.ran = q.ran /\ p.late = q.late /\ p.end = q.end
      /\ p.wrote = TRUE /\ p.status = (IF q.wrote THEN q.status ELSE code)
      /\ p.sent = IF q.sent = 0 THEN code ELSE q.sent
  BY <1>0 DEF AnsweredWith
<1>3. RecorderOK(p)
  BY <1>1, <1>2 DEF Codes, RequestOK, RecorderOK, Final, Request
<1>4. ProbeOK(p)
  <2>1. q.route = "health" => p.sent = 200
    BY <1>2 DEF RequestOK, ProbeOK
  <2>2. q.route = "readyz" => (p.late => p.sent = 503)
    BY <1>2 DEF RequestOK, ProbeOK
  <2> QED BY <1>2, <2>1, <2>2 DEF ProbeOK
<1> QED BY <1>2, <1>3, <1>4 DEF RequestOK, p

\* The handler is reached.
LEMMA RanOK ==
  ASSUME NEW q, RequestOK(q), q.todo = <<>>, q.pc # "done"
  PROVE  LET p == [q EXCEPT !.ran = TRUE]
         IN  /\ RequestOK(p) /\ p.pc = q.pc /\ p.route = q.route /\ p.cred = q.cred
             /\ p.todo = q.todo /\ p.late = q.late /\ p.wrote = q.wrote /\ p.sent = q.sent
<1> DEFINE p == [q EXCEPT !.ran = TRUE]
<1>1. /\ p \in Request /\ p.pc = q.pc /\ p.route = q.route /\ p.cred = q.cred
      /\ p.todo = q.todo /\ p.late = q.late /\ p.end = q.end
      /\ p.wrote = q.wrote /\ p.status = q.status /\ p.sent = q.sent
  BY DEF RequestOK, Request
<1> HIDE DEF p
<1>2. RequestOK(p)
  BY <1>1 DEF RequestOK, RecorderOK, ProbeOK
<1> QED BY <1>1, <1>2 DEF p

\* A request only moves on.
LEMMA MoveOK ==
  ASSUME NEW q, RequestOK(q), q.pc # "done", NEW pc \in PCs \ {"done"},
         q.route # "health" \/ (pc \in {"hook", "hookdone"} /\ q.pc \in {"chain", "hook"}),
         pc \in {"hook", "hookdone"} => q.route = "health",
         pc \in {"streaming", "blocked"} => q.route = "logs", pc # "new",
         q.route # "readyz"
  PROVE  LET p == [q EXCEPT !.pc = pc]
         IN  /\ RequestOK(p) /\ p.pc = pc /\ p.route = q.route /\ p.cred = q.cred /\ p.todo = q.todo
             /\ p.sent = q.sent
<1> DEFINE p == [q EXCEPT !.pc = pc]
<1>1. /\ p \in Request /\ p.pc = pc /\ p.route = q.route /\ p.cred = q.cred
      /\ p.todo = q.todo /\ p.late = q.late /\ p.end = q.end /\ p.ran = q.ran
      /\ p.wrote = q.wrote /\ p.status = q.status /\ p.sent = q.sent
  BY DEF RequestOK, Request
<1> HIDE DEF p
<1>2. RecorderOK(p)
  BY <1>1 DEF RequestOK, RecorderOK
<1>3. ProbeOK(p)
  BY <1>1 DEF RequestOK, ProbeOK
<1> QED BY <1>1, <1>2, <1>3 DEF RequestOK, p

\* What a request with a middleware ahead looks like.
LEMMA Ahead ==
  ASSUME NEW q, RequestOK(q), q.todo # <<>>
  PROVE  /\ q.route \in Guarded /\ ~q.ran
         /\ Head(q.todo) = "admin" => q.route = "metrics" /\ q.todo = <<"admin">>
         /\ Head(q.todo) = "gate" => q.route = "trigger" /\ q.todo \in {<<"gate">>, <<"gate", "auth">>}
         /\ Head(q.todo) = "auth" => q.route # "metrics" /\ q.todo \in {<<"auth">>, <<"auth", "gate">>}
<1>1. q.route \in Routes /\ q.todo \in Todos(q.route) /\ (q.ran => q.todo = <<>>)
  BY DEF RequestOK, Request
<1>2. CASE q.route = "trigger"
  <2>1. q.todo \in {<<"auth">>, <<"gate">>, <<"gate", "auth">>, <<"auth", "gate">>}
    BY <1>1, <1>2 DEF Todos
  <2> QED BY <1>1, <1>2, <2>1, Chains DEF Guarded
<1>3. CASE q.route \in {"images", "logs"}
  <2>1. q.todo = <<"auth">>
    BY <1>1, <1>3 DEF Todos
  <2> QED BY <1>1, <1>3, <2>1, Chains DEF Guarded
<1>4. CASE q.route = "metrics"
  <2>1. q.todo = <<"admin">>
    BY <1>1, <1>4 DEF Todos
  <2> QED BY <1>1, <1>4, <2>1, Chains DEF Guarded
<1>5. CASE q.route \in {"health", "readyz", "llm"}
  BY <1>1, <1>5 DEF Todos
<1> QED BY <1>1, <1>2, <1>3, <1>4, <1>5 DEF Routes

\* A middleware lets a request on; the gate does so only before the drain.
LEMMA OnwardOK ==
  ASSUME NEW q, RequestOK(q), q.todo # <<>>, q.pc = "chain",
         Head(q.todo) = "gate" => ~draining
  PROVE  LET p == Onward(q)
         IN  /\ RequestOK(p) /\ p.pc = q.pc /\ p.route = q.route /\ p.cred = q.cred
             /\ p.todo = Tail(q.todo) /\ p.sent = q.sent
<1> DEFINE p == Onward(q)
<1>1. /\ q.route \in Routes /\ q.todo \in Todos(q.route) /\ q.route \in Guarded /\ ~q.ran
      /\ q.todo \in {<<"admin">>, <<"auth">>} \cup Gated
  BY Ahead DEF RequestOK, Request
<1>2. /\ Tail(q.todo) \in {<<>>, <<"auth">>, <<"gate">>}
      /\ Tail(q.todo) # <<>> => q.todo \in {<<"gate", "auth">>, <<"auth", "gate">>}
  BY <1>1, Chains DEF Gated
<1>3. Tail(q.todo) \in Todos(q.route)
  <2>1. Tail(q.todo) # <<>> => q.route = "trigger"
    <3>1. q.route \in {"images", "logs"} => q.todo = <<"auth">>
      BY <1>1 DEF Todos
    <3>2. q.route = "metrics" => q.todo = <<"admin">>
      BY <1>1 DEF Todos
    <3> QED BY <1>1, <3>1, <3>2, Chains DEF Guarded
  <2> QED BY <1>1, <1>2, <2>1 DEF Todos, Guarded
<1>4. /\ p \in Request /\ p.pc = q.pc /\ p.route = q.route /\ p.cred = q.cred
      /\ p.todo = Tail(q.todo) /\ p.late = q.late /\ p.end = q.end /\ p.ran = q.ran
      /\ p.wrote = q.wrote /\ p.status = q.status /\ p.sent = q.sent
  BY <1>2 DEF RequestOK, Request, Gated, Onward
<1> HIDE DEF p
<1>5. p.late => draining /\ (p.route = "trigger" => p.todo \in Gated)
  <2> SUFFICES ASSUME p.late PROVE draining /\ (p.route = "trigger" => p.todo \in Gated)
    OBVIOUS
  <2>1. draining /\ (q.route = "trigger" => q.todo \in Gated)
    BY <1>4 DEF RequestOK
  <2>2. q.route = "trigger" => q.todo = <<"auth", "gate">>
    BY <2>1, Chains DEF Gated
  <2> QED BY <1>4, <2>1, <2>2, Chains DEF Gated
<1>6. RecorderOK(p) /\ ProbeOK(p)
  BY <1>4 DEF RequestOK, RecorderOK, ProbeOK
<1> QED BY <1>1, <1>3, <1>4, <1>5, <1>6 DEF RequestOK, p

\* A step that leaves the chain of its request alone.
LEMMA SameChainStep ==
  ASSUME WebhookInv, NEW r \in Requests, NEW q, RequestOK(q), Set(r, q), recorded' = recorded,
         req[r].pc # "done", q.pc # "done",
         q.route = req[r].route, q.cred = req[r].cred, q.todo = req[r].todo,
         req[r].pc # "new", q.pc # "new",
         q.sent = 401 => \/ req[r].sent = 401
                         \/ ~Vouched(req[r]) /\ (Signed(q) => q.cred \in recorded)
  PROVE  WebhookInv'
<1>1. Vouched(q) <=> Vouched(req[r])
  BY DEF Vouched, Bearing
<1>2. /\ signs' = signs /\ signs \in [Pairs -> Guarded \cup {"unsigned"}]
      /\ q.cred \in Pairs => signs[q.cred] \in Guarded
  BY DEF Set, WebhookInv, PairsOK
<1>3. /\ req' = [req EXCEPT ![r] = q]
      /\ UNCHANGED <<token, draining, sseShutdown, server, forgotten, counts>>
  BY DEF Set
<1>4. /\ recorded' = recorded /\ (Vouched(q) => Vouched(req[r]))
      /\ Vouched(req[r]) => Vouched(q) /\ q.cred = req[r].cred /\ q.route = req[r].route
      /\ signs' \in [Pairs -> Guarded \cup {"unsigned"}]
      /\ \A p \in Pairs : signs[p] \in Guarded => signs'[p] = signs[p]
      /\ q.cred \in Pairs => signs'[q.cred] \in Guarded
  BY <1>1, <1>2, Zenon
<1>5. q.sent = 401 =>
        /\ signs' = signs
        /\ \/ req[r].sent = 401 /\ q.cred = req[r].cred /\ q.route = req[r].route
           \/ ~Vouched(req[r]) /\ (Signed(q) => q.cred \in recorded)
  BY <1>2, Zenon
<1> QED BY <1>3, <1>4, <1>5, RequestStep, ZenonT(60)

\* A step that answers.
LEMMA ReplyStep ==
  ASSUME WebhookInv, NEW r \in Requests, NEW q, RequestOK(q), NEW code \in Codes,
         q.pc \notin {"new", "replied", "done"}, req[r].pc # "done",
         q.route = req[r].route, q.cred = req[r].cred, q.todo = req[r].todo,
         req[r].pc # "new", q.sent = req[r].sent,
         code = 401 => ~Vouched(req[r]) /\ (Signed(q) => q.cred \in recorded),
         q.route = "health" => code = 200,
         q.route = "readyz" => (q.late => code = 503),
         Set(r, Replied(q, code)), recorded' = recorded
  PROVE  WebhookInv'
<1> DEFINE p == Replied(q, code)
<1>1. RequestOK(p)
  BY ReplyOK
<1>2. AnsweredWith(p, q, code)
  BY RepliedFields DEF RequestOK
<1> HIDE DEF p
<1>3. /\ p.pc = "replied" /\ p.route = q.route /\ p.cred = q.cred /\ p.todo = q.todo
      /\ p.sent \in {q.sent, code}
  BY <1>2 DEF AnsweredWith
<1>4. Set(r, p)
  BY DEF p
<1>5. Signed(p) <=> Signed(q)
  BY <1>3 DEF Signed
<1> QED BY <1>1, <1>3, <1>4, <1>5, SameChainStep

-----------------------------------------------------------------------------
(* The steps of a request *)

\* Auth's verdict: a pair is recorded when, and only when, it lets a request on.
LEMMA VerifiedInv ==
  ASSUME WebhookInv, NEW r \in Requests, Verified(r), req[r].pc = "chain", req[r].todo # <<>>,
         Head(req[r].todo) \in {"auth", "admin"}, ~Bearing(req[r])
  PROVE  WebhookInv'
<1> DEFINE q == req[r]
<1>1. RequestOK(q) /\ q.route \in Guarded
  BY Ahead DEF WebhookInv, RequestsOK
<1>0. q.todo \in {<<"admin">>, <<"auth">>, <<"auth", "gate">>}
  BY Ahead DEF WebhookInv, RequestsOK
<1>9. ~Vouched(q) /\ Tail(q.todo) \in {<<>>, <<"gate">>}
  BY <1>0, Chains DEF Vouched
<1>2. CASE Set(r, Replied(q, 413)) /\ UNCHANGED recorded
  BY <1>1, <1>2, ReplyStep DEF Codes, Guarded
<1>3. CASE /\ ~(Signed(q) /\ q.cred \notin recorded)
           /\ Set(r, Replied(q, 401)) /\ UNCHANGED recorded
  BY <1>1, <1>3, <1>9, ReplyStep DEF Codes, Guarded
<1>4. CASE /\ Signed(q) /\ q.cred \notin recorded
           /\ Set(r, Onward(q)) /\ recorded' = recorded \cup {q.cred}
  <2> DEFINE p == Onward(q)
  <2>1. /\ RequestOK(p) /\ p.pc = "chain" /\ p.cred = q.cred /\ p.route = q.route
        /\ p.todo = Tail(q.todo) /\ p.sent = q.sent
    BY <1>1, OnwardOK
  <2> HIDE DEF p
  <2>2. /\ req' = [req EXCEPT ![r] = p] /\ signs' = signs
        /\ UNCHANGED <<token, draining, sseShutdown, server, forgotten, counts>>
    BY <1>4 DEF p, Set
  <2>3. Signed(p) /\ Vouched(p)
    BY <1>1, <1>4, <1>9, <2>1 DEF Signed, Vouched, Bearing
  <2>4. /\ signs \in [Pairs -> Guarded \cup {"unsigned"}]
        /\ p.cred \in Pairs => signs[p.cred] \in Guarded
    BY <2>1 DEF WebhookInv, PairsOK
  <2> QED BY <1>4, <1>9, <2>1, <2>2, <2>3, <2>4, RequestStep
<1> QED BY <1>2, <1>3, <1>4 DEF Verified

\* Auth.
LEMMA AuthInv ==
  ASSUME WebhookInv, NEW r \in Requests, Auth(r)
  PROVE  WebhookInv'
<1>1. req[r].pc = "chain" /\ req[r].todo # <<>> /\ Head(req[r].todo) = "auth" /\ Verified(r)
  BY DEF Auth, At
<1>2. req[r].route # "metrics"
  BY <1>1, Ahead DEF WebhookInv, RequestsOK
<1> QED BY <1>1, <1>2, VerifiedInv DEF Bearing

\* A middleware other than Auth lets its request on.
LEMMA OnwardStep ==
  ASSUME WebhookInv, NEW r \in Requests, NEW p, RequestOK(p), Set(r, p), recorded' = recorded,
         req[r].pc = "chain", p.pc = "chain", p.route = req[r].route, p.cred = req[r].cred,
         p.sent = req[r].sent, Vouched(p) <=> Vouched(req[r])
  PROVE  WebhookInv'
<1>1. /\ req' = [req EXCEPT ![r] = p] /\ signs' = signs
      /\ UNCHANGED <<token, draining, sseShutdown, server, forgotten, counts>>
  BY DEF Set
<1>2. /\ signs \in [Pairs -> Guarded \cup {"unsigned"}]
      /\ p.cred \in Pairs => signs[p.cred] \in Guarded
  BY DEF WebhookInv, PairsOK
<1> QED BY <1>1, <1>2, RequestStep

\* AdminAuth: the bearer token leaves the pairs alone.
LEMMA AdminAuthInv ==
  ASSUME WebhookInv, NEW r \in Requests, AdminAuth(r)
  PROVE  WebhookInv'
<1> DEFINE q == req[r]
<1>1. q.pc = "chain" /\ q.todo # <<>> /\ Head(q.todo) = "admin"
  BY DEF AdminAuth, At
<1>2. RequestOK(q) /\ q.route = "metrics"
  BY <1>1, Ahead DEF WebhookInv, RequestsOK
<1>3. CASE Bearer(q.cred) /\ Set(r, Onward(q)) /\ UNCHANGED recorded
  <2> DEFINE p == Onward(q)
  <2>1. RequestOK(p) /\ p.pc = "chain" /\ p.route = q.route /\ p.cred = q.cred /\ p.sent = q.sent
    BY <1>1, <1>2, OnwardOK
  <2> HIDE DEF p
  <2>2. ~Vouched(p) /\ ~Vouched(q)
    BY <1>2, <1>3, <2>1 DEF Vouched, Bearing, Bearer
  <2>3. Set(r, p)
    BY <1>3 DEF p
  <2> QED BY <1>1, <1>3, <2>1, <2>2, <2>3, OnwardStep
<1>4. CASE ~Bearer(q.cred) /\ Verified(r)
  BY <1>1, <1>4, VerifiedInv DEF Bearing, Bearer
<1> QED BY <1>3, <1>4 DEF AdminAuth

\* DrainGate.
LEMMA DrainGateInv ==
  ASSUME WebhookInv, NEW r \in Requests, DrainGate(r)
  PROVE  WebhookInv'
<1> DEFINE q == req[r]
<1>1. q.pc = "chain" /\ q.todo # <<>> /\ Head(q.todo) = "gate" /\ recorded' = recorded
  BY DEF DrainGate, At
<1>2. RequestOK(q) /\ q.route = "trigger" /\ q.todo \in {<<"gate">>, <<"gate", "auth">>}
  BY <1>1, Ahead DEF WebhookInv, RequestsOK
<1>3. CASE draining
  <2>1. Set(r, Replied(q, 503))
    BY <1>3 DEF DrainGate
  <2> QED BY <1>1, <1>2, <2>1, ReplyStep DEF Codes
<1>4. CASE ~draining
  <2> DEFINE p == Onward(q)
  <2>1. /\ RequestOK(p) /\ p.pc = "chain" /\ p.route = q.route /\ p.cred = q.cred
        /\ p.todo = Tail(q.todo) /\ p.sent = q.sent
    BY <1>1, <1>2, <1>4, OnwardOK
  <2>2. Set(r, p)
    BY <1>4 DEF DrainGate
  <2> HIDE DEF p
  <2>3. Vouched(p) <=> Vouched(q)
    <3>1. q.todo = <<"gate">> => Vouched(q) /\ Vouched(p)
      BY <1>2, <2>1, Chains DEF Vouched, Bearing, Guarded
    <3>2. q.todo = <<"gate", "auth">> => ~Vouched(p) /\ ~Vouched(q)
      <4>1. <<"auth">> # <<>> /\ <<"auth">> # <<"gate">> /\ <<"gate", "auth">> \notin {<<>>, <<"gate">>}
        BY Chains
      <4> QED BY <2>1, <4>1, Chains DEF Vouched
    <3> QED BY <1>2, <3>1, <3>2
  <2> QED BY <1>1, <2>1, <2>2, <2>3, OnwardStep
<1> QED BY <1>3, <1>4

\* The handlers that answer at once.
LEMMA AnsweringInv ==
  ASSUME WebhookInv, NEW r \in Requests,
         HandleReadyz(r) \/ HandleImages(r) \/ HandleMetrics(r)
  PROVE  WebhookInv'
<1> DEFINE q == Ran(r)
<1>1. req[r].pc = "chain" /\ req[r].todo = <<>> /\ recorded' = recorded
  BY DEF HandleReadyz, HandleImages, HandleMetrics, Reached
<1>2. RequestOK(req[r])
  BY DEF WebhookInv, RequestsOK
<1>3. RequestOK(q) /\ q.pc = "chain" /\ q.route = req[r].route /\ q.cred = req[r].cred
      /\ q.todo = req[r].todo /\ q.late = req[r].late /\ q.sent = req[r].sent
  BY <1>1, <1>2, RanOK DEF Ran
<1>4. q.late => draining
  BY <1>3 DEF RequestOK
<1>5. PICK code \in Codes \ {401} :
                            /\ Set(r, Replied(q, code)) /\ q.route \in {"readyz", "images", "metrics"}
                            /\ q.route = "readyz" => (q.late => code = 503)
  <2>1. CASE HandleReadyz(r)
    BY <1>3, <1>4, <2>1 DEF HandleReadyz, Reached, Codes
  <2>2. CASE HandleImages(r)
    BY <1>3, <2>2 DEF HandleImages, Reached, Codes
  <2>3. CASE HandleMetrics(r)
    BY <1>3, <2>3 DEF HandleMetrics, Reached, Codes
  <2> QED BY <2>1, <2>2, <2>3
<1> HIDE DEF q
<1> QED BY <1>1, <1>3, <1>5, ReplyStep

\* A handler moves its request on without an answer.
LEMMA MoveStep ==
  ASSUME WebhookInv, NEW r \in Requests, NEW q, RequestOK(q), NEW pc \in PCs \ {"done"},
         q.pc # "done", req[r].pc # "done",
         q.route = req[r].route, q.cred = req[r].cred, q.todo = req[r].todo,
         q.route # "health" \/ (pc \in {"hook", "hookdone"} /\ q.pc \in {"chain", "hook"}),
         pc \in {"hook", "hookdone"} => q.route = "health",
         pc \in {"streaming", "blocked"} => q.route = "logs", pc # "new",
         q.route # "readyz", req[r].pc # "new", q.sent = 401 => req[r].sent = 401,
         Set(r, [q EXCEPT !.pc = pc]), recorded' = recorded
  PROVE  WebhookInv'
<1> DEFINE p == [q EXCEPT !.pc = pc]
<1>1. /\ RequestOK(p) /\ p.pc = pc /\ p.route = q.route /\ p.cred = q.cred /\ p.todo = q.todo
      /\ p.sent = q.sent
  BY MoveOK
<1>2. Set(r, p)
  OBVIOUS
<1> HIDE DEF p
<1> QED BY <1>1, <1>2, SameChainStep

\* What a handler starts from.
LEMMA ReachedFacts ==
  ASSUME WebhookInv, NEW r \in Requests, NEW route, Reached(r, route)
  PROVE  LET q == Ran(r)
         IN  /\ RequestOK(req[r]) /\ req[r].pc = "chain" /\ req[r].route = route
             /\ RequestOK(q) /\ q.pc = "chain" /\ q.route = route /\ q.cred = req[r].cred
             /\ q.todo = req[r].todo /\ q.wrote = req[r].wrote /\ q.sent = req[r].sent
<1>1. req[r].pc = "chain" /\ req[r].todo = <<>> /\ req[r].route = route
  BY DEF Reached
<1>2. RequestOK(req[r])
  BY DEF WebhookInv, RequestsOK
<1> QED BY <1>1, <1>2, RanOK DEF Ran

\* handleHealth: the hook runs, or the answer is written.
LEMMA HandleHealthInv ==
  ASSUME WebhookInv, NEW r \in Requests, HandleHealth(r)
  PROVE  WebhookInv'
<1> DEFINE q == Ran(r)
<1>1. /\ req[r].pc = "chain" /\ req[r].route = "health" /\ recorded' = recorded
      /\ RequestOK(q) /\ q.pc = "chain" /\ q.route = "health" /\ q.cred = req[r].cred
      /\ q.todo = req[r].todo /\ q.sent = req[r].sent
  BY ReachedFacts DEF HandleHealth
<1>2. CASE Set(r, [q EXCEPT !.pc = "hook"])
  <2> HIDE DEF q
  <2> QED BY <1>1, <1>2, MoveStep DEF PCs
<1>3. CASE Set(r, Replied(q, 200))
  <2> HIDE DEF q
  <2> QED BY <1>1, <1>3, ReplyStep DEF Codes
<1> QED BY <1>2, <1>3 DEF HandleHealth

\* The hook's lookup ends, times out, or gives up when it has timed out.
LEMMA HookInv ==
  ASSUME WebhookInv, NEW r \in Requests, HookReturns(r) \/ HookTimeout(r) \/ HookGivesUp(r)
  PROVE  WebhookInv'
<1>1. RequestOK(req[r]) /\ req[r].pc \in {"hook", "hookdone"} /\ recorded' = recorded
  BY DEF WebhookInv, RequestsOK, HookReturns, HookTimeout, HookGivesUp
<1>2. req[r].route = "health"
  BY <1>1 DEF RequestOK, ProbeOK
<1>3. CASE HookTimeout(r)
  BY <1>1, <1>2, <1>3, MoveStep DEF HookTimeout, PCs
<1>4. CASE HookReturns(r) \/ HookGivesUp(r)
  BY <1>1, <1>2, <1>4, ReplyStep DEF HookReturns, HookGivesUp, Codes
<1> QED BY <1>3, <1>4

\* A backend's handler answers, returns without an answer, or panics.
LEMMA HandleTriggerInv ==
  ASSUME WebhookInv, NEW r \in Requests, HandleTrigger(r)
  PROVE  WebhookInv'
<1> DEFINE q == Ran(r)
<1>1. /\ req[r].pc = "chain" /\ req[r].route = "trigger" /\ recorded' = recorded
      /\ RequestOK(q) /\ q.pc = "chain" /\ q.route = "trigger" /\ q.cred = req[r].cred
      /\ q.todo = req[r].todo /\ q.sent = req[r].sent
  BY ReachedFacts DEF HandleTrigger
<1>2. CASE \E code \in {200, 400, 429, 500} : Set(r, Replied(q, code))
  <2> HIDE DEF q
  <2> QED BY <1>1, <1>2, ReplyStep DEF Codes
<1>3. CASE \E pc \in {"replied", "panicked"} : Set(r, [q EXCEPT !.pc = pc])
  <2> HIDE DEF q
  <2>1. PICK pc \in {"replied", "panicked"} : Set(r, [q EXCEPT !.pc = pc])
    BY <1>3
  <2> QED BY <1>1, <2>1, MoveStep DEF PCs
<1> QED BY <1>2, <1>3 DEF HandleTrigger

\* The proxy's final answer, whose body may abort.
LEMMA ServeLLMInv ==
  ASSUME WebhookInv, NEW r \in Requests, ServeLLM(r)
  PROVE  WebhookInv'
<1> DEFINE q == Ran(r)
<1>1. /\ req[r].pc = "chain" /\ req[r].route = "llm" /\ recorded' = recorded
      /\ RequestOK(q) /\ q.pc = "chain" /\ q.route = "llm" /\ q.cred = req[r].cred
      /\ q.todo = req[r].todo /\ q.sent = req[r].sent
  BY ReachedFacts DEF ServeLLM
<1>2. PICK code \in {200, 502}, pc \in {"replied", "panicked"} :
        Set(r, [Replied(q, code) EXCEPT !.pc = pc])
  BY DEF ServeLLM
<1> HIDE DEF q
<1> DEFINE p == Replied(q, code)
<1>3. RequestOK(p)
  BY <1>1, ReplyOK DEF Codes
<1>4. AnsweredWith(p, q, code)
  BY <1>1, RepliedFields DEF RequestOK, Codes
<1>5. /\ p.pc # "done" /\ p.route = q.route /\ p.cred = q.cred /\ p.todo = q.todo
      /\ p.sent = 401 => q.sent = 401
  BY <1>4 DEF AnsweredWith
<1>6. Set(r, [p EXCEPT !.pc = pc])
  BY <1>2
<1> HIDE DEF p
<1> QED BY <1>1, <1>3, <1>5, <1>6, MoveStep DEF PCs

\* An informational response is recorded, and not a final one.
LEMMA PassInformationalInv ==
  ASSUME WebhookInv, NEW r \in Requests, PassInformational(r)
  PROVE  WebhookInv'
<1> DEFINE q == Ran(r)
           p == WriteHeader(q, 103)
<1>1. /\ req[r].pc = "chain" /\ req[r].route = "llm" /\ recorded' = recorded /\ Set(r, p)
      /\ RequestOK(q) /\ q.pc = "chain" /\ q.route = "llm" /\ q.cred = req[r].cred
      /\ q.todo = req[r].todo /\ ~q.wrote /\ q.sent = req[r].sent
  BY ReachedFacts DEF PassInformational
<1> HIDE DEF q
<1>2. p = [q EXCEPT !.status = 103, !.wrote = TRUE, !.sent = q.sent]
  <2>1. ~Final(103)
    BY DEF Final
  <2> QED BY <1>1, <2>1 DEF WriteHeader
<1> HIDE DEF p
<1>3. /\ p \in Request /\ p.pc = q.pc /\ p.route = q.route /\ p.cred = q.cred
      /\ p.todo = q.todo /\ p.late = q.late /\ p.end = q.end /\ p.ran = q.ran
      /\ p.wrote = TRUE /\ p.status = 103 /\ p.sent = q.sent
  <2>1. q \in Request
    BY <1>1, Zenon DEF RequestOK
  <2>2. q.sent \in Nat
    BY <2>1 DEF Request
  <2>3. p \in Request
    BY <1>2, <2>1, <2>2 DEF Request
  <2> QED BY <1>2, <2>1, <2>3, SMTT(60) DEF Request
<1>4. RecorderOK(p)
  BY <1>1, <1>3 DEF RecorderOK, Final
<1>5. ProbeOK(p)
  BY <1>1, <1>3 DEF ProbeOK
<1>6. RequestOK(p)
  BY <1>1, <1>3, <1>4, <1>5 DEF RequestOK
<1> QED BY <1>1, <1>3, <1>6, SameChainStep

\* handleLogs starts to stream.
LEMMA HandleLogsInv ==
  ASSUME WebhookInv, NEW r \in Requests, HandleLogs(r)
  PROVE  WebhookInv'
<1> DEFINE q == Ran(r)
           p == Write(q)
<1>1. /\ req[r].pc = "chain" /\ req[r].route = "logs" /\ recorded' = recorded
      /\ Set(r, [p EXCEPT !.pc = "streaming"])
      /\ RequestOK(q) /\ q.pc = "chain" /\ q.route = "logs" /\ q.cred = req[r].cred
      /\ q.todo = req[r].todo /\ q.sent = req[r].sent
  BY ReachedFacts DEF HandleLogs
<1> HIDE DEF q
<1>2. PICK st \in Nat, se \in Nat :
        /\ p = [q EXCEPT !.status = st, !.wrote = TRUE, !.sent = se]
        /\ (Final(st) => se = st) /\ (se = 401 => q.sent = 401)
  <2> DEFINE st == IF q.wrote THEN q.status ELSE 200
             se == IF q.sent = 0 THEN 200 ELSE q.sent
  <2>1. p = [q EXCEPT !.status = st, !.wrote = TRUE, !.sent = se]
    BY DEF Write
  <2>2. st \in Nat /\ se \in Nat
    BY <1>1 DEF RequestOK, Request
  <2>3. Final(st) => se = st
    BY <1>1 DEF RequestOK, Request, RecorderOK, Final
  <2>4. se = 401 => q.sent = 401
    OBVIOUS
  <2> HIDE DEF st, se
  <2> QED BY <2>1, <2>2, <2>3, <2>4
<1> HIDE DEF p
<1>3. /\ p \in Request /\ p.pc = q.pc /\ p.route = q.route /\ p.cred = q.cred
      /\ p.todo = q.todo /\ p.late = q.late /\ p.end = q.end /\ p.ran = q.ran
      /\ p.wrote = TRUE /\ p.status = st /\ p.sent = se
  BY <1>1, <1>2 DEF RequestOK, Request
<1>4. RecorderOK(p)
  BY <1>1, <1>2, <1>3 DEF RecorderOK
<1>5. ProbeOK(p)
  BY <1>1, <1>3 DEF ProbeOK
<1>6. RequestOK(p)
  BY <1>1, <1>3, <1>4, <1>5 DEF RequestOK
<1>7. p.sent = 401 => req[r].sent = 401
  BY <1>1, <1>2, <1>3
<1> QED BY <1>1, <1>3, <1>6, <1>7, MoveStep DEF PCs

\* A stream is blocked, goes on or ends.
LEMMA StreamEndsInv ==
  ASSUME WebhookInv, NEW r \in Requests,
         SeeShutdown(r) \/ SeeHangup(r) \/ Block(r) \/ Unblock(r)
  PROVE  WebhookInv'
<1>1. PICK pc \in {"streaming", "blocked", "replied"} :
        /\ RequestOK(req[r]) /\ req[r].pc \in {"streaming", "blocked"} /\ recorded' = recorded
        /\ Set(r, [req[r] EXCEPT !.pc = pc])
  BY DEF WebhookInv, RequestsOK, SeeShutdown, SeeHangup, Block, Unblock
<1>2. req[r].route = "logs"
  BY <1>1 DEF RequestOK, ProbeOK
<1> QED BY <1>1, <1>2, MoveStep DEF PCs

\* The cache drops a pair: it was that of a request past authentication.
LEMMA ForgetInv ==
  ASSUME WebhookInv, NEW p \in Pairs, Forget(p)
  PROVE  WebhookInv'
<1>1. /\ p \in recorded /\ recorded' = recorded \ {p} /\ forgotten' = forgotten \cup {p}
      /\ UNCHANGED <<token, signs, draining, sseShutdown, server, req, counts>>
  BY DEF Forget
<1>2. ServerOK' /\ RequestsOK'
  BY <1>1 DEF WebhookInv, ServerOK, RequestsOK, RequestOK
<1>3. PairsOK'
  <2>1. \A x : (Vouched(x)' <=> Vouched(x)) /\ (Signed(x)' <=> Signed(x))
    BY <1>1 DEF Vouched, Bearing, Signed
  <2>2. \A x \in Requests : /\ Vouched(req[x])' <=> Vouched(req[x])
                            /\ Signed(req[x])' <=> Signed(req[x])
    BY <1>1 DEF Vouched, Bearing, Signed
  <2>3. /\ req' = req /\ signs' = signs /\ recorded' \subseteq recorded
        /\ forgotten \subseteq forgotten' /\ forgotten' \subseteq Pairs
        /\ recorded \cup forgotten = recorded' \cup forgotten'
    BY <1>1 DEF WebhookInv, PairsOK
  <2>4. PairsOK
    BY DEF WebhookInv
  <2> QED BY <2>2, <2>3, <2>4, SMTT(60) DEF PairsOK
<1>4. Tallied'
  BY <1>1 DEF WebhookInv, Tallied, Done, CountedWith, Counted, Label, Count
<1> QED BY <1>2, <1>3, <1>4 DEF WebhookInv

\* A request arrives, with all its middlewares ahead.
LEMMA ArriveInv ==
  ASSUME WebhookInv, NEW r \in Requests, NEW route \in Routes, NEW cred \in Creds(route),
         NEW signed \in Guarded, Arrive(r, route, cred, signed)
  PROVE  WebhookInv'
<1>0. PICK chain \in Middlewares(route) :
        req' = [req EXCEPT ![r] = [New EXCEPT !.pc = "chain", !.route = route, !.cred = cred,
                                              !.todo = chain, !.late = draining]]
  BY DEF Arrive
<1> DEFINE q == [New EXCEPT !.pc = "chain", !.route = route, !.cred = cred,
                            !.todo = chain, !.late = draining]
<1>1. /\ req[r].pc = "new" /\ req' = [req EXCEPT ![r] = q]
      /\ UNCHANGED <<token, draining, sseShutdown, server, recorded, forgotten, counts>>
  BY <1>0 DEF Arrive
<1>8. /\ signs' \in [Pairs -> Guarded \cup {"unsigned"}]
      /\ \A p \in Pairs : signs[p] \in Guarded => signs'[p] = signs[p]
      /\ cred \in Pairs => signs'[cred] \in Guarded
  <2>1. signs \in [Pairs -> Guarded \cup {"unsigned"}] /\ "unsigned" \notin Guarded
    BY DEF WebhookInv, PairsOK, Guarded
  <2>2. CASE cred \notin Pairs /\ signs' = signs
    BY <2>1, <2>2
  <2>3. CASE /\ cred \in Pairs /\ signs[cred] \in {"unsigned", signed}
             /\ signs' = [signs EXCEPT ![cred] = signed]
    BY <2>1, <2>3
  <2> QED BY <2>2, <2>3 DEF Arrive
<1>9. ~Vouched(req[r])
  BY <1>1 DEF WebhookInv, RequestsOK, RequestOK, ProbeOK, Vouched, Guarded
<1>2. cred \in {"none", "big", "token", "blank"} \cup Pairs
  BY DEF Creds, Routes
<1>3. chain \in Todos(route) /\ chain \in {<<>>, <<"admin">>, <<"auth">>} \cup Gated
  BY DEF Middlewares, Todos, Routes, Gated
<1>4. /\ q \in Request /\ q.pc = "chain" /\ q.route = route /\ q.cred = cred
      /\ q.todo = chain /\ q.late = draining /\ q.end = "none" /\ q.ran = FALSE
      /\ q.wrote = FALSE /\ q.status = 200 /\ q.sent = 0
  <2>1. PICK d \in BOOLEAN, c \in {<<>>, <<"admin">>, <<"auth">>} \cup Gated : d = draining /\ c = chain
    BY <1>3 DEF WebhookInv, ServerOK
  <2>2. New \in Request /\ New.end = "none" /\ New.ran = FALSE /\ New.wrote = FALSE /\ New.status = 200
        /\ New.sent = 0
    BY DEF New, Request, PCs, Routes
  <2> DEFINE n == [New EXCEPT !.pc = "chain", !.route = route, !.cred = cred, !.todo = c, !.late = d]
  <2>3. n \in Request
    BY <1>2, <2>2, ZenonT(60) DEF Request, PCs
  <2>4. q = n
    BY <2>1
  <2>5. /\ n.pc = "chain" /\ n.route = route /\ n.cred = cred
        /\ n.todo = c /\ n.late = d /\ n.end = "none" /\ n.ran = FALSE
        /\ n.wrote = FALSE /\ n.status = 200 /\ n.sent = 0
    BY <2>2 DEF Request
  <2> HIDE DEF n, q
  <2> QED BY <2>1, <2>3, <2>4, <2>5
<1> HIDE DEF q
<1>5. route = "trigger" => chain \in Gated
  BY DEF Middlewares, Gated
<1>6. RequestOK(q)
  BY <1>3, <1>4, <1>5 DEF RequestOK, RecorderOK, ProbeOK
<1>7. ~Vouched(q)
  <2>1. route \in Guarded => chain \in {<<"admin">>, <<"auth">>, <<"gate", "auth">>, <<"auth", "gate">>}
    BY DEF Guarded, Middlewares
  <2>2. \A t \in {<<"admin">>, <<"auth">>, <<"gate", "auth">>, <<"auth", "gate">>} :
          t # <<>> /\ t # <<"gate">>
    <3>1. /\ Len(<<"admin">>) = 1 /\ Len(<<"auth">>) = 1 /\ Len(<<"gate", "auth">>) = 2
          /\ Len(<<"auth", "gate">>) = 2 /\ Len(<<>>) = 0 /\ Len(<<"gate">>) = 1
      OBVIOUS
    <3> QED BY <3>1, Chains
  <2>3. route \in Guarded => chain # <<>> /\ chain # <<"gate">>
    BY <2>1, <2>2, Zenon
  <2> QED BY <1>4, <2>3, Zenon DEF Vouched
<1>10. /\ q.pc \notin {"new", "done"} /\ q.sent # 401 /\ req[r].pc # "done"
       /\ recorded' = recorded /\ (Vouched(q) => Vouched(req[r]))
       /\ q.cred \in Pairs => signs'[q.cred] \in Guarded
  BY <1>1, <1>4, <1>7, <1>8
<1> QED BY <1>1, <1>6, <1>8, <1>9, <1>10, RequestStep

\* RecordMetrics' deferred function counts the request, once, under the label of
\* its end.
LEMMA FinishInv ==
  ASSUME WebhookInv, NEW r \in Requests, Finish(r)
  PROVE  WebhookInv'
<1> DEFINE q == req[r]
           sent == IF q.pc = "replied" /\ q.sent = 0 THEN 200 ELSE q.sent
           p == [q EXCEPT !.pc = "done", !.end = q.pc, !.sent = sent]
           label == Label(q, q.pc = "replied")
<1>1. /\ q.pc \in {"replied", "panicked"} /\ counts' = IF Metrics THEN Inc(label) ELSE counts
      /\ UNCHANGED <<token, signs, draining, sseShutdown, server, recorded, forgotten>>
  BY DEF Finish, Observed
<1>2. RequestOK(q) /\ DOMAIN req = Requests
  BY DEF WebhookInv, RequestsOK
<1>3. req' = [req EXCEPT ![r] = p]
  BY <1>2 DEF Finish
<1>4. /\ p \in Request /\ p.pc = "done" /\ p.route = q.route /\ p.cred = q.cred
      /\ p.todo = q.todo /\ p.late = q.late /\ p.end = q.pc /\ p.ran = q.ran
      /\ p.wrote = q.wrote /\ p.status = q.status /\ p.sent = sent
  <2>1. sent \in Nat
    BY <1>2 DEF RequestOK, Request
  <2> HIDE DEF sent
  <2> QED BY <1>1, <1>2, <2>1 DEF RequestOK, Request, PCs
<1> HIDE DEF p
<1>5. RequestOK(p)
  <2>1. RecorderOK(p)
    BY <1>1, <1>2, <1>4 DEF RequestOK, Request, RecorderOK, Final
  <2>2. ProbeOK(p)
    <3>1. q.route = "health" => p.end = "replied" /\ p.sent = 200
      BY <1>1, <1>2, <1>4 DEF RequestOK, ProbeOK
    <3>2. q.route = "readyz" => (p.late => p.sent = 503)
      BY <1>1, <1>2, <1>4 DEF RequestOK, ProbeOK
    <3> QED BY <1>4, <3>1, <3>2 DEF ProbeOK
  <2> QED BY <1>2, <1>4, <2>1, <2>2 DEF RequestOK
<1>6. DOMAIN req' = Requests /\ req'[r] = p /\ \A x \in Requests : x # r => req'[x] = req[x]
  BY <1>2, <1>3
<1>7. \A x : RequestOK(x)' <=> RequestOK(x)
  BY <1>1 DEF RequestOK
<1>8. RequestsOK'
  <2>1. ASSUME NEW x \in Requests PROVE RequestOK(req[x])'
    <3>1. PICK y : y = req'[x]
      OBVIOUS
    <3>2. RequestOK(y)
      BY <1>5, <1>6, <3>1 DEF WebhookInv, RequestsOK
    <3> QED BY <1>7, <3>1, <3>2
  <2> QED BY <1>6, <2>1 DEF RequestsOK
<1>9. PairsOK'
  <2>1. \A x \in Requests : /\ Vouched(req[x])' <=> Vouched(req[x])
                            /\ Signed(req[x])' <=> Signed(req[x])
    BY <1>1, <1>4, <1>6 DEF Vouched, Bearing, Signed
  <2>2. \A x \in Requests : /\ req'[x].cred = req[x].cred
                            /\ req'[x].pc # "new" => req[x].pc # "new"
                            /\ req'[x].sent = 401 => req[x].sent = 401
    BY <1>1, <1>4, <1>6
  <2> QED BY <1>1, <2>1, <2>2 DEF WebhookInv, PairsOK
<1>10. Done' = Done \cup {r} /\ r \notin Done /\ IsFiniteSet(Done)
  BY <1>1, <1>4, <1>6 DEF Done, WebhookInv, Tallied
<1>11. \A x \in Done : req'[x] = req[x]
  BY <1>6, <1>10 DEF Done
<1>12. PICK l : l = label
  OBVIOUS
<1>13. Counted(p) = l /\ l.endpoint \in Endpoints \cup {"other"}
  BY <1>1, <1>4, <1>12 DEF Counted, Label, NormalizeEndpoint
<1> HIDE DEF label
<1>14. \A x \in Done' : Counted(req[x])' = Counted(req'[x])
  BY DEF Counted, Label
<1>15. CountedWith(l)' = CountedWith(l) \cup {r}
  BY <1>6, <1>10, <1>11, <1>13, <1>14 DEF CountedWith
<1>16. \A m : m # l => CountedWith(m)' = CountedWith(m)
  BY <1>6, <1>10, <1>11, <1>13, <1>14 DEF CountedWith
<1>17. Tallied'
  <2>1. IsFiniteSet(Done')
    BY <1>10, FS_AddElement
  <2>2. Cardinality(CountedWith(l)') = Cardinality(CountedWith(l)) + 1
    <3>1. IsFiniteSet(CountedWith(l)) /\ r \notin CountedWith(l)
      BY <1>10, FS_Subset DEF CountedWith
    <3> QED BY <1>15, <3>1, FS_AddElement
  <2>3. counts \in [DOMAIN counts -> Nat \ {0}]
        /\ \A m \in DOMAIN counts : m.endpoint \in Endpoints \cup {"other"}
    BY DEF WebhookInv, Tallied
  <2>4. \A m : Count(m) \in Nat
    BY <2>3 DEF Count
  <2>5. CASE ~Metrics
    BY <1>1, <2>1, <2>3, <2>5 DEF Tallied
  <2>6. CASE Metrics
    <3>1. counts' = [m \in DOMAIN counts \cup {l} |-> IF m = l THEN Count(m) + 1 ELSE counts[m]]
      BY <1>1, <1>12, <2>6 DEF Inc
    <3>2. counts' \in [DOMAIN counts' -> Nat \ {0}]
          /\ \A m \in DOMAIN counts' : m.endpoint \in Endpoints \cup {"other"}
      BY <1>13, <2>3, <2>4, <3>1
    <3>3. Count(l)' = Count(l) + 1 /\ \A m : m # l => Count(m)' = Count(m)
      BY <3>1 DEF Count
    <3>4. \A m : Count(m) = Cardinality(CountedWith(m))
      BY <2>6 DEF WebhookInv, Tallied
    <3>5. \A m : Count(m)' = Cardinality(CountedWith(m)')
      BY <1>16, <2>2, <3>3, <3>4
    <3> QED BY <2>1, <3>2, <3>5 DEF Tallied
  <2> QED BY <2>5, <2>6
<1> QED BY <1>1, <1>8, <1>9, <1>17 DEF WebhookInv, ServerOK

\* The shutdown: a drain that has begun makes nothing wrong of late requests.
LEMMA ShutdownInv ==
  ASSUME WebhookInv, BeginDrain \/ Shutdown \/ CloseSSE \/ ShutdownReturns
  PROVE  WebhookInv'
<1>1. UNCHANGED <<token, signs, recorded, forgotten, req, counts>> /\ (draining => draining') /\ ServerOK'
  BY DEF BeginDrain, Shutdown, CloseSSE, ShutdownReturns, WebhookInv, ServerOK
<1>2. \A x : RequestOK(x) => RequestOK(x)'
  BY <1>1 DEF RequestOK
<1>3. RequestsOK'
  BY <1>1, <1>2 DEF WebhookInv, RequestsOK
<1>4. PairsOK'
  BY <1>1 DEF WebhookInv, PairsOK, Vouched, Bearing, Signed
<1>5. Tallied'
  BY <1>1 DEF WebhookInv, Tallied, Done, CountedWith, Counted, Label, Count
<1> QED BY <1>1, <1>3, <1>4, <1>5 DEF WebhookInv

-----------------------------------------------------------------------------
(* What holds in every reachable state *)

\* The invariant is inductive.
LEMMA WebhookNextInv == WebhookInv /\ [WebhookNext]_webhookVars => WebhookInv'
<1> SUFFICES ASSUME WebhookInv, [WebhookNext]_webhookVars PROVE WebhookInv'
  OBVIOUS
<1>1. ASSUME NEW r \in Requests, Own(r) \/ SeeShutdown(r) PROVE WebhookInv'
  BY <1>1, DrainGateInv, AnsweringInv, HandleHealthInv, HandleLogsInv, StreamEndsInv, HookInv,
     FinishInv DEF Own
<1>2. ASSUME NEW r \in Requests, Outward(r) PROVE WebhookInv'
  BY <1>2, AuthInv, AdminAuthInv, AnsweringInv, HandleTriggerInv, PassInformationalInv,
     ServeLLMInv, HookInv, StreamEndsInv DEF Outward
<1>3. ASSUME NEW r \in Requests, NEW route \in Routes, NEW cred \in Creds(route),
             NEW signed \in Guarded, Arrive(r, route, cred, signed)
      PROVE  WebhookInv'
  BY <1>3, ArriveInv
<1>6. ASSUME NEW p \in Pairs, Forget(p) PROVE WebhookInv'
  BY <1>6, ForgetInv
<1>4. CASE BeginDrain \/ Shutdown \/ CloseSSE \/ ShutdownReturns
  BY <1>4, ShutdownInv
<1>5. CASE UNCHANGED webhookVars
  <2>1. UNCHANGED <<token, signs, draining, sseShutdown, server, recorded, forgotten, req, counts>>
    BY <1>5 DEF webhookVars
  <2> QED BY <2>1 DEF WebhookInv, ServerOK, RequestsOK, RequestOK, PairsOK, Vouched, Bearing, Signed,
                      Tallied, Done, CountedWith, Counted, Label, Count
<1> QED BY <1>1, <1>2, <1>3, <1>4, <1>5, <1>6 DEF WebhookNext

\* It holds in every reachable state.
LEMMA WebhookInvariant == WebhookSpec => []WebhookInv
BY WebhookInitInv, WebhookNextInv, PTL DEF WebhookSpec

\* A mutating request that arrives after the drain has begun never reaches its
\* handler, wherever the gate stands, and /readyz no longer says ready (DrainGate,
\* handleReadyz).
THEOREM WebhookDrainSticks == WebhookSpec => []DrainSticks
<1>1. WebhookInv => DrainSticks
  <2> SUFFICES ASSUME WebhookInv, NEW r \in Requests, req[r].late
               PROVE  /\ req[r].route = "trigger" => ~req[r].ran
                      /\ req[r].route = "readyz" => req[r].sent # 200
    BY DEF DrainSticks
  <2>1. RequestOK(req[r])
    BY DEF WebhookInv, RequestsOK
  <2>2. <<>> \notin Gated
    BY DEF Gated
  <2> QED BY <2>1, <2>2 DEF RequestOK, ProbeOK
<1> QED BY <1>1, WebhookInvariant, PTL

\* A guarded handler runs only for the bearer token or for a pair signed for its
\* route; a pair lets a second request past only if the cache has dropped it; and no
\* request uses up the pair of another one that it does not let past (Auth, AdminAuth).
THEOREM WebhookPairsAuthorise == WebhookSpec => []PairsAuthorise
<1>1. WebhookInv => PairsAuthorise
  <2> SUFFICES ASSUME WebhookInv PROVE PairsAuthorise
    OBVIOUS
  <2>1. ASSUME NEW r \in Requests, req[r].ran, req[r].route \in Guarded, ~Bearing(req[r])
        PROVE  Vouched(req[r])
    BY <2>1 DEF WebhookInv, RequestsOK, RequestOK, Vouched
  <2> QED BY <2>1 DEF PairsAuthorise, WebhookInv, PairsOK
<1> QED BY <1>1, WebhookInvariant, PTL

\* A health probe that ends was answered 200, whether its hook answered, failed,
\* panicked or was cut off by its deadline (handleHealth, ImageRevisionHook).
THEOREM WebhookHealthAnswers == WebhookSpec => []HealthAnswers
<1>1. WebhookInv => HealthAnswers
  BY DEF WebhookInv, RequestsOK, RequestOK, ProbeOK, HealthAnswers
<1> QED BY <1>1, WebhookInvariant, PTL

\* Every request that ended is counted once, under the label of its end, and one
\* that was answered under the status its client was sent, unless an informational
\* response came first (RecordMetrics, statusRecorder).
THEOREM WebhookCountsAnswers == WebhookSpec => []CountedAsAnswered
<1>1. WebhookInv => CountedAsAnswered
  <2> SUFFICES ASSUME WebhookInv PROVE CountedAsAnswered
    OBVIOUS
  <2>1. ASSUME NEW r \in Requests PROVE RequestOK(req[r])
    BY DEF WebhookInv, RequestsOK
  <2>2. WebhookTypeOK
    BY <2>1 DEF WebhookInv, ServerOK, PairsOK, Tallied, WebhookTypeOK, RequestOK, Request, PCs
  <2>3. ASSUME Metrics, NEW r \in Ended("replied"), Final(req[r].status)
        PROVE  Count(Answer(req[r])) =
                 Cardinality({s \in Ended("replied") : /\ Final(req[s].status)
                                                       /\ Answer(req[s]) = Answer(req[r])})
    <3>1. ASSUME NEW s \in Ended("replied"), Final(req[s].status)
          PROVE  Counted(req[s]) = Answer(req[s])
      BY <2>1, <3>1 DEF Ended, Done, RequestOK, RecorderOK, Counted, Label, Answer
    <3>2. ASSUME NEW s \in Done, Counted(req[s]) = Answer(req[r])
          PROVE  s \in Ended("replied") /\ Final(req[s].status)
      <4>1. Answer(req[r]).code # "aborted" /\ Answer(req[r]).status = req[r].status
        BY <2>1, <2>3 DEF Answer, Bucket, Ended, Done, RequestOK, RecorderOK
      <4>2. Counted(req[s]).code # "aborted" => req[s].end = "replied"
        BY DEF Counted, Label, Bucket
      <4>3. Counted(req[s]).status = req[s].status
        BY DEF Counted, Label
      <4> QED BY <2>3, <3>2, <4>1, <4>2, <4>3 DEF Ended
    <3>3. {s \in Ended("replied") : Final(req[s].status) /\ Answer(req[s]) = Answer(req[r])}
            = CountedWith(Answer(req[r]))
      BY <3>1, <3>2 DEF CountedWith, Ended
    <3> QED BY <2>3, <3>3 DEF WebhookInv, Tallied
  <2> QED BY <2>2, <2>3 DEF CountedAsAnswered, WebhookInv, Tallied, CountedWith
<1> QED BY <1>1, WebhookInvariant, PTL
=============================================================================
