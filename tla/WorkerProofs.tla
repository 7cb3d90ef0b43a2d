---------------------------- MODULE WorkerProofs ----------------------------
(***************************************************************************)
(* Proofs about what the backend gives a worker: the LLM proxy, the        *)
(* directory of task skills, and the frames on its stdin.                  *)
(*                                                                         *)
(* The proxy, for any runs, endpoints, keys, requests and prefix: an entry *)
(* is found by its token, so all of it rests on whose token it is.         *)
(* IssuedAs says that an entry, wherever it is (built by Register, stored, *)
(* or in the context of a request on its way), is the one its token was    *)
(* drawn for, and Apart that a token is in one place only.                 *)
(*                                                                         *)
(* The skills, for any callers and refs and any number of calls, failures  *)
(* and restarts: CheckoutStable and CloneStartsClean are not inductive     *)
(* alone.  They need that only the holder of the lock is inside the call   *)
(* (OneInside), that nobody is inside once a directory is resolved, and    *)
(* that a directory is handed out only when it is resolved (Handed).       *)
(*                                                                         *)
(* The frames, for any lengths, types, line limit and number of calls:     *)
(* Laid says what the pipe looks like, as a sequence of frames in the      *)
(* order of their calls, each with all the bytes its Write put there.      *)
(***************************************************************************)
EXTENDS LLMProxy, TaskSkills, Frames, SequenceTheorems, WellFoundedInduction, TLAPS

-----------------------------------------------------------------------------
(* Paths *)

\* The segments that paths are made of.
Words == {"chat", "completions", "models", ""} \cup {Prefix[i] : i \in 1..Len(Prefix)}
Segments == Seq(Words)

RouteOK(method, path) == IsPrefix(Prefix, path) /\ Allowed(method, CutPrefix(path))

\* The prefix is a path.
LEMMA PrefixPath == Prefix \in Segments
<1>1. Prefix \in Seq(STRING)
  BY ProxyAssumption, Zenon
<1>2. Len(Prefix) \in Nat /\ Prefix \in [1..Len(Prefix) -> STRING]
  BY <1>1, LenProperties
<1>3. \A i \in 1..Len(Prefix) : Prefix[i] \in Words
  BY DEF Words
<1>4. Prefix \in [1..Len(Prefix) -> Words]
  BY <1>2, <1>3
<1> QED BY <1>2, <1>4, SeqDef DEF Segments

\* CutPrefix undoes what appending to the prefix does.
LEMMA CutAppended ==
  ASSUME NEW s \in Segments
  PROVE  IsPrefix(Prefix, Prefix \o s) /\ CutPrefix(Prefix \o s) = s
<1> DEFINE p == Prefix \o s
<1>1. Prefix \in Segments /\ Len(Prefix) \in Nat /\ Len(s) \in Nat
  <2>1. Prefix \in Segments
    BY PrefixPath
  <2> QED BY <2>1 DEF Segments
<1>2. p \in Segments /\ Len(p) = Len(Prefix) + Len(s)
      /\ (\A i \in 1..Len(Prefix) : p[i] = Prefix[i])
      /\ (\A i \in 1..Len(s) : p[Len(Prefix) + i] = s[i])
  BY <1>1 DEF Segments
<1>3. SubSeq(Prefix, 1, Len(Prefix)) = SubSeq(p, 1, Len(Prefix))
  BY <1>1, <1>2 DEF Segments
<1>4. CutPrefix(p) = s
  <2>1. CutPrefix(p) \in Segments /\ Len(CutPrefix(p)) = Len(s)
    BY <1>1, <1>2 DEF CutPrefix, Segments
  <2>2. \A i \in 1..Len(s) : CutPrefix(p)[i] = s[i]
    BY <1>1, <1>2 DEF CutPrefix, Segments
  <2> QED BY <2>1, <2>2, SeqEqual DEF Segments
<1> QED BY <1>1, <1>2, <1>3, <1>4 DEF IsPrefix

\* A path that has the prefix is the prefix and the rest.
LEMMA PrefixAndRest ==
  ASSUME NEW path \in Segments, IsPrefix(Prefix, path)
  PROVE  Prefix \o CutPrefix(path) = path /\ CutPrefix(path) \in Segments
<1> DEFINE c == CutPrefix(path)
           p == Prefix \o c
<1>1. /\ Prefix \in Segments /\ Len(Prefix) \in Nat /\ Len(path) \in Nat
      /\ Len(Prefix) <= Len(path)
  <2>1. Prefix \in Segments /\ Len(Prefix) <= Len(path)
    BY PrefixPath, Zenon DEF IsPrefix
  <2> QED BY <2>1 DEF Segments
<1>2. c \in Segments /\ Len(c) = Len(path) - Len(Prefix)
      /\ \A i \in 1..Len(c) : c[i] = path[Len(Prefix) + i]
  BY <1>1 DEF CutPrefix, Segments
<1>3. \A i \in 1..Len(Prefix) : Prefix[i] = path[i]
  BY <1>1 DEF IsPrefix, Segments
<1>4. p \in Segments /\ Len(p) = Len(path)
  BY <1>1, <1>2 DEF Segments
<1>5. \A i \in 1..Len(path) : p[i] = path[i]
  BY <1>1, <1>2, <1>3 DEF Segments
<1> QED BY <1>2, <1>4, <1>5, SeqEqual DEF Segments

\* The two endpoints are sequences of segments.
LEMMA EndpointPaths == Chat \in Segments /\ Models \in Segments /\ Chat # Models
<1>1. "chat" \in Words /\ "completions" \in Words /\ "models" \in Words
  BY DEF Words
<1>2. Chat \in Segments /\ Models \in Segments
  BY <1>1 DEF Chat, Models, Segments
<1>3. Len(Chat) = 2 /\ Len(Models) = 1
  BY DEF Chat, Models
<1> QED BY <1>2, <1>3

\* The check leaves no trailing slash and no mark, so the worker's base URL has
\* the prefix for its path.
LEMMA WorkerURL ==
  ASSUME NEW raw \in RawURLs, NEW url \in ValidateContainerURL(raw)
  PROVE  LET w == WorkerBaseURL(url)
         IN  w \in [scheme : {"http"}, host : {"serve", "alias", "gateway"}, path : {Prefix}, mark : {""}]
<1>1. TrimSlash(<<>>) = <<>>
  BY DEF TrimSlash, IsSuffix, IsPrefix, Reverse
<1>2. TrimSlash(<<"">>) = <<>>
  <2>1. IsSuffix(<<"">>, <<"">>)
    BY DEF IsSuffix, IsPrefix, Reverse
  <2>2. Front(<<"">>) = <<>>
    BY DEF Front
  <2> QED BY <2>1, <2>2 DEF TrimSlash
<1>3. <<>> \o Prefix = Prefix
  BY ProxyAssumption, ConcatEmptySeq
<1>4. CASE url = NoURL
  BY <1>3, <1>4 DEF WorkerBaseURL, NoURL, Extend
<1>5. CASE url # NoURL
  <2>1. /\ raw.scheme = "http" /\ raw.mark = "" /\ raw.path \in {<<>>, <<"">>}
        /\ raw.host \notin {"", "unspecified", "loopback", "localhost"}
        /\ url = [raw EXCEPT !.path = TrimSlash(@)]
    BY <1>5 DEF ValidateContainerURL
  <2>2. raw \in [scheme : {"http", "ftp"}, host : Hosts,
                 path : {<<>>, <<"">>, <<"api">>, <<"", "">>}, mark : {"", "?", "#"}]
    <3>1. NoURL.host = ""
      BY DEF NoURL
    <3>2. raw # NoURL
      BY <2>1, <3>1
    <3> QED BY <3>2 DEF RawURLs
  <2>3. url \in [scheme : {"http"}, host : {"serve", "alias"}, path : {<<>>}, mark : {""}]
    BY <1>1, <1>2, <2>1, <2>2 DEF Hosts
  <2> QED BY <1>1, <1>3, <1>5, <2>3 DEF WorkerBaseURL, Extend
<1> QED BY <1>4, <1>5

-----------------------------------------------------------------------------
(* The inductive invariant *)

\* Entry e is what Register built when it drew e's token.
IssuedAs(e) ==
  /\ e \in Entry /\ e.token \in 1..drawn
  /\ e.runKey = issued[e.token].run
  /\ e.base = Base(issued[e.token].up) /\ e.apiKey = issued[e.token].up.apiKey

RegistryOK ==
  /\ drawn \in Tokens /\ DOMAIN issued = 1..drawn
  /\ \A t \in 1..drawn : issued[t] \in [run : Runs, up : Endpoint]
  /\ DOMAIN runs \subseteq Runs /\ dead \subseteq 1..drawn
  /\ \A k \in DOMAIN runs : IssuedAs(runs[k]) /\ runs[k].runKey = k
  /\ \A e \in pending : IssuedAs(e)

\* A token is dead, live, or of an entry not yet stored, and one of these only.
Apart ==
  /\ \A k \in DOMAIN runs : runs[k].token \notin dead
  /\ \A e \in pending : e.token \notin dead /\ \A k \in DOMAIN runs : e.token # runs[k].token

Accounted == 1..drawn = dead \cup {e.token : e \in pending} \cup {runs[k].token : k \in DOMAIN runs}

Seen == [token : Nat, dead : BOOLEAN, method : {"GET", "POST"}, path : Segments]
Auths == {NoAuth} \cup {KeyAuth(k) : k \in Keys}
NewReq == [pc : {"new"}]
Answered == [pc : {"401", "404"}, seen : Seen]
Proxied == [pc : {"proxied"}, seen : Seen, entry : Entry]
Targets == {Target(b, s) : b \in Bases, s \in {Chat, Models}}
SentReq == [pc : {"forwarded", "502"}, seen : Seen, url : Targets, auth : Auths]

\* A request on its way has an entry of its own token; a sent one went where
\* SentWhereIssued says.
SentOK(q) ==
  LET up == issued[q.seen.token].up
  IN  /\ q.seen.token \in 1..drawn
      /\ \E suffix \in {Chat, Models} :
           q.seen.path = Prefix \o suffix /\ q.url = Target(Base(up), suffix)
      /\ q.auth = IF up.apiKey = NoKey THEN NoAuth ELSE KeyAuth(up.apiKey)

RequestOK(q) ==
  \/ q \in NewReq
  \/ q \in Answered /\ (q.pc = "404" => ~q.seen.dead /\ ~RouteOK(q.seen.method, q.seen.path))
  \/ /\ q \in Proxied /\ ~q.seen.dead
     /\ IssuedAs(q.entry) /\ q.entry.token = q.seen.token
     /\ RouteOK(q.seen.method, q.seen.path)
  \/ q \in SentReq /\ ~q.seen.dead /\ SentOK(q)

RequestsOK == DOMAIN req = Requests /\ \A r \in Requests : RequestOK(req[r])

\* The base URL that workers are given.
URL == [scheme : {"http"}, host : {"serve", "alias", "gateway"}, path : {Prefix}, mark : {""}]

WorkerOK == worker \in URL

ProxyInv == RegistryOK /\ Apart /\ Accounted /\ RequestsOK /\ WorkerOK

\* The constants that arithmetic needs.
LEMMA Constants == MaxTokens \in Nat /\ DefaultBase \in Bases
BY ProxyAssumption, Zenon

\* A new proxy.
LEMMA ProxyInitInv == ProxyInit => ProxyInv
<1> SUFFICES ASSUME ProxyInit PROVE ProxyInv
  OBVIOUS
<1>1. RegistryOK /\ Apart /\ Accounted
  BY Constants DEF ProxyInit, RegistryOK, Apart, Accounted, Tokens
<1>2. RequestsOK
  BY DEF ProxyInit, RequestsOK, RequestOK, NewReq
<1>3. WorkerOK
  BY WorkerURL DEF ProxyInit, WorkerOK, URL
<1> QED BY <1>1, <1>2, <1>3 DEF ProxyInv

\* What was issued stays as it was: entries and requests keep what they rest on.
LEMMA IssuedStays ==
  ASSUME drawn \in Nat, drawn' \in Nat, drawn <= drawn',
         \A t \in 1..drawn : issued'[t] = issued[t]
  PROVE  /\ \A e : IssuedAs(e) => IssuedAs(e)'
         /\ \A q : RequestOK(q) => RequestOK(q)'
<1>1. \A e : IssuedAs(e) => IssuedAs(e)'
  BY DEF IssuedAs
<1>2. ASSUME NEW q, SentOK(q) PROVE SentOK(q)'
  <2>1. q.seen.token \in 1..drawn /\ q.seen.token \in 1..drawn'
    BY <1>2 DEF SentOK
  <2>2. issued'[q.seen.token] = issued[q.seen.token]
    BY <2>1
  <2> QED BY <1>2, <2>1, <2>2, Zenon DEF SentOK
<1>3. \A q : RequestOK(q) => RequestOK(q)'
  BY <1>1, <1>2 DEF RequestOK
<1> QED BY <1>1, <1>3

\* Register draws a token nobody has and builds its entry.
LEMMA RegisterInv ==
  ASSUME ProxyInv, NEW k \in Runs, NEW up \in Endpoint, Register(k, up)
  PROVE  ProxyInv'
<1> DEFINE t == drawn + 1
           e == [runKey |-> k, token |-> t, base |-> Base(up), apiKey |-> up.apiKey]
<1>1. /\ drawn \in Nat /\ drawn' = t /\ pending' = pending \cup {e} /\ t \in Tokens
      /\ UNCHANGED <<worker, runs, req, dead>>
  BY Constants DEF Register, ProxyInv, RegistryOK, Tokens
<1>2. DOMAIN issued' = 1..t /\ issued'[t] = [run |-> k, up |-> up]
      /\ \A x \in 1..drawn : issued'[x] = issued[x]
  BY <1>1 DEF Register
<1>3. (\A x : IssuedAs(x) => IssuedAs(x)') /\ (\A q : RequestOK(q) => RequestOK(q)')
  BY <1>1, <1>2, IssuedStays
<1>4. e \in Entry
  BY <1>1, Constants DEF Register, Endpoint, Entry, Base
<1>5. ASSUME NEW x, x = e PROVE IssuedAs(x)'
  BY <1>1, <1>2, <1>4, <1>5 DEF IssuedAs
<1>6. RegistryOK'
  <2>1. \A x \in pending' : IssuedAs(x)'
    BY <1>1, <1>3, <1>5 DEF ProxyInv, RegistryOK
  <2>2. \A x \in 1..t : issued'[x] \in [run : Runs, up : Endpoint]
    BY <1>1, <1>2 DEF ProxyInv, RegistryOK
  <2>3. dead \subseteq 1..t
    BY <1>1 DEF ProxyInv, RegistryOK
  <2>4. \A j \in DOMAIN runs' : IssuedAs(runs[j])' /\ runs'[j].runKey = j
    BY <1>1, <1>3 DEF ProxyInv, RegistryOK
  <2> QED BY <1>1, <1>2, <2>1, <2>2, <2>3, <2>4 DEF ProxyInv, RegistryOK
<1>7. Apart'
  <2>1. t \notin dead /\ \A j \in DOMAIN runs : runs[j].token # t
    BY <1>1 DEF ProxyInv, RegistryOK, IssuedAs
  <2> QED BY <1>1, <2>1 DEF ProxyInv, Apart
<1>8. Accounted'
  <2>1. 1..t = (1..drawn) \cup {t}
    BY <1>1
  <2>2. {x.token : x \in pending'} = {x.token : x \in pending} \cup {t}
    <3>1. e.token = t
      OBVIOUS
    <3> HIDE DEF e, t
    <3> QED BY <1>1, <3>1
  <2> HIDE DEF t
  <2> QED BY <1>1, <2>1, <2>2 DEF ProxyInv, Accounted
<1>9. RequestsOK' /\ WorkerOK'
  BY <1>1, <1>3 DEF ProxyInv, RequestsOK, WorkerOK
<1> QED BY <1>6, <1>7, <1>8, <1>9 DEF ProxyInv

\* The token of a stored entry differs from every other token in use.
LEMMA SameTokenSameEntry ==
  ASSUME NEW e, NEW f, IssuedAs(e), IssuedAs(f), e.token = f.token
  PROVE  e = f
BY DEF IssuedAs, Entry

\* Store makes one token live and the one it replaces dead.
LEMMA StoreInv ==
  ASSUME ProxyInv, NEW e \in pending, Store(e)
  PROVE  ProxyInv'
<1> DEFINE k == e.runKey
<1>1. IssuedAs(e) /\ k \in Runs
  BY DEF ProxyInv, RegistryOK, IssuedAs, Entry
<1>2. /\ pending' = pending \ {e} /\ dead' = dead \cup Live(k)
      /\ UNCHANGED <<worker, drawn, req, issued>>
      /\ DOMAIN runs' = DOMAIN runs \cup {k} /\ runs'[k] = e
      /\ \A j \in DOMAIN runs : j # k => runs'[j] = runs[j]
  BY DEF Store
<1>3. \A x : IssuedAs(x)' <=> IssuedAs(x)
  BY <1>2 DEF IssuedAs
<1>4. \A x \in Live(k) : x \in 1..drawn /\ k \in DOMAIN runs /\ x = runs[k].token
  BY DEF Live, ProxyInv, RegistryOK, IssuedAs
<1>5. RegistryOK'
  <2>1. \A j \in DOMAIN runs' : IssuedAs(runs'[j]) /\ runs'[j].runKey = j
    BY <1>1, <1>2 DEF ProxyInv, RegistryOK
  <2>2. \A j \in DOMAIN runs' : IssuedAs(runs[j])'
    <3> SUFFICES ASSUME NEW j \in DOMAIN runs' PROVE IssuedAs(runs[j])'
      OBVIOUS
    <3>1. PICK x : x = runs'[j]
      OBVIOUS
    <3>2. IssuedAs(x)'
      BY <1>3, <2>1, <3>1
    <3> QED BY <3>1, <3>2
  <2> QED BY <1>1, <1>2, <1>3, <1>4, <2>1, <2>2 DEF ProxyInv, RegistryOK
<1>6. \A f \in pending : f # e => f.token # e.token
  BY <1>1, SameTokenSameEntry DEF ProxyInv, RegistryOK
<1>7. \A j \in DOMAIN runs : j # k => k \notin DOMAIN runs \/ runs[j].token # runs[k].token
  BY SameTokenSameEntry DEF ProxyInv, RegistryOK
<1>8. Apart'
  <2>1. \A j \in DOMAIN runs' : runs'[j].token \notin dead'
    BY <1>2, <1>4, <1>7 DEF ProxyInv, Apart
  <2>2. \A f \in pending' : f.token \notin dead'
    BY <1>2, <1>4 DEF ProxyInv, Apart
  <2>3. \A f \in pending' : \A j \in DOMAIN runs' : f.token # runs'[j].token
    BY <1>2, <1>6 DEF ProxyInv, Apart
  <2> QED BY <2>1, <2>2, <2>3 DEF Apart
<1>9. Accounted'
  <2>1. {f.token : f \in pending} = {f.token : f \in pending'} \cup {e.token}
    BY <1>2
  <2>2. {runs'[j].token : j \in DOMAIN runs'} \cup Live(k)
          = {runs[j].token : j \in DOMAIN runs} \cup {e.token}
    BY <1>2 DEF Live
  <2> QED BY <1>2, <2>1, <2>2 DEF ProxyInv, Accounted
<1>10. RequestsOK' /\ WorkerOK'
  <2>1. drawn \in Nat
    BY DEF ProxyInv, RegistryOK, Tokens
  <2>2. \A q : RequestOK(q) => RequestOK(q)'
    BY <1>2, <2>1, IssuedStays
  <2> QED BY <1>2, <2>2 DEF ProxyInv, RequestsOK, WorkerOK
<1> QED BY <1>5, <1>8, <1>9, <1>10 DEF ProxyInv

\* Revoke makes a token dead.
LEMMA RevokeInv ==
  ASSUME ProxyInv, NEW k \in Runs, Revoke(k)
  PROVE  ProxyInv'
<1>1. /\ k \in DOMAIN runs /\ dead' = dead \cup {runs[k].token}
      /\ UNCHANGED <<worker, drawn, pending, req, issued>>
      /\ DOMAIN runs' = DOMAIN runs \ {k} /\ \A j \in DOMAIN runs' : runs'[j] = runs[j]
  BY DEF Revoke, Live
<1>2. \A x : IssuedAs(x)' <=> IssuedAs(x)
  BY <1>1 DEF IssuedAs
<1>3. RegistryOK'
  <2>1. \A j \in DOMAIN runs' : IssuedAs(runs'[j]) /\ runs'[j].runKey = j
    BY <1>1 DEF ProxyInv, RegistryOK
  <2>2. \A j \in DOMAIN runs' : IssuedAs(runs[j])'
    <3> SUFFICES ASSUME NEW j \in DOMAIN runs' PROVE IssuedAs(runs[j])'
      OBVIOUS
    <3>1. PICK x : x = runs'[j]
      OBVIOUS
    <3>2. IssuedAs(x)'
      BY <1>2, <2>1, <3>1
    <3> QED BY <3>1, <3>2
  <2>3. runs[k].token \in 1..drawn
    BY <1>1 DEF ProxyInv, RegistryOK, IssuedAs
  <2> QED BY <1>1, <1>2, <2>1, <2>2, <2>3 DEF ProxyInv, RegistryOK
<1>4. \A j \in DOMAIN runs : j # k => runs[j].token # runs[k].token
  BY <1>1, SameTokenSameEntry DEF ProxyInv, RegistryOK
<1>5. Apart'
  BY <1>1, <1>4 DEF ProxyInv, Apart
<1>6. Accounted'
  <2>1. {runs[j].token : j \in DOMAIN runs} = {runs'[j].token : j \in DOMAIN runs'} \cup {runs[k].token}
    BY <1>1
  <2> QED BY <1>1, <2>1 DEF ProxyInv, Accounted
<1>7. RequestsOK' /\ WorkerOK'
  <2>1. drawn \in Nat
    BY DEF ProxyInv, RegistryOK, Tokens
  <2>2. \A q : RequestOK(q) => RequestOK(q)'
    BY <1>1, <2>1, IssuedStays
  <2> QED BY <1>1, <2>2 DEF ProxyInv, RequestsOK, WorkerOK
<1> QED BY <1>3, <1>5, <1>6, <1>7 DEF ProxyInv

\* What a worker calls, and what else gets to the proxy.
LEMMA CallsTyped ==
  ASSUME WorkerOK
  PROVE  /\ OwnCalls = {<<"POST", Prefix \o Chat>>, <<"GET", Prefix \o Models>>}
         /\ \A hit \in OwnCalls \cup StrayCalls : hit[1] \in {"GET", "POST"} /\ hit[2] \in Segments
<1>1. OwnCalls = {<<"POST", Prefix \o Chat>>, <<"GET", Prefix \o Models>>}
  <2>1. \A s : Extend(worker, s).path = worker.path \o s
    BY DEF WorkerOK, URL, Extend
  <2>2. worker.path = Prefix
    BY DEF WorkerOK, URL
  <2>3. Extend(worker, Chat).path = Prefix \o Chat /\ Extend(worker, Models).path = Prefix \o Models
    BY <2>1, <2>2, Zenon
  <2> QED BY <2>3, Zenon DEF OwnCalls
<1>2. Prefix \o Chat \in Segments /\ Prefix \o Models \in Segments
  BY PrefixPath, EndpointPaths, ConcatProperties DEF Segments
<1>3. <<"">> \in Segments
  <2>1. ASSUME NEW w \in Words PROVE <<w>> \in Segments
    BY DEF Segments
  <2>2. "" \in Words
    BY Zenon DEF Words
  <2> QED BY <2>1, <2>2, Zenon
<1>4. Prefix \o <<"">> \in Segments
  BY <1>3, PrefixPath, ConcatProperties DEF Segments
<1>5. ASSUME NEW hit \in OwnCalls \cup StrayCalls
      PROVE  hit[1] \in {"GET", "POST"} /\ hit[2] \in Segments
  <2>1. CASE hit = <<"POST", Prefix \o Chat>>
    BY <1>2, <2>1
  <2>2. CASE hit = <<"GET", Prefix \o Models>>
    BY <1>2, <2>2
  <2>3. CASE hit = <<"GET", Prefix \o Chat>>
    BY <1>2, <2>3
  <2>4. CASE hit = <<"GET", Models>>
    BY EndpointPaths, <2>4
  <2>5. CASE hit = <<"GET", Prefix \o <<"">>>>
    BY <1>4, <2>5
  <2> QED BY <1>1, <2>1, <2>2, <2>3, <2>4, <2>5, Zenon DEF StrayCalls
<1> QED BY <1>1, <1>5

\* A step of one request, which leaves the registry alone.
LEMMA RequestStep ==
  ASSUME ProxyInv, UNCHANGED <<worker, runs, drawn, pending, issued, dead>>,
         NEW r \in Requests, NEW q, RequestOK(q), req' = [req EXCEPT ![r] = q]
  PROVE  ProxyInv'
<1>1. (\A x : IssuedAs(x)' <=> IssuedAs(x)) /\ \A x : RequestOK(x) => RequestOK(x)'
  <2>1. drawn \in Nat
    BY DEF ProxyInv, RegistryOK, Tokens
  <2> QED BY <2>1, IssuedStays DEF IssuedAs
<1>2. RegistryOK' /\ Apart' /\ Accounted' /\ WorkerOK'
  BY <1>1 DEF ProxyInv, RegistryOK, Apart, Accounted, WorkerOK, IssuedAs
<1>3. RequestsOK'
  <2>1. DOMAIN req' = Requests /\ req'[r] = q /\ \A x \in Requests : x # r => req'[x] = req[x]
    BY DEF ProxyInv, RequestsOK
  <2>2. \A x \in Requests : RequestOK(req'[x])
    BY <2>1 DEF ProxyInv, RequestsOK
  <2>3. ASSUME NEW x \in Requests PROVE RequestOK(req[x])'
    <3>1. PICK y : y = req'[x]
      OBVIOUS
    <3>2. RequestOK(y)'
      BY <1>1, <2>2, <3>1
    <3> QED BY <3>1, <3>2
  <2> QED BY <2>1, <2>3 DEF RequestsOK
<1> QED BY <1>2, <1>3 DEF ProxyInv

\* ServeHTTP answers 401 or 404, or lets a request with a live token on an allowed
\* route through, with the entry of that token.
LEMMA ServeInv ==
  ASSUME ProxyInv, NEW r \in Requests, NEW t \in 0..drawn,
         NEW hit \in OwnCalls \cup StrayCalls, Serve(r, t, hit[1], hit[2])
  PROVE  ProxyInv'
<1> DEFINE seen == [token |-> t, dead |-> t \in dead, method |-> hit[1], path |-> hit[2]]
<1>1. UNCHANGED <<worker, runs, drawn, pending, issued, dead>>
  BY DEF Serve
<1>2. seen \in Seen
  BY CallsTyped DEF ProxyInv, RegistryOK, Tokens, Seen
<1>3. /\ seen.token = t /\ seen.dead = (t \in dead) /\ seen.method = hit[1] /\ seen.path = hit[2]
  OBVIOUS
<1> HIDE DEF seen
<1>4. \A e \in Found(t) : IssuedAs(e) /\ e.token = t /\ t \notin dead
  BY DEF Found, ProxyInv, RegistryOK, Apart
<1>5. CASE req' = [req EXCEPT ![r] = [pc |-> "401", seen |-> seen]]
  <2> DEFINE q == [pc |-> "401", seen |-> seen]
  <2>1. q \in Answered /\ q.pc # "404"
    BY <1>2 DEF Answered
  <2>2. RequestOK(q)
    BY <2>1 DEF RequestOK
  <2> HIDE DEF q
  <2>3. req' = [req EXCEPT ![r] = q]
    BY <1>5 DEF q
  <2> QED BY <1>1, <2>2, <2>3, RequestStep
<1>6. CASE /\ Found(t) # {} /\ ~RouteOK(hit[1], hit[2])
           /\ req' = [req EXCEPT ![r] = [pc |-> "404", seen |-> seen]]
  <2> DEFINE q == [pc |-> "404", seen |-> seen]
  <2>1. q \in Answered /\ q.seen = seen
    BY <1>2 DEF Answered
  <2>2. RequestOK(q)
    BY <1>3, <1>4, <1>6, <2>1 DEF RequestOK
  <2> HIDE DEF q
  <2>3. req' = [req EXCEPT ![r] = q]
    BY <1>6 DEF q
  <2> QED BY <1>1, <2>2, <2>3, RequestStep
<1>7. CASE /\ RouteOK(hit[1], hit[2])
           /\ \E e \in Found(t) :
                req' = [req EXCEPT ![r] = [pc |-> "proxied", seen |-> seen, entry |-> e]]
  <2>1. PICK e \in Found(t) : req' = [req EXCEPT ![r] = [pc |-> "proxied", seen |-> seen, entry |-> e]]
    BY <1>7
  <2> DEFINE q == [pc |-> "proxied", seen |-> seen, entry |-> e]
  <2>2. q \in Proxied /\ q.seen = seen /\ q.entry = e
    BY <1>2, <1>4 DEF Proxied, IssuedAs
  <2>3. RequestOK(q)
    BY <1>3, <1>4, <1>7, <2>2 DEF RequestOK
  <2> HIDE DEF q
  <2>4. req' = [req EXCEPT ![r] = q]
    BY <2>1 DEF q
  <2> QED BY <1>1, <2>3, <2>4, RequestStep
<1> QED BY <1>5, <1>6, <1>7 DEF Serve, RouteOK, seen

\* The reverse proxy sends a request with the entry of its own token.
LEMMA ForwardInv ==
  ASSUME ProxyInv, NEW r \in Requests, Forward(r)
  PROVE  ProxyInv'
<1> DEFINE e == req[r].entry
           s == req[r].seen
           q == [pc |-> "forwarded", seen |-> s, url |-> Target(e.base, CutPrefix(s.path)),
                 auth |-> Rewrite(e, TokenAuth(s.token))]
<1>1. UNCHANGED <<worker, runs, drawn, pending, issued, dead>> /\ req' = [req EXCEPT ![r] = q]
      /\ req[r].pc = "proxied"
  BY DEF Forward, ContextEntry
<1>2. /\ req[r] \in Proxied /\ ~s.dead /\ IssuedAs(e) /\ e.token = s.token
      /\ RouteOK(s.method, s.path)
  BY <1>1 DEF ProxyInv, RequestsOK, RequestOK, NewReq, Answered, SentReq
<1>3. s \in Seen /\ e \in Entry /\ s.path \in Segments
  BY <1>2 DEF Proxied, Seen
<1>4. Prefix \o CutPrefix(s.path) = s.path
  BY <1>2, <1>3, PrefixAndRest DEF RouteOK
<1>5. CutPrefix(s.path) \in {Chat, Models}
  BY <1>2 DEF RouteOK, Allowed
<1>6. Rewrite(e, TokenAuth(s.token)) = IF e.apiKey = NoKey THEN NoAuth ELSE KeyAuth(e.apiKey)
  BY DEF Rewrite
<1>7. Rewrite(e, TokenAuth(s.token)) \in Auths
  BY <1>3, <1>6 DEF Auths, Entry
<1>8. q \in SentReq
  <2>1. e.base \in Bases
    BY <1>3 DEF Entry
  <2>2. Target(e.base, CutPrefix(s.path)) \in Targets
    BY <1>5, <2>1 DEF Targets
  <2> QED BY <1>3, <1>7, <2>2 DEF SentReq
<1>9. q.seen = s /\ q.url = Target(e.base, CutPrefix(s.path))
      /\ q.auth = Rewrite(e, TokenAuth(s.token))
  OBVIOUS
<1> HIDE DEF q
<1>10. SentOK(q)
  BY <1>2, <1>4, <1>5, <1>6, <1>9 DEF SentOK, IssuedAs
<1>11. RequestOK(q)
  BY <1>2, <1>8, <1>9, <1>10 DEF RequestOK
<1> QED BY <1>1, <1>11, RequestStep

\* upstreamError answers 502 to a request that was sent.
LEMMA UpstreamErrorInv ==
  ASSUME ProxyInv, NEW r \in Requests, UpstreamError(r)
  PROVE  ProxyInv'
<1> DEFINE q == [req[r] EXCEPT !.pc = "502"]
<1>1. UNCHANGED <<worker, runs, drawn, pending, issued, dead>> /\ req' = [req EXCEPT ![r] = q]
      /\ req[r].pc = "forwarded"
  BY DEF UpstreamError
<1>2. req[r] \in SentReq /\ ~req[r].seen.dead /\ SentOK(req[r])
  BY <1>1 DEF ProxyInv, RequestsOK, RequestOK, NewReq, Answered, Proxied
<1>3. q \in SentReq /\ q.seen = req[r].seen /\ q.url = req[r].url /\ q.auth = req[r].auth
  BY <1>2 DEF SentReq
<1> HIDE DEF q
<1>4. RequestOK(q)
  BY <1>2, <1>3 DEF RequestOK, SentOK
<1> QED BY <1>1, <1>4, RequestStep

-----------------------------------------------------------------------------
(* What holds in every reachable state *)

\* The invariant is inductive.
LEMMA ProxyNextInv == ProxyInv /\ [ProxyNext]_proxyVars => ProxyInv'
<1> SUFFICES ASSUME ProxyInv, [ProxyNext]_proxyVars PROVE ProxyInv'
  OBVIOUS
<1>1. ASSUME NEW k \in Runs, Revoke(k) PROVE ProxyInv'
  BY <1>1, RevokeInv
<1>2. ASSUME NEW k \in Runs, NEW up \in Endpoint, Register(k, up) PROVE ProxyInv'
  BY <1>2, RegisterInv
<1>3. ASSUME NEW e \in pending, Store(e) PROVE ProxyInv'
  BY <1>3, StoreInv
<1>4. ASSUME NEW r \in Requests, Forward(r) PROVE ProxyInv'
  BY <1>4, ForwardInv
<1>5. ASSUME NEW r \in Requests, UpstreamError(r) PROVE ProxyInv'
  BY <1>5, UpstreamErrorInv
<1>6. ASSUME NEW r \in Requests, NEW t \in 0..drawn, NEW hit \in OwnCalls \cup StrayCalls,
             Serve(r, t, hit[1], hit[2])
      PROVE  ProxyInv'
  BY <1>6, ServeInv
<1>7. CASE UNCHANGED proxyVars
  BY <1>7, SMTT(60) DEF proxyVars, ProxyInv, RegistryOK, Apart, Accounted, RequestsOK, WorkerOK,
              RequestOK, SentOK, IssuedAs
<1> QED BY <1>1, <1>2, <1>3, <1>4, <1>5, <1>6, <1>7 DEF ProxyNext

\* It holds in every reachable state.
LEMMA ProxyInvariant == ProxySpec => []ProxyInv
BY ProxyInitInv, ProxyNextInv, PTL DEF ProxySpec

\* Every token that was drawn is dead, live, or of an entry that Register has not
\* stored yet, and one of these only: the registry loses none, and no token has
\* two entries (Register, Revoke).
THEOREM ProxyTokensAccounted == ProxySpec => []StoredTokensAccounted
<1>1. ProxyInv => StoredTokensAccounted
  <2> SUFFICES ASSUME ProxyInv PROVE StoredTokensAccounted
    OBVIOUS
  <2>1. \A k \in DOMAIN runs : runs[k] \in Entry /\ runs[k].runKey = k
    BY DEF ProxyInv, RegistryOK, IssuedAs
  <2>2. pending \subseteq Entry
    BY DEF ProxyInv, RegistryOK, IssuedAs
  <2>3. \A r \in Requests : req[r].pc \in {"new", "401", "404", "proxied", "forwarded", "502"}
    BY DEF ProxyInv, RequestsOK, RequestOK, NewReq, Answered, Proxied, SentReq
  <2>4. ProxyTypeOK
    BY <2>1, <2>2, <2>3 DEF ProxyInv, RegistryOK, ProxyTypeOK
  <2>5. 1..drawn = dead \cup {e.token : e \in Held}
    BY DEF ProxyInv, Accounted, Held
  <2>6. \A e \in Held : IssuedAs(e) /\ e.token \notin dead
    BY DEF ProxyInv, RegistryOK, Apart, Held
  <2>7. \A e, f \in Held : e.token = f.token => e = f
    BY <2>6, SameTokenSameEntry
  <2>8. \A k \in DOMAIN runs : runs[k] \notin pending
    BY DEF ProxyInv, Apart
  <2> QED BY <2>4, <2>5, <2>6, <2>7, <2>8 DEF StoredTokensAccounted
<1> QED BY <1>1, ProxyInvariant, PTL

\* A request that comes with a token that was replaced or revoked is answered 401
\* and never forwarded, however the calls of Register race (ServeHTTP, lookup).
THEOREM ProxyRefusesDeadTokens == ProxySpec => []DeadTokenRefused
<1>1. ProxyInv => DeadTokenRefused
  BY DEF ProxyInv, RequestsOK, RequestOK, NewReq, Answered, Proxied, SentReq, DeadTokenRefused
<1> QED BY <1>1, ProxyInvariant, PTL

\* A request goes to the endpoint its own token was issued for, with that
\* endpoint's key, even if its run was registered anew or revoked while it was on
\* its way (rewrite).
THEOREM ProxySendsWhereIssued == ProxySpec => []SentWhereIssued
<1>1. ProxyInv => SentWhereIssued
  <2> SUFFICES ASSUME ProxyInv, NEW r \in Sent PROVE SentOK(req[r])
    BY DEF SentWhereIssued, SentOK
  <2>1. r \in Requests /\ req[r].pc \in {"forwarded", "502"}
    BY DEF Sent
  <2> QED BY <2>1 DEF ProxyInv, RequestsOK, RequestOK, NewReq, Answered, Proxied
<1> QED BY <1>1, ProxyInvariant, PTL

\* With any container_serve_url that passes the check and any prefix that New
\* accepts, a worker's own calls reach their route, and the metrics know every
\* path that is forwarded (WorkerBaseURL, ServeHTTP).
THEOREM ProxyServesWorkers == ProxySpec => []WorkerServed
<1>1. ProxyInv => WorkerServed
  <2> SUFFICES ASSUME ProxyInv PROVE WorkerServed
    OBVIOUS
  <2>1. ASSUME NEW r \in Requests, req[r].pc = "404",
               <<req[r].seen.method, req[r].seen.path>> \in OwnCalls
        PROVE  FALSE
    <3> DEFINE m == req[r].seen.method
               path == req[r].seen.path
    <3>1. ~RouteOK(m, path)
      BY <2>1 DEF ProxyInv, RequestsOK, RequestOK, NewReq, Proxied, SentReq
    <3>2. OwnCalls = {<<"POST", Prefix \o Chat>>, <<"GET", Prefix \o Models>>}
      BY CallsTyped DEF ProxyInv
    <3>3. (m = "POST" /\ path = Prefix \o Chat) \/ (m = "GET" /\ path = Prefix \o Models)
      BY <2>1, <3>2
    <3>4. RouteOK("POST", Prefix \o Chat) /\ RouteOK("GET", Prefix \o Models)
      BY CutAppended, EndpointPaths DEF RouteOK, Allowed
    <3> QED BY <3>1, <3>3, <3>4
  <2>2. ASSUME NEW r \in Sent PROVE req[r].seen.path \in Paths
    <3>1. r \in Requests /\ req[r].pc \in {"forwarded", "502"}
      BY DEF Sent
    <3>2. SentOK(req[r])
      BY <3>1 DEF ProxyInv, RequestsOK, RequestOK, NewReq, Answered, Proxied
    <3> QED BY <3>2 DEF SentOK, Paths
  <2> QED BY <2>1, <2>2 DEF WorkerServed
<1> QED BY <1>1, ProxyInvariant, PTL

-----------------------------------------------------------------------------
(* Task skills *)

Inside(c) == call[c].pc \in {"fetchPointer", "clear", "clone"}

\* The callers inside a call are the holder of r.mu, and a call that has passed
\* the pointer has a ref that was vetted.
OneInside ==
  /\ \A c \in Callers : Inside(c) <=> mu = {c}
  /\ \A c \in Callers : call[c].pc = "clear" => call[c].ref \in Refs
  /\ \A c \in Callers : call[c].pc = "clone" => call[c].ref \in Refs /\ call[c].step \in 1..Whole

\* A resolved directory is whole and nobody is at work on it; without one, no
\* directory has been handed out.
Handed ==
  /\ resolved => mu = {} /\ dest.stage = Whole /\ dest.ref \in Refs
  /\ ~resolved => \A c \in Callers : given[c] = NoRef

SkillsInv ==
  /\ SkillsTypeOK
  /\ OneInside
  /\ Handed
  /\ CheckoutStable
  /\ CloneStartsClean

-----------------------------------------------------------------------------
\* The clone has five steps.
LEMMA WholeIs == Whole = 5
BY DEF Whole, Steps

\* The state of a call, and that of no call.
CallRecord ==
  [pc : {"idle", "waiting", "fetchPointer", "clear", "clone", "ok", "error"},
   step : 0..Whole, ref : Refs \cup {NoRef}]

\* The record that Resolve's calls start from and return to is well typed.
LEMMA NoCallTyped == NoCall \in CallRecord
BY WholeIs DEF NoCall, CallRecord

\* Nothing is resolved and nobody calls at the start.
LEMMA SkillsInitInv == SkillsInit => SkillsInv
<1> SUFFICES ASSUME SkillsInit PROVE SkillsInv
  OBVIOUS
<1> USE DEF SkillsInit
<1>1. dest \in [stage : 0..Whole, ref : Refs \cup {NoRef}] /\ call \in [Callers -> CallRecord]
  BY WholeIs, NoCallTyped
<1>2. SkillsTypeOK
  BY <1>1 DEF SkillsTypeOK, CallRecord
<1>3. \A c \in Callers : call[c].pc = "idle"
  BY DEF NoCall
<1>4. \A c \in Callers : mu # {c}
  OBVIOUS
<1>5. OneInside
  BY <1>3, <1>4 DEF OneInside, Inside
<1>6. Handed /\ CheckoutStable /\ CloneStartsClean
  BY <1>3 DEF Handed, CheckoutStable, CloneStartsClean
<1> QED
  BY <1>2, <1>5, <1>6 DEF SkillsInv

\* A caller arrives.
LEMMA CallInv ==
  ASSUME SkillsInv, NEW c \in Callers, Call(c)
  PROVE  SkillsInv'
<1> USE DEF SkillsInv, SkillsTypeOK
<1>1. SkillsTypeOK'
  BY WholeIs DEF Call, NoCall
<1>2. /\ call'[c].pc = "waiting"
      /\ \A d \in Callers : d # c => call'[d] = call[d]
  BY DEF Call, NoCall
<1>3. mu # {c}
  BY DEF Call, OneInside, Inside
<1>4. OneInside'
  BY <1>2, <1>3 DEF Call, OneInside, Inside
<1>5. Handed' /\ CheckoutStable'
  BY DEF Call, Handed, CheckoutStable
<1>6. CloneStartsClean'
  BY <1>2 DEF Call, CloneStartsClean
<1> QED
  BY <1>1, <1>4, <1>5, <1>6

\* The lock is taken; a resolved directory is handed out as it is.
LEMMA LockInv ==
  ASSUME SkillsInv, NEW c \in Callers, Lock(c)
  PROVE  SkillsInv'
<1> USE DEF SkillsInv, SkillsTypeOK
<1>1. /\ \A d \in Callers : ~Inside(d)
      /\ \A d \in Callers : mu # {d}
  BY DEF Lock, OneInside
<1>2. CASE Cached /\ Return(c, "ok") /\ given' = [given EXCEPT ![c] = dest.ref]
  <2>1. UNCHANGED <<resolved, dest>> /\ resolved /\ mu = {} /\ mu' = {}
    BY <1>2 DEF Lock, Cached, Return
  <2>2. /\ call'[c].pc = "ok"
        /\ \A d \in Callers : d # c => call'[d] = call[d]
    BY <1>2 DEF Return, NoCall
  <2>3. SkillsTypeOK'
    BY <1>2, <2>1, WholeIs DEF Return, NoCall
  <2>4. OneInside'
    BY <1>1, <2>1, <2>2 DEF OneInside, Inside
  <2>5. Handed'
    BY <2>1 DEF Handed
  <2>6. CheckoutStable'
    BY <1>2, <2>1 DEF CheckoutStable, Handed
  <2>7. CloneStartsClean'
    BY <2>1, <2>2 DEF CloneStartsClean
  <2> QED
    BY <2>3, <2>4, <2>5, <2>6, <2>7
<1>3. CASE ~Cached /\ mu' = {c} /\ UNCHANGED given
            /\ call' = [call EXCEPT ![c].pc = "fetchPointer"]
  <2>1. UNCHANGED <<resolved, dest, given>> /\ ~resolved
    BY <1>3 DEF Lock, Cached
  <2>2. /\ call'[c].pc = "fetchPointer"
        /\ \A d \in Callers : d # c => call'[d] = call[d]
    BY <1>3
  <2>3. SkillsTypeOK'
    BY <1>3, <2>1
  <2>4. \A d \in Callers : mu' = {d} <=> d = c
    BY <1>3
  <2>5. OneInside'
    BY <1>1, <2>2, <2>4 DEF OneInside, Inside
  <2>6. Handed' /\ CheckoutStable'
    BY <2>1 DEF Handed, CheckoutStable
  <2>7. CloneStartsClean'
    BY <2>1, <2>2 DEF CloneStartsClean
  <2> QED
    BY <2>3, <2>5, <2>6, <2>7
<1> QED
  BY <1>2, <1>3 DEF Lock

\* Inside a call nothing is resolved, nobody else is inside, and nothing has been
\* handed out.
LEMMA InsideAlone ==
  ASSUME SkillsInv, NEW c \in Callers, Inside(c)
  PROVE  /\ mu = {c} /\ ~resolved
         /\ \A d \in Callers : d # c => ~Inside(d)
         /\ \A d \in Callers : given[d] = NoRef
<1>1. mu = {c} /\ mu # {}
  BY DEF SkillsInv, OneInside
<1>2. \A d \in Callers : d # c => mu # {d}
  BY <1>1
<1> QED
  BY <1>1, <1>2 DEF SkillsInv, OneInside, Handed

\* A failure releases the lock and caches nothing, whatever is left of the
\* directory.
LEMMA FailInv ==
  ASSUME SkillsInv, NEW c \in Callers, Inside(c), Fail(c),
         dest' \in [stage : 0..Whole, ref : Refs \cup {NoRef}]
  PROVE  SkillsInv'
<1> USE DEF SkillsInv, SkillsTypeOK
<1>1. /\ mu' = {} /\ ~resolved' /\ UNCHANGED <<resolved, given>>
      /\ \A d \in Callers : given'[d] = NoRef
  BY InsideAlone DEF Fail, Return
<1>2. /\ call'[c].pc = "error"
      /\ \A d \in Callers : d # c => call'[d] = call[d]
  BY DEF Fail, Return, NoCall
<1>3. SkillsTypeOK'
  BY <1>1, WholeIs DEF Fail, Return, NoCall
<1>4. \A d \in Callers : ~(Inside(d))' /\ mu' # {d}
  BY <1>1, <1>2, InsideAlone DEF Inside
<1>5. OneInside'
  BY <1>4 DEF OneInside, Inside
<1>6. Handed' /\ CheckoutStable'
  BY <1>1 DEF Handed, CheckoutStable
<1>7. CloneStartsClean'
  BY <1>4 DEF CloneStartsClean, Inside
<1> QED
  BY <1>3, <1>5, <1>6, <1>7

\* The call goes on inside, with the lock, and is still the only one.
LEMMA OnwardInv ==
  ASSUME SkillsInv, NEW c \in Callers, Inside(c), UNCHANGED <<mu, resolved, given>>,
         dest' \in [stage : 0..Whole, ref : Refs \cup {NoRef}],
         call' \in [Callers -> CallRecord],
         \A d \in Callers : d # c => call'[d] = call[d],
         call'[c].pc \in {"clear", "clone"}, call'[c].ref \in Refs,
         call'[c].pc = "clone" => /\ call'[c].step \in 1..Whole
                                  /\ dest'.stage = call'[c].step - 1
                                  /\ dest'.stage > 0 => dest'.ref = call'[c].ref
  PROVE  SkillsInv'
<1> USE DEF SkillsInv, SkillsTypeOK
<1>2. SkillsTypeOK'
  BY DEF CallRecord
<1>3. /\ mu' = {c} /\ ~resolved'
      /\ \A d \in Callers : given'[d] = NoRef
      /\ \A d \in Callers : d # c => ~(Inside(d))' /\ mu' # {d}
  BY InsideAlone, ZenonT(60) DEF Inside
<1>4. OneInside'
  BY <1>3 DEF OneInside, Inside
<1>5. Handed' /\ CheckoutStable'
  BY <1>3 DEF Handed, CheckoutStable
<1>6. CloneStartsClean'
  BY <1>3 DEF CloneStartsClean, Inside
<1> QED
  BY <1>2, <1>4, <1>5, <1>6

\* The pointer is fetched and vetted.
LEMMA FetchPointerInv ==
  ASSUME SkillsInv, NEW c \in Callers, FetchPointer(c)
  PROVE  SkillsInv'
<1> USE DEF SkillsInv, SkillsTypeOK
<1>1. Inside(c) /\ dest' = dest
  BY DEF FetchPointer, Inside
<1>2. CASE Fail(c)
  BY <1>1, <1>2, FailInv
<1>3. CASE \E p \in Pointers : /\ Vetted(p)
                              /\ call' = [call EXCEPT ![c].pc = "clear", ![c].ref = p.ref]
                              /\ UNCHANGED <<mu, resolved, given>>
  <2>1. PICK p \in Pointers : /\ Vetted(p)
                              /\ call' = [call EXCEPT ![c].pc = "clear", ![c].ref = p.ref]
                              /\ UNCHANGED <<mu, resolved, given>>
    BY <1>3
  <2>2. p.ref \in Refs
    BY <2>1 DEF Vetted, Pointers
  <2>3. /\ call' \in [Callers -> CallRecord]
        /\ call'[c].pc = "clear" /\ call'[c].ref = p.ref
        /\ \A d \in Callers : d # c => call'[d] = call[d]
    BY <2>1, <2>2 DEF CallRecord
  <2> QED
    BY <1>1, <2>1, <2>2, <2>3, OnwardInv
<1> QED
  BY <1>2, <1>3 DEF FetchPointer

\* The directory is cleared, or left in part by a call that fails.
LEMMA ClearInv ==
  ASSUME SkillsInv, NEW c \in Callers, Clear(c)
  PROVE  SkillsInv'
<1> USE DEF SkillsInv, SkillsTypeOK
<1>1. Inside(c) /\ call[c].ref \in Refs
  BY DEF Clear, Inside, OneInside
<1>2. CASE Fail(c) /\ \E s \in Remains : dest' = [dest EXCEPT !.stage = s]
  <2>1. dest' \in [stage : 0..Whole, ref : Refs \cup {NoRef}]
    BY <1>2, WholeIs DEF Remains
  <2> QED
    BY <1>1, <1>2, <2>1, FailInv
<1>3. CASE /\ dest' = [stage |-> 0, ref |-> NoRef]
           /\ call' = [call EXCEPT ![c].pc = "clone", ![c].step = 1]
           /\ UNCHANGED <<mu, resolved, given>>
  <2>1. dest' \in [stage : 0..Whole, ref : Refs \cup {NoRef}]
    BY <1>3, WholeIs
  <2>2. 1 \in 0..Whole /\ 1 \in 1..Whole /\ dest'.stage = 1 - 1 /\ ~(dest'.stage > 0)
    BY <1>3, WholeIs
  <2>3. call' \in [Callers -> CallRecord]
    <3>1. PICK k : k = call[c]
      OBVIOUS
    <3>2. k \in CallRecord /\ call \in [Callers -> CallRecord]
      BY <3>1 DEF CallRecord
    <3>3. [k EXCEPT !.pc = "clone", !.step = 1] \in CallRecord
      BY <2>2, <3>2 DEF CallRecord
    <3>4. call' = [call EXCEPT ![c] = [k EXCEPT !.pc = "clone", !.step = 1]]
      BY <1>3, <3>1
    <3> QED BY <3>2, <3>3, <3>4
  <2>4. /\ call'[c].pc = "clone" /\ call'[c].step = 1 /\ call'[c].ref = call[c].ref
        /\ \A d \in Callers : d # c => call'[d] = call[d]
    BY <1>3
  <2> QED
    BY <1>1, <1>3, <2>1, <2>2, <2>3, <2>4, OnwardInv
<1> QED
  BY <1>2, <1>3 DEF Clear

\* A step of the clone; the last one resolves the directory.
LEMMA CloneStepInv ==
  ASSUME SkillsInv, NEW c \in Callers, CloneStep(c)
  PROVE  SkillsInv'
<1> USE DEF SkillsInv, SkillsTypeOK
<1> DEFINE s == call[c].step
           ref == call[c].ref
<1>1. Inside(c) /\ ref \in Refs /\ s \in 1..Whole
  BY DEF CloneStep, Inside, OneInside
<1>2. CASE Fail(c) /\ UNCHANGED dest
  BY <1>1, <1>2, FailInv
<1>3. CASE /\ s < Whole
           /\ dest' = [stage |-> s, ref |-> ref]
           /\ call' = [call EXCEPT ![c].step = s + 1]
           /\ UNCHANGED <<mu, resolved, given>>
  <2>1. dest' \in [stage : 0..Whole, ref : Refs \cup {NoRef}]
    BY <1>1, <1>3, WholeIs
  <2>2. /\ call' \in [Callers -> CallRecord]
        /\ call'[c].pc = "clone" /\ call'[c].step = s + 1 /\ call'[c].ref = ref
        /\ \A d \in Callers : d # c => call'[d] = call[d]
    BY <1>1, <1>3, WholeIs DEF CallRecord, CloneStep
  <2>3. s + 1 \in 1..Whole /\ dest'.stage = (s + 1) - 1 /\ dest'.ref = ref
    BY <1>1, <1>3, WholeIs
  <2> QED
    BY <1>1, <1>3, <2>1, <2>2, <2>3, OnwardInv
<1>4. CASE /\ s = Whole
           /\ dest' = [stage |-> s, ref |-> ref]
           /\ resolved' = TRUE
           /\ given' = [given EXCEPT ![c] = ref]
           /\ Return(c, "ok")
  <2>1. /\ mu' = {} /\ \A d \in Callers : mu' # {d}
        /\ dest' = [stage |-> Whole, ref |-> ref]
        /\ \A d \in Callers : given'[d] = IF d = c THEN ref ELSE NoRef
    BY <1>1, <1>4, InsideAlone DEF Return
  <2>2. /\ call'[c].pc = "ok"
        /\ \A d \in Callers : d # c => call'[d] = call[d]
    BY <1>4 DEF Return, NoCall
  <2>3. SkillsTypeOK'
    BY <1>1, <1>4, <2>1, WholeIs DEF Return, NoCall
  <2>4. \A d \in Callers : ~(Inside(d))'
    BY <1>1, <2>2, InsideAlone DEF Inside
  <2>5. OneInside'
    BY <2>1, <2>4 DEF OneInside, Inside
  <2>6. Handed'
    BY <1>1, <1>4, <2>1 DEF Handed
  <2>7. CheckoutStable'
    BY <2>1 DEF CheckoutStable
  <2>8. CloneStartsClean'
    BY <2>4 DEF CloneStartsClean, Inside
  <2> QED
    BY <2>3, <2>5, <2>6, <2>7, <2>8
<1> QED
  BY <1>2, <1>3, <1>4 DEF CloneStep

\* A restart forgets everything but the directory.
LEMMA RestartInv ==
  ASSUME SkillsInv, Restart
  PROVE  SkillsInv'
<1> USE DEF SkillsInv, SkillsTypeOK
<1>1. SkillsTypeOK'
  BY NoCallTyped DEF Restart, CallRecord
<1>2. /\ \A c \in Callers : call'[c].pc = "idle" /\ given'[c] = NoRef
      /\ mu' = {} /\ resolved' = FALSE
  BY DEF Restart, NoCall
<1>3. \A c \in Callers : mu' # {c}
  BY <1>2
<1>4. OneInside'
  BY <1>2, <1>3 DEF OneInside, Inside
<1>5. Handed' /\ CheckoutStable' /\ CloneStartsClean'
  BY <1>2 DEF Handed, CheckoutStable, CloneStartsClean
<1> QED
  BY <1>1, <1>4, <1>5

\* SkillsInv is inductive.
LEMMA SkillsNextInv == SkillsInv /\ [SkillsNext]_skillsVars => SkillsInv'
<1> SUFFICES ASSUME SkillsInv, [SkillsNext]_skillsVars PROVE SkillsInv'
  OBVIOUS
<1>1. CASE UNCHANGED skillsVars
  BY <1>1 DEF skillsVars, SkillsInv, SkillsTypeOK, OneInside, Inside, Handed,
              CheckoutStable, CloneStartsClean
<1>2. CASE \E c \in Callers : Call(c) \/ Lock(c) \/ Step(c)
  BY <1>2, CallInv, LockInv, FetchPointerInv, ClearInv, CloneStepInv DEF Step
<1>3. CASE Restart
  BY <1>3, RestartInv
<1> QED
  BY <1>1, <1>2, <1>3 DEF SkillsNext

\* Every reachable state of the resolver satisfies SkillsInv.
LEMMA SkillsInvariant == SkillsSpec => []SkillsInv
BY SkillsInitInv, SkillsNextInv, PTL DEF SkillsSpec

-----------------------------------------------------------------------------
\* The resolver's variables keep their types; in particular, no ref that begins
\* with a dash gets as far as git.
THEOREM SkillsTypeCorrect == SkillsSpec => []SkillsTypeOK
<1>1. SkillsInv => SkillsTypeOK
  BY DEF SkillsInv
<1> QED
  BY <1>1, SkillsInvariant, PTL

\* A directory that Resolve has returned stays a complete checkout of the same
\* ref while the process lives, with any number of callers, failures and answers
\* of ContextMatrix.
THEOREM SkillsCheckoutStable == SkillsSpec => []CheckoutStable
<1>1. SkillsInv => CheckoutStable
  BY DEF SkillsInv
<1> QED
  BY <1>1, SkillsInvariant, PTL

\* Every step of a clone finds what the steps before it made and nothing else,
\* whatever failed calls and killed processes have left behind.
THEOREM SkillsCloneStartsClean == SkillsSpec => []CloneStartsClean
<1>1. SkillsInv => CloneStartsClean
  BY DEF SkillsInv
<1> QED
  BY <1>1, SkillsInvariant, PTL

-----------------------------------------------------------------------------
(* Frames: the pipe *)

\* What the pipe carries, and what is recorded of a Write call.
Bytes == [frame : Nat, pos : Nat, nl : BOOLEAN]
WriteRec == [len : Lengths, type : Types, put : 0..MaxLine, result : {"ok", "refused", "failed"}]

\* What reached the pipe fits the outcome, and the limit.
WrittenOK(w) ==
  /\ w \in Seq(WriteRec)
  /\ \A n \in 1..Len(w) :
       /\ w[n].put \in 0..w[n].len + 1
       /\ w[n].result = "ok" => w[n].put = w[n].len + 1
       /\ w[n].result = "refused" => w[n].put = 0
       /\ w[n].put > 0 => w[n].len + 1 <= MaxLine

\* The bytes on pipe p are bytes that the calls in w put there ...
BytesOK(p, w) ==
  /\ p \in Seq(Bytes)
  /\ \A i \in 1..Len(p) : p[i].frame \in 1..Len(w) /\ p[i].pos \in 1..w[p[i].frame].put

\* ... a frame with one byte on the pipe has all its bytes there, side by side ...
Unsplit(p, w) ==
  \A i \in 1..Len(p) : \A x \in 1..w[p[i].frame].put :
    /\ i + (x - p[i].pos) \in 1..Len(p)
    /\ p[i + (x - p[i].pos)] = Byte(p[i].frame, x, w[p[i].frame].len)

\* ... frames follow one another in the order of the calls ...
Ordered(p) ==
  \A i, j \in 1..Len(p) : i < j =>
    \/ p[i].frame < p[j].frame
    \/ p[i].frame = p[j].frame /\ p[j].pos - p[i].pos = j - i

\* ... and behind a frame on the pipe is every later one that put a byte there.
NoGaps(p, w) ==
  \A i \in 1..Len(p) : \A n \in p[i].frame + 1 .. Len(w) :
    w[n].put > 0 => \E j \in 1..Len(p) : p[j].frame = n

Laid(p, w) == BytesOK(p, w) /\ Unsplit(p, w) /\ Ordered(p) /\ NoGaps(p, w)

\* The lengths and counts are numbers.
LEMMA RecNumbers ==
  ASSUME NEW r \in WriteRec
  PROVE  r.len \in Nat /\ r.len >= 1 /\ r.put \in Nat
<1>1. r.len \in Lengths /\ r.put \in 0..MaxLine
  BY DEF WriteRec
<1>2. Lengths \subseteq Nat \ {0}
  BY FramesAssumption
<1>3. r.len \in Nat \ {0}
  BY <1>1, <1>2
<1> QED BY <1>1, <1>3

\* The same for a recorded call.
LEMMA WrittenNumbers ==
  ASSUME NEW w, WrittenOK(w), NEW n \in 1..Len(w)
  PROVE  /\ Len(w) \in Nat /\ w[n] \in WriteRec /\ w[n].len \in Nat /\ w[n].len >= 1
         /\ w[n].put \in Nat /\ w[n].put <= w[n].len + 1
<1>1. Len(w) \in Nat /\ w[n] \in WriteRec
  BY DEF WrittenOK
<1>2. w[n].len \in Nat /\ w[n].len >= 1 /\ w[n].put \in Nat
  BY <1>1, RecNumbers
<1> QED BY <1>1, <1>2 DEF WrittenOK

\* The parts of a byte.
LEMMA ByteParts ==
  ASSUME NEW n, NEW x, NEW len
  PROVE  /\ Byte(n, x, len).frame = n /\ Byte(n, x, len).pos = x
         /\ Byte(n, x, len).nl <=> x = len + 1
BY DEF Byte

\* What is known of one byte on the pipe.
LEMMA OneByte ==
  ASSUME NEW w, WrittenOK(w), NEW p, Laid(p, w), NEW i \in 1..Len(p)
  PROVE  /\ Len(p) \in Nat /\ Len(w) \in Nat
         /\ p[i].frame \in 1..Len(w) /\ p[i].frame \in Nat /\ p[i].pos \in Nat
         /\ p[i].pos \in 1..w[p[i].frame].put
         /\ w[p[i].frame].put \in Nat /\ w[p[i].frame].len \in Nat /\ w[p[i].frame].len >= 1
         /\ w[p[i].frame].put <= w[p[i].frame].len + 1
         /\ p[i].nl <=> p[i].pos = w[p[i].frame].len + 1
<1>1. /\ Len(p) \in Nat /\ p[i] \in Bytes
      /\ p[i].frame \in 1..Len(w) /\ p[i].pos \in 1..w[p[i].frame].put
  BY DEF Laid, BytesOK
<1>2. p[i].frame \in Nat /\ p[i].pos \in Nat
  BY <1>1 DEF Bytes
<1>3. /\ Len(w) \in Nat /\ w[p[i].frame].put \in Nat /\ w[p[i].frame].len \in Nat
      /\ w[p[i].frame].len >= 1 /\ w[p[i].frame].put <= w[p[i].frame].len + 1
  BY <1>1, WrittenNumbers
<1>4. i + (p[i].pos - p[i].pos) = i
  BY <1>2
<1>5. p[i] = Byte(p[i].frame, p[i].pos, w[p[i].frame].len)
  BY <1>1, <1>4 DEF Laid, Unsplit
<1>6. p[i].nl <=> p[i].pos = w[p[i].frame].len + 1
  BY <1>5, ByteParts
<1> QED BY <1>1, <1>2, <1>3, <1>6

\* The bytes of the frame that byte i belongs to.
LEMMA WholeFrame ==
  ASSUME NEW w, WrittenOK(w), NEW p, Laid(p, w), NEW i \in 1..Len(p),
         NEW x \in 1..w[p[i].frame].put
  PROVE  /\ i + (x - p[i].pos) \in 1..Len(p)
         /\ p[i + (x - p[i].pos)] = Byte(p[i].frame, x, w[p[i].frame].len)
         /\ p[i + (x - p[i].pos)].frame = p[i].frame
         /\ p[i + (x - p[i].pos)].pos = x
BY ByteParts DEF Laid, Unsplit

\* One sequence behind another.
LEMMA ConcatAt ==
  ASSUME NEW S, NEW a \in Seq(S), NEW b \in Seq(S)
  PROVE  /\ a \o b \in Seq(S) /\ Len(a \o b) = Len(a) + Len(b) /\ Len(a) \in Nat /\ Len(b) \in Nat
         /\ \A i \in 1..Len(a) : (a \o b)[i] = a[i]
         /\ \A x \in 1..Len(b) : (a \o b)[Len(a) + x] = b[x]
OBVIOUS

\* An empty pipe.
LEMMA LaidEmpty ==
  ASSUME NEW w
  PROVE  Laid(<<>>, w)
BY DEF Laid, BytesOK, Unsplit, Ordered, NoGaps

\* Write puts the beginning of its line behind all that is on the pipe.
LEMMA LaidEmit ==
  ASSUME NEW w, WrittenOK(w), NEW p, Laid(p, w), NEW r \in WriteRec, WrittenOK(Append(w, r))
  PROVE  Laid(p \o [i \in 1..r.put |-> Byte(Len(w) + 1, i, r.len)], Append(w, r))
<1> DEFINE n == Len(w) + 1
           new == [i \in 1..r.put |-> Byte(n, i, r.len)]
           q == p \o new
           v == Append(w, r)
           L == Len(p)
<1>1. /\ Len(w) \in Nat /\ n \in Nat /\ r.put \in Nat /\ r.len \in Nat /\ p \in Seq(Bytes) /\ L \in Nat
      /\ w \in Seq(WriteRec)
  <2>1. r.put \in Nat /\ r.len \in Nat
    BY RecNumbers
  <2> QED BY <2>1 DEF WrittenOK, Laid, BytesOK
<1>2. /\ Len(v) = n /\ v[n] = r /\ \A m \in 1..Len(w) : v[m] = w[m] /\ m < n
      /\ \A m \in 1..Len(v) : m \in 1..Len(w) \/ m = n
  BY <1>1
<1>3. new \in Seq(Bytes) /\ Len(new) = r.put /\ \A x \in 1..r.put : new[x] = Byte(n, x, r.len)
  <2>1. \A x \in 1..r.put : Byte(n, x, r.len) \in Bytes
    BY <1>1 DEF Byte, Bytes
  <2>2. new \in [1..r.put -> Bytes]
    BY <2>1
  <2> HIDE DEF n
  <2> QED BY <1>1, <2>2
<1>4. /\ q \in Seq(Bytes) /\ Len(q) = L + r.put /\ \A i \in 1..L : q[i] = p[i]
      /\ \A x \in 1..r.put : q[L + x] = Byte(n, x, r.len)
  <2>1. /\ q \in Seq(Bytes) /\ Len(q) = L + r.put /\ \A i \in 1..L : q[i] = p[i]
        /\ \A x \in 1..r.put : q[L + x] = new[x]
    BY <1>1, <1>3, ConcatAt
  <2> QED BY <1>3, <2>1
<1>5. \A i \in 1..Len(q) : i \in 1..L \/ (i - L \in 1..r.put /\ i = L + (i - L))
  BY <1>1, <1>4
<1>6. \A i \in 1..L : /\ q[i] = p[i] /\ p[i].frame \in 1..Len(w) /\ p[i].pos \in 1..w[p[i].frame].put
                      /\ v[p[i].frame] = w[p[i].frame] /\ p[i].frame < n
  BY <1>2, <1>4 DEF Laid, BytesOK
<1>7. \A i \in 1..Len(q) : i \notin 1..L =>
        /\ q[i] = Byte(n, i - L, r.len) /\ q[i].frame = n /\ q[i].pos = i - L
        /\ i - L \in 1..r.put
  <2> SUFFICES ASSUME NEW i \in 1..Len(q), i \notin 1..L
               PROVE  /\ q[i] = Byte(n, i - L, r.len) /\ q[i].frame = n /\ q[i].pos = i - L
                      /\ i - L \in 1..r.put
    OBVIOUS
  <2>1. PICK x : x = i - L
    OBVIOUS
  <2> HIDE DEF q, new, n, L
  <2>2. x \in 1..r.put /\ i = L + x
    BY <1>5, <2>1
  <2>3. q[i] = Byte(n, x, r.len)
    BY <1>4, <2>2
  <2>4. q[i].frame = n /\ q[i].pos = x
    <3>1. Byte(n, x, r.len).frame = n /\ Byte(n, x, r.len).pos = x
      BY ByteParts
    <3> QED BY <2>3, <3>1
  <2> QED BY <2>1, <2>2, <2>3, <2>4
<1> HIDE DEF q, v, new, n, L
<1>8. BytesOK(q, v)
  <2> SUFFICES ASSUME NEW i \in 1..Len(q)
               PROVE  q[i].frame \in 1..Len(v) /\ q[i].pos \in 1..v[q[i].frame].put
    BY <1>4 DEF BytesOK
  <2>1. CASE i \in 1..L
    BY <1>1, <1>2, <1>6, <2>1, SMTT(60)
  <2>2. CASE i \notin 1..L
    BY <1>1, <1>2, <1>7, <2>2 DEF n
  <2> QED BY <2>1, <2>2
<1>9. Unsplit(q, v)
  <2> SUFFICES ASSUME NEW i \in 1..Len(q), NEW x \in 1..v[q[i].frame].put
               PROVE  /\ i + (x - q[i].pos) \in 1..Len(q)
                      /\ q[i + (x - q[i].pos)] = Byte(q[i].frame, x, v[q[i].frame].len)
    BY DEF Unsplit
  <2>1. CASE i \in 1..L
    <3>1. x \in 1..w[p[i].frame].put
      BY <1>6, <2>1
    <3>2. /\ i + (x - p[i].pos) \in 1..L
          /\ p[i + (x - p[i].pos)] = Byte(p[i].frame, x, w[p[i].frame].len)
      BY <2>1, <3>1 DEF Laid, Unsplit, L
    <3>3. PICK y : y = i + (x - p[i].pos)
      OBVIOUS
    <3>4. y \in 1..Len(q) /\ q[y] = Byte(p[i].frame, x, w[p[i].frame].len)
      <4>1. y \in 1..L /\ p[y] = Byte(p[i].frame, x, w[p[i].frame].len)
        BY <3>2, <3>3, Zenon
      <4> QED BY <1>1, <1>4, <4>1
    <3> QED BY <1>6, <2>1, <3>3, <3>4
  <2>2. CASE i \notin 1..L
    <3>1. q[i].frame = n /\ q[i].pos = i - L /\ i - L \in 1..r.put /\ v[n] = r
      BY <1>2, <1>7, <2>2
    <3>2. x \in 1..r.put /\ i + (x - q[i].pos) = L + x
      BY <1>1, <3>1
    <3>3. L + x \in 1..Len(q)
      BY <1>1, <1>4, <3>2
    <3> QED BY <1>4, <3>1, <3>2, <3>3
  <2> QED BY <2>1, <2>2
<1>10. Ordered(q)
  <2> SUFFICES ASSUME NEW i \in 1..Len(q), NEW j \in 1..Len(q), i < j
               PROVE  \/ q[i].frame < q[j].frame
                      \/ q[i].frame = q[j].frame /\ q[j].pos - q[i].pos = j - i
    BY DEF Ordered
  <2>1. CASE i \in 1..L /\ j \in 1..L
    BY <1>6, <2>1 DEF Laid, Ordered, L
  <2>2. CASE i \in 1..L /\ j \notin 1..L
    BY <1>6, <1>7, <2>2
  <2>3. CASE i \notin 1..L
    <3>1. j \notin 1..L
      BY <1>1, <2>3
    <3>2. q[i].frame = n /\ q[j].frame = n /\ q[i].pos = i - L /\ q[j].pos = j - L
      BY <1>7, <2>3, <3>1
    <3> QED BY <1>1, <1>4, <3>2
  <2> QED BY <2>1, <2>2, <2>3
<1>11. NoGaps(q, v)
  <2> SUFFICES ASSUME NEW i \in 1..Len(q), NEW m \in q[i].frame + 1 .. Len(v), v[m].put > 0
               PROVE  \E j \in 1..Len(q) : q[j].frame = m
    BY DEF NoGaps
  <2>0. L \in Nat /\ n \in Nat /\ Len(w) \in Nat /\ Len(v) = n
    BY <1>1, <1>2
  <2>1. CASE i \in 1..L
    <3>1. q[i] = p[i] /\ p[i].frame \in 1..Len(w)
      BY <1>6, <2>1
    <3>2. CASE m = n
      <4>1. r.put > 0 /\ 1 \in 1..r.put
        BY <1>1, <1>2, <3>2
      <4>2. L + 1 \in 1..Len(q) /\ q[L + 1].frame = n
        BY <1>1, <1>4, <4>1, ByteParts, SMTT(60)
      <4> QED BY <3>2, <4>2
    <3>3. CASE m # n
      <4>1. m \in p[i].frame + 1 .. Len(w) /\ w[m].put > 0
        <5>1. m \in p[i].frame + 1 .. Len(w)
          BY <2>0, <3>1, <3>3 DEF n
        <5>2. m \in 1..Len(w)
          BY <2>0, <3>1, <5>1
        <5> QED BY <1>2, <5>1, <5>2
      <4>2. PICK j \in 1..L : p[j].frame = m
        BY <2>1, <4>1 DEF Laid, NoGaps, L
      <4>3. j \in 1..Len(q)
        BY <1>1, <1>4
      <4> QED BY <1>6, <4>2, <4>3
    <3> QED BY <3>2, <3>3
  <2>2. CASE i \notin 1..L
    BY <1>7, <2>0, <2>2
  <2> QED BY <2>1, <2>2
<1> QED BY <1>8, <1>9, <1>10, <1>11 DEF Laid, q, v, new, n

\* The reader takes everything up to a newline, which ends its frame.
LEMMA LaidCut ==
  ASSUME NEW w, WrittenOK(w), NEW p, Laid(p, w), NEW f \in 1..Len(p), p[f].nl
  PROVE  Laid(SubSeq(p, f + 1, Len(p)), w)
<1> DEFINE s == SubSeq(p, f + 1, Len(p))
           L == Len(p)
<1>1. p \in Seq(Bytes) /\ L \in Nat /\ f \in Nat
  BY DEF Laid, BytesOK
<1>2. s \in Seq(Bytes) /\ Len(s) = L - f /\ \A i \in 1..Len(s) : s[i] = p[i + f]
  BY <1>1
<1>3. \A i : i \in 1..Len(s) => i + f \in 1..L
  BY <1>1, <1>2
<1>4. \A i : i + f \in 1..L /\ i \in Int /\ i >= 1 => i \in 1..Len(s)
  BY <1>1, <1>2
<1>4a. \A i \in 1..Len(s) : i \in Nat /\ i >= 1
  BY <1>1, <1>2
<1> HIDE DEF s, L
<1>5. BytesOK(s, w)
  BY <1>2, <1>3 DEF BytesOK, Laid, L
<1>6. Unsplit(s, w)
  <2> SUFFICES ASSUME NEW i \in 1..Len(s), NEW x \in 1..w[s[i].frame].put
               PROVE  /\ i + (x - s[i].pos) \in 1..Len(s)
                      /\ s[i + (x - s[i].pos)] = Byte(s[i].frame, x, w[s[i].frame].len)
    BY DEF Unsplit
  <2>1. PICK j, b : j = i + f /\ b = p[j]
    OBVIOUS
  <2>2. j \in 1..L /\ s[i] = b /\ x \in 1..w[b.frame].put
    BY <1>2, <1>3, <2>1
  <2>3. /\ b.frame \in 1..Len(w) /\ b.pos \in Nat /\ b.pos \in 1..w[b.frame].put
        /\ w[b.frame].put \in Nat /\ w[b.frame].len \in Nat /\ w[b.frame].put <= w[b.frame].len + 1
    BY <2>1, <2>2, OneByte DEF L
  <2>4. PICK y : y = j + (x - b.pos)
    OBVIOUS
  <2>5. y \in 1..L /\ p[y] = Byte(b.frame, x, w[b.frame].len)
    <3>1. j \in 1..Len(p) /\ x \in 1..w[p[j].frame].put
      BY <2>1, <2>2 DEF L
    <3>2. /\ j + (x - p[j].pos) \in 1..Len(p)
          /\ p[j + (x - p[j].pos)] = Byte(p[j].frame, x, w[p[j].frame].len)
      BY <3>1, WholeFrame
    <3> QED BY <2>1, <2>4, <3>2 DEF L
  <2>6. y > f
    <3> SUFFICES ASSUME y <= f PROVE FALSE
      BY <1>1, <2>5
    <3>1. PICK z : z = b.pos + (f - j)
      OBVIOUS
    <3>2. z \in 1..w[b.frame].put /\ z < b.pos /\ j + (z - b.pos) = f
      <4>1. PICK o, c : o = b.pos /\ c = w[b.frame].put
        OBVIOUS
      <4>2. /\ o \in Nat /\ c \in Nat /\ o \in 1..c /\ x \in 1..c /\ z = o + (f - j)
            /\ y = j + (x - o) /\ f \in Nat /\ i \in Nat /\ i >= 1 /\ j = i + f /\ y <= f
        BY <1>1, <1>4a, <2>1, <2>2, <2>3, <2>4, <3>1, <4>1
      <4>3. z \in 1..c /\ z < o /\ j + (z - o) = f
        BY ONLY <4>2
      <4> QED BY <4>1, <4>3
    <3>3. p[f] = Byte(b.frame, z, w[b.frame].len)
      BY <2>1, <2>2, <3>2, WholeFrame DEF L
    <3>4. z = w[b.frame].len + 1
      BY <3>3, ByteParts
    <3>5. PICK o, c, l : o = b.pos /\ c = w[b.frame].put /\ l = w[b.frame].len
      OBVIOUS
    <3>6. o \in Nat /\ c \in Nat /\ l \in Nat /\ o \in 1..c /\ c <= l + 1 /\ z < o /\ z = l + 1
      BY <2>3, <3>2, <3>4, <3>5
    <3> QED BY ONLY <3>6
  <2>7. i + (x - s[i].pos) = y - f /\ y - f \in Int /\ y - f >= 1 /\ (y - f) + f = y
    <3>1. PICK o : o = b.pos
      OBVIOUS
    <3>2. /\ o \in Nat /\ x \in Int /\ i \in Nat /\ f \in Nat /\ j = i + f /\ y = j + (x - o)
          /\ y \in Int /\ y > f
      BY <1>1, <1>4a, <2>1, <2>2, <2>3, <2>4, <2>5, <2>6, <3>1
    <3>3. i + (x - o) = y - f /\ y - f \in Int /\ y - f >= 1 /\ (y - f) + f = y
      BY ONLY <3>2
    <3> QED BY <2>2, <3>1, <3>3
  <2>8. y - f \in 1..Len(s)
    BY <1>4, <2>5, <2>7
  <2>9. s[y - f] = p[y]
    BY <1>2, <2>7, <2>8
  <2> QED BY <2>2, <2>5, <2>7, <2>8, <2>9
<1>7. Ordered(s)
  <2> SUFFICES ASSUME NEW i \in 1..Len(s), NEW j \in 1..Len(s), i < j
               PROVE  \/ s[i].frame < s[j].frame
                      \/ s[i].frame = s[j].frame /\ s[j].pos - s[i].pos = j - i
    BY DEF Ordered
  <2>1. s[i] = p[i + f] /\ s[j] = p[j + f] /\ i + f \in 1..L /\ j + f \in 1..L
    BY <1>2, <1>3
  <2>2. i + f < j + f /\ (j + f) - (i + f) = j - i
    BY <1>1
  <2>3. PICK a, c : a = i + f /\ c = j + f
    OBVIOUS
  <2>4. a \in 1..L /\ c \in 1..L /\ a < c /\ c - a = j - i /\ s[i] = p[a] /\ s[j] = p[c]
    BY <2>1, <2>2, <2>3
  <2>5. p[a].frame < p[c].frame \/ (p[a].frame = p[c].frame /\ p[c].pos - p[a].pos = c - a)
    BY <2>4 DEF Laid, Ordered, L
  <2> QED BY <2>4, <2>5
<1>8. NoGaps(s, w)
  <2> SUFFICES ASSUME NEW i \in 1..Len(s), NEW n \in s[i].frame + 1 .. Len(w), w[n].put > 0
               PROVE  \E j \in 1..Len(s) : s[j].frame = n
    BY DEF NoGaps
  <2>1. s[i] = p[i + f] /\ i + f \in 1..L
    BY <1>2, <1>3
  <2>2. PICK j \in 1..L : p[j].frame = n
    BY <2>1 DEF Laid, NoGaps, L
  <2>3. p[j].frame > p[i + f].frame /\ p[j].frame \in Nat /\ p[i + f].frame \in Nat
    BY <2>1, <2>2, OneByte DEF L
  <2>4. ~(j < i + f) /\ j # i + f
    <3>1. PICK a : a = i + f
      OBVIOUS
    <3>2. a \in 1..L /\ p[j].frame > p[a].frame /\ p[j].frame \in Nat /\ p[a].frame \in Nat
      BY <2>1, <2>3, <3>1
    <3>3. j < a => p[j].frame < p[a].frame \/ p[j].frame = p[a].frame
      BY <3>2 DEF Laid, Ordered, L
    <3> QED BY <3>1, <3>2, <3>3
  <2>5. (j - f) + f = j /\ j - f \in Int /\ j - f >= 1
    BY <1>1, <1>4a, <2>4
  <2>6. j - f \in 1..Len(s)
    BY <1>4, <2>5
  <2>7. s[j - f] = p[j]
    BY <1>2, <2>5, <2>6
  <2> QED BY <2>2, <2>6, <2>7
<1> QED BY <1>5, <1>6, <1>7, <1>8 DEF Laid, s

\* Frame n directly follows a cut one, among the calls w.
FollowsCut(w, n) ==
  \E m \in 1..n - 1 : w[m].put \in 1..w[m].len /\ \A k \in m + 1 .. n - 1 : w[k].put = 0

\* A frame that begins behind a byte other than a newline follows a cut one.
LEMMA BehindStart ==
  ASSUME NEW w, WrittenOK(w), NEW p, Laid(p, w), NEW s \in 2..Len(p),
         p[s].pos = 1, ~p[s - 1].nl
  PROVE  FollowsCut(w, p[s].frame)
<1>1. PICK m, n, t : m = p[s - 1].frame /\ n = p[s].frame /\ t = s - 1
  OBVIOUS
<1>2. t \in 1..Len(p) /\ s \in 1..Len(p) /\ t < s /\ t + 1 = s /\ s \in Nat /\ t \in Nat
  <2>1. Len(p) \in Nat
    BY DEF Laid, BytesOK
  <2> QED BY <1>1, <2>1
<1>3. /\ m \in 1..Len(w) /\ m \in Nat /\ p[t].pos \in Nat /\ p[t].pos \in 1..w[m].put
      /\ w[m].put \in Nat /\ w[m].len \in Nat /\ w[m].put <= w[m].len + 1
      /\ p[t].pos # w[m].len + 1 /\ Len(w) \in Nat
  BY <1>1, <1>2, OneByte
<1>4. n \in 1..Len(w) /\ n \in Nat
  BY <1>1, <1>2, OneByte
<1>5. m < n
  <2>1. m < n \/ (m = n /\ p[s].pos - p[t].pos = s - t)
    BY <1>1, <1>2 DEF Laid, Ordered
  <2> QED BY <1>2, <1>3, <2>1
<1>6. p[t].pos = w[m].put
  <2> SUFFICES ASSUME p[t].pos # w[m].put PROVE FALSE
    OBVIOUS
  <2>1. PICK x : x = p[t].pos + 1
    OBVIOUS
  <2>2. x \in 1..w[m].put /\ t + (x - p[t].pos) = s
    BY <1>2, <1>3, <2>1, SMTT(60)
  <2>3. p[s].frame = m
    BY <1>1, <1>2, <2>2, WholeFrame
  <2> QED BY <1>1, <1>4, <1>5, <2>3
<1>7. w[m].put \in 1..w[m].len
  BY <1>3, <1>6
<1>8. ASSUME NEW k \in m + 1 .. n - 1, w[k].put # 0 PROVE FALSE
  <2>1. k \in 1..Len(w) /\ k \in m + 1 .. Len(w) /\ k \in Nat
    BY <1>3, <1>4
  <2>2. w[k].put > 0
    BY <1>8, <2>1, WrittenNumbers
  <2>3. PICK j \in 1..Len(p) : p[j].frame = k
    BY <1>1, <1>2, <2>1, <2>2 DEF Laid, NoGaps
  <2>4. j \in Nat /\ m < k /\ k < n
    BY <1>3, <1>4
  <2>5. ~(j < t) /\ j # t
    <3>1. j < t => p[j].frame < p[t].frame \/ p[j].frame = p[t].frame
      BY <1>2 DEF Laid, Ordered
    <3>2. p[t].frame = m /\ m \in Nat /\ k \in Nat /\ m < k
      BY <1>1, <1>3, <2>1, <2>4
    <3> QED BY <2>3, <3>1, <3>2
  <2>6. ~(s < j) /\ j # s
    <3>1. s < j => p[s].frame < p[j].frame \/ p[s].frame = p[j].frame
      BY <1>2 DEF Laid, Ordered
    <3>2. p[s].frame = n /\ n \in Nat /\ k \in Nat /\ k < n
      BY <1>1, <1>4, <2>1, <2>4
    <3> QED BY <2>3, <3>1, <3>2
  <2> QED BY <1>2, <2>4, <2>5, <2>6
<1>9. m \in 1..n - 1
  BY <1>3, <1>4, <1>5
<1> QED BY <1>1, <1>7, <1>8, <1>9 DEF FollowsCut

\* The first byte of the frame of byte i: at the head of the pipe, behind a
\* newline, or behind a cut frame.
LEMMA StartOf ==
  ASSUME NEW w, WrittenOK(w), NEW p, Laid(p, w), NEW i \in 1..Len(p),
         \A j \in 1..i - 1 : ~p[j].nl
  PROVE  p[i].pos = i \/ FollowsCut(w, p[i].frame)
<1>1. PICK s : s = i + (1 - p[i].pos)
  OBVIOUS
<1>2. /\ Len(p) \in Nat /\ p[i].pos \in Nat /\ p[i].pos >= 1 /\ 1 \in 1..w[p[i].frame].put
  BY OneByte
<1>3. s \in 1..Len(p) /\ p[s].frame = p[i].frame /\ p[s].pos = 1
  BY <1>1, <1>2, WholeFrame
<1>4. CASE s = 1
  BY <1>1, <1>2, <1>4
<1>5. CASE s # 1
  <2>1. s \in 2..Len(p) /\ s - 1 \in 1..i - 1
    BY <1>1, <1>2, <1>3, <1>5
  <2> QED BY <1>3, <2>1, BehindStart
<1> QED BY <1>4, <1>5

-----------------------------------------------------------------------------
(* Frames: the line that is scanned *)

\* A set of numbers has a least one.
LEMMA LeastOf ==
  ASSUME NEW T, T \subseteq Nat, T # {}
  PROVE  \E x \in T : \A y \in T : x <= y
<1>1. PICK x \in T : \A y \in T : ~(<<y, x>> \in OpToRel(<, Nat))
  BY NatLessThanWellFounded, WFMin
<1>2. \A y \in T : ~(y < x)
  BY <1>1 DEF OpToRel
<1> QED BY <1>2

\* The scanner stops at the first newline.
First(p, f) == f \in 1..Len(p) /\ p[f].nl /\ \A j \in 1..f - 1 : ~p[j].nl

\* What FirstNewline is.
LEMMA FirstIs ==
  ASSUME Len(pipe) \in Nat, Newlines # {}
  PROVE  First(pipe, FirstNewline)
<1>1. Newlines \subseteq Nat
  BY DEF Newlines
<1>2. \E i \in Newlines : \A j \in Newlines : i <= j
  BY <1>1, LeastOf
<1>3. FirstNewline \in Newlines /\ \A j \in Newlines : FirstNewline <= j
  BY <1>2 DEF FirstNewline
<1>4. PICK f : f = FirstNewline
  OBVIOUS
<1>5. f \in 1..Len(pipe) /\ pipe[f].nl
  BY <1>3, <1>4 DEF Newlines
<1>6. ASSUME NEW j \in 1..f - 1 PROVE ~pipe[j].nl
  <2>1. j \in 1..Len(pipe) /\ ~(f <= j)
    BY <1>5
  <2>2. j \notin Newlines
    BY <1>3, <1>4, <2>1
  <2> QED BY <2>1, <2>2 DEF Newlines
<1> QED BY <1>4, <1>5, <1>6 DEF First

\* The line is the encoding of frame n.
Encodes(line, w, n) ==
  n \in 1..Len(w) /\ line = [i \in 1..w[n].len |-> Byte(n, i, w[n].len)]

\* The bytes of such a line.
LEMMA EncodedBytes ==
  ASSUME NEW w, WrittenOK(w), NEW line, NEW n, Encodes(line, w, n)
  PROVE  /\ Len(line) = w[n].len
         /\ \A i \in 1..w[n].len : line[i].frame = n /\ line[i].pos = i
<1>1. w[n].len \in Nat
  BY WrittenNumbers DEF Encodes
<1>2. PICK l : l = w[n].len
  OBVIOUS
<1>3. l \in Nat /\ line = [i \in 1..l |-> Byte(n, i, l)]
  BY <1>1, <1>2 DEF Encodes
<1>4. Len(line) = l
  BY <1>3
<1>5. ASSUME NEW i \in 1..l PROVE line[i].frame = n /\ line[i].pos = i
  <2>1. line[i] = Byte(n, i, l)
    BY <1>3
  <2> QED BY <2>1, ByteParts
<1> QED BY <1>2, <1>4, <1>5

\* Everything behind a newline is of later frames.
LEMMA BehindNewline ==
  ASSUME NEW w, WrittenOK(w), NEW p, Laid(p, w), NEW f \in 1..Len(p), p[f].nl,
         NEW j \in 1..Len(p), f < j
  PROVE  p[f].frame < p[j].frame
<1>1. p[f].frame < p[j].frame \/ (p[f].frame = p[j].frame /\ p[j].pos - p[f].pos = j - f)
  BY DEF Laid, Ordered
<1>2. PICK a, b, c, l : /\ a = p[f].pos /\ b = p[j].pos
                        /\ c = w[p[j].frame].put /\ l = w[p[j].frame].len
  OBVIOUS
<1>3. b \in Nat /\ b \in 1..c /\ c \in Nat /\ l \in Nat /\ c <= l + 1 /\ Len(p) \in Nat
  BY <1>2, OneByte
<1>4. a \in Nat /\ a = w[p[f].frame].len + 1
  BY <1>2, OneByte
<1>5. CASE p[f].frame = p[j].frame /\ p[j].pos - p[f].pos = j - f
  <2>1. a = l + 1 /\ b - a = j - f
    BY <1>2, <1>4, <1>5
  <2> QED BY <1>3, <1>4, <2>1
<1> QED BY <1>1, <1>5

\* A line that parses as frame n is frame n, whole and with its newline: what is
\* before the newline of another frame is that frame's own last byte.
LEMMA LineIs ==
  ASSUME NEW w, WrittenOK(w), NEW p, Laid(p, w), NEW f, First(p, f),
         NEW n, Encodes(SubSeq(p, 1, f - 1), w, n)
  PROVE  n = p[f].frame /\ w[n].put = w[n].len + 1
<1>1. f \in 1..Len(p) /\ p[f].nl /\ Len(p) \in Nat /\ p \in Seq(Bytes)
  BY DEF First, Laid, BytesOK
<1>2. n \in 1..Len(w) /\ w[n].len \in Nat /\ w[n].len >= 1 /\ w[n].put \in Nat /\ w[n].put <= w[n].len + 1
  BY WrittenNumbers DEF Encodes
<1>3. PICK line : line = SubSeq(p, 1, f - 1)
  OBVIOUS
<1>4. Len(line) = f - 1 /\ \A i \in 1..f - 1 : line[i] = p[i]
  BY <1>1, <1>3
<1>5. Len(line) = w[n].len /\ \A i \in 1..w[n].len : line[i].frame = n
  <2>1. Encodes(line, w, n)
    BY <1>3
  <2> QED BY <2>1, EncodedBytes
<1>6. PICK t, l : t = f - 1 /\ l = w[n].len
  OBVIOUS
<1>7. t = l /\ t \in 1..f - 1 /\ p[t].frame = n /\ t \in Nat /\ t + 1 = f
  BY <1>1, <1>2, <1>4, <1>5, <1>6, SMTT(60)
<1>8. PICK m, o : m = p[f].frame /\ o = p[f].pos
  OBVIOUS
<1>9. o = w[m].len + 1 /\ o \in Nat /\ w[m].len \in Nat /\ w[m].len >= 1 /\ o \in 1..w[m].put /\ w[m].put \in Nat
  BY <1>1, <1>8, OneByte
<1>10. PICK x : x = w[m].len
  OBVIOUS
<1>11. x \in 1..w[m].put /\ f + (x - o) = t
  BY <1>1, <1>7, <1>9, <1>10
<1>12. p[t].frame = m
  BY <1>1, <1>8, <1>11, WholeFrame
<1> QED BY <1>2, <1>7, <1>8, <1>9, <1>12

\* A frame at the head of the pipe that ends at the first newline is the line.
LEMMA LineOf ==
  ASSUME NEW w, WrittenOK(w), NEW p, Laid(p, w), NEW f, First(p, f), p[f].pos = f
  PROVE  Encodes(SubSeq(p, 1, f - 1), w, p[f].frame)
<1>1. f \in 1..Len(p) /\ p[f].nl /\ Len(p) \in Nat /\ p \in Seq(Bytes)
  BY DEF First, Laid, BytesOK
<1>2. PICK n, l, c : n = p[f].frame /\ l = w[n].len /\ c = w[n].put
  OBVIOUS
<1>3. n \in 1..Len(w) /\ f = l + 1 /\ l \in Nat /\ f \in 1..c /\ c \in Nat
  BY <1>1, <1>2, OneByte
<1>4. ASSUME NEW i \in 1..l PROVE p[i] = Byte(n, i, l)
  <2>1. i \in 1..w[p[f].frame].put /\ f + (i - p[f].pos) = i
    <3>1. i \in 1..c /\ f + (i - f) = i
      BY <1>3
    <3> QED BY <1>2, <3>1
  <2>2. p[f + (i - p[f].pos)] = Byte(p[f].frame, i, w[p[f].frame].len)
    BY <1>1, <2>1, WholeFrame, SMTT(60)
  <2> QED BY <1>2, <2>1, <2>2
<1>5. PICK line : line = SubSeq(p, 1, f - 1)
  OBVIOUS
<1>6. line \in Seq(Bytes) /\ Len(line) = l /\ \A i \in 1..l : line[i] = p[i]
  BY <1>1, <1>3, <1>5
<1>7. line = [i \in 1..l |-> Byte(n, i, l)]
  BY <1>3, <1>4, <1>6
<1> QED BY <1>2, <1>3, <1>5, <1>7 DEF Encodes

\* The last bytes of a frame whose Write succeeded leave with its own newline.
LEMMA LeavesWhole ==
  ASSUME NEW w, WrittenOK(w), NEW p, Laid(p, w), NEW f, First(p, f),
         NEW i \in 1..Len(p), w[p[i].frame].put = w[p[i].frame].len + 1,
         \A j \in 1..Len(p) : j > f => p[j].frame # p[i].frame
  PROVE  p[f].frame = p[i].frame
<1>1. f \in 1..Len(p) /\ p[f].nl /\ Len(p) \in Nat /\ \A j \in 1..f - 1 : ~p[j].nl
  BY DEF First, Laid, BytesOK
<1>2. PICK x, y : x = w[p[i].frame].put /\ y = i + (x - p[i].pos)
  OBVIOUS
<1>3. x \in 1..w[p[i].frame].put
  BY <1>2, OneByte
<1>4. y \in 1..Len(p) /\ p[y].frame = p[i].frame /\ p[y].pos = x
  BY <1>2, <1>3, WholeFrame
<1>5. p[y].nl
  <2>1. p[y].nl <=> p[y].pos = w[p[y].frame].len + 1
    BY <1>4, OneByte
  <2>2. w[p[y].frame].len = w[p[i].frame].len
    BY <1>4
  <2> QED BY <1>2, <1>4, <2>1, <2>2
<1>6. ~(y > f) /\ y \notin 1..f - 1
  BY <1>1, <1>4, <1>5
<1>7. y = f
  BY <1>1, <1>4, <1>6
<1> QED BY <1>4, <1>7

-----------------------------------------------------------------------------
(* Frames: the state, and Write *)

\* What Next has returned, of the calls w: ReceivedInOrder without the types.
Received(g, w, rd) ==
  /\ \A i, j \in 1..Len(g) : i < j => g[i] < g[j]
  /\ \A i \in 1..Len(g) : w[g[i]].type \in Accepted /\ w[g[i]].result # "refused"
  /\ \A i \in 1..Len(g) : w[g[i]].put \in 1..w[g[i]].len =>
       i = Len(g) /\ rd \in {"eof", "failed"} /\ w[g[i]].put = w[g[i]].len

\* LossConfined, of pipe p, calls w and frames g returned.
Confined(p, w, g) ==
  \A n \in 1..Len(w) :
    w[n].result = "ok" /\ w[n].type \in Accepted /\ (\A i \in 1..Len(p) : p[i].frame # n)
    => (\E i \in 1..Len(g) : g[i] = n) \/ FollowsCut(w, n)

\* OversizedNeverFatal: the byte that filled the scanner's buffer is still there.
Stopped(p, w, rd) ==
  rd = "tooLong" =>
    /\ MaxLine \in 1..Len(p)
    /\ w[p[MaxLine].frame].put \in 1..w[p[MaxLine].frame].len \/ FollowsCut(w, p[MaxLine].frame)

\* What was returned is of calls before all that is on the pipe.
Ahead(g, p) == \A i \in 1..Len(g) : \A j \in 1..Len(p) : g[i] < p[j].frame

\* All of it.
FramesState(p, w, g, rd) ==
  /\ WrittenOK(w) /\ Laid(p, w)
  /\ g \in Seq(1..Len(w)) /\ rd \in {"open", "eof", "tooLong", "failed"}
  /\ rd # "failed" => Ahead(g, p)
  /\ Received(g, w, rd) /\ Confined(p, w, g) /\ Stopped(p, w, rd)

\* A later call changes neither an earlier record nor what follows a cut frame.
LEMMA EarlierKept ==
  ASSUME NEW w, WrittenOK(w), NEW r \in WriteRec, NEW n \in 1..Len(w)
  PROVE  /\ Append(w, r)[n] = w[n]
         /\ FollowsCut(Append(w, r), n) <=> FollowsCut(w, n)
<1>1. Len(w) \in Nat /\ w \in Seq(WriteRec) /\ n \in Nat
  BY DEF WrittenOK
<1>2. PICK v : v = Append(w, r)
  OBVIOUS
<1>3. \A k \in 1..Len(w) : v[k] = w[k]
  BY <1>1, <1>2
<1>4. \A m \in 1..n - 1 : m \in 1..Len(w) /\ \A k \in m + 1 .. n - 1 : k \in 1..Len(w)
  BY <1>1
<1>5. ASSUME NEW m \in 1..n - 1
      PROVE  (v[m].put \in 1..v[m].len /\ \A k \in m + 1 .. n - 1 : v[k].put = 0)
              <=> (w[m].put \in 1..w[m].len /\ \A k \in m + 1 .. n - 1 : w[k].put = 0)
  <2>1. v[m] = w[m]
    BY <1>3, <1>4
  <2>2. \A k \in m + 1 .. n - 1 : v[k] = w[k]
    BY <1>3, <1>4
  <2> QED BY <2>1, <2>2
<1>6. FollowsCut(v, n) <=> FollowsCut(w, n)
  BY <1>5 DEF FollowsCut
<1> QED BY <1>2, <1>3, <1>6

\* Write.
LEMMA StateEmit ==
  ASSUME NEW p, NEW w, NEW g, NEW rd, FramesState(p, w, g, rd), NEW r \in WriteRec,
         r.put \in 0..r.len + 1, r.result = "ok" => r.put = r.len + 1,
         r.result = "refused" => r.put = 0, r.put > 0 => r.len + 1 <= MaxLine
  PROVE  FramesState(p \o [i \in 1..r.put |-> Byte(Len(w) + 1, i, r.len)], Append(w, r), g, rd)
<1>1. PICK n, new, q, v : /\ n = Len(w) + 1 /\ new = [i \in 1..r.put |-> Byte(n, i, r.len)]
                          /\ q = p \o new /\ v = Append(w, r)
  OBVIOUS
<1>2. /\ WrittenOK(w) /\ Laid(p, w) /\ w \in Seq(WriteRec) /\ Len(w) \in Nat /\ n \in Nat
      /\ r.put \in Nat /\ r.len \in Nat /\ r.len >= 1
      /\ g \in Seq(1..Len(w)) /\ Len(g) \in Nat /\ p \in Seq(Bytes) /\ Len(p) \in Nat
  BY <1>1, RecNumbers DEF FramesState, WrittenOK, Laid, BytesOK
<1>3. v \in Seq(WriteRec) /\ Len(v) = n /\ v[n] = r /\ \A m \in 1..Len(v) : m \in 1..Len(w) \/ m = n
  BY <1>1, <1>2
<1>4. \A m \in 1..Len(w) : /\ v[m] = w[m] /\ m < n /\ m \in 1..Len(v) /\ m \in Nat
                           /\ FollowsCut(v, m) <=> FollowsCut(w, m)
  BY <1>1, <1>2, <1>3, EarlierKept
<1>5. WrittenOK(v)
  <2> SUFFICES ASSUME NEW m \in 1..Len(v)
               PROVE  /\ v[m].put \in 0..v[m].len + 1
                      /\ v[m].result = "ok" => v[m].put = v[m].len + 1
                      /\ v[m].result = "refused" => v[m].put = 0
                      /\ v[m].put > 0 => v[m].len + 1 <= MaxLine
    BY <1>3 DEF WrittenOK
  <2>1. CASE m \in 1..Len(w)
    BY <1>2, <1>4, <2>1 DEF WrittenOK
  <2>2. CASE m = n
    BY <1>3, <2>2
  <2> QED BY <1>3, <2>1, <2>2
<1>6. Laid(q, v)
  BY <1>1, <1>2, <1>5, LaidEmit
<1>7. /\ q \in Seq(Bytes) /\ Len(q) = Len(p) + r.put
      /\ \A i \in 1..Len(p) : q[i] = p[i] /\ i \in 1..Len(q) /\ p[i].frame \in 1..Len(w)
      /\ \A i \in 1..Len(q) : i \notin 1..Len(p) => q[i].frame = n
  <2>1. new \in Seq(Bytes) /\ Len(new) = r.put /\ \A x \in 1..r.put : new[x].frame = n
    <3>1. \A x \in 1..r.put : Byte(n, x, r.len) \in Bytes /\ Byte(n, x, r.len).frame = n
      BY <1>2 DEF Byte, Bytes
    <3>2. new \in [1..r.put -> Bytes] /\ \A x \in 1..r.put : new[x].frame = n
      BY <1>1, <3>1
    <3>3. PICK c : c = r.put
      OBVIOUS
    <3>4. c \in Nat /\ new \in [1..c -> Bytes]
      BY <1>2, <3>2, <3>3
    <3>5. new \in Seq(Bytes) /\ Len(new) = c
      BY ONLY <3>4
    <3> QED BY <3>2, <3>3, <3>5
  <2>2. /\ q \in Seq(Bytes) /\ Len(q) = Len(p) + r.put /\ \A i \in 1..Len(p) : q[i] = p[i]
        /\ \A x \in 1..r.put : q[Len(p) + x] = new[x]
    BY <1>1, <1>2, <2>1, ConcatAt
  <2>3. ASSUME NEW i \in 1..Len(q), i \notin 1..Len(p) PROVE q[i].frame = n
    <3>1. PICK x : x = i - Len(p)
      OBVIOUS
    <3>2. x \in 1..r.put /\ i = Len(p) + x
      BY <1>2, <2>2, <2>3, <3>1
    <3> QED BY <2>1, <2>2, <3>2
  <2>4. \A i \in 1..Len(p) : i \in 1..Len(q) /\ p[i].frame \in 1..Len(w)
    BY <1>2, <2>2 DEF Laid, BytesOK
  <2> QED BY <2>2, <2>3, <2>4
<1>8. g \in Seq(1..Len(v)) /\ \A i \in 1..Len(g) : g[i] \in 1..Len(w)
  <2>1. PICK S, T : S = 1..Len(w) /\ T = 1..Len(v)
    OBVIOUS
  <2>2. S \subseteq T /\ g \in Seq(S)
    BY <1>2, <1>4, <2>1
  <2>3. g \in Seq(T) /\ \A i \in 1..Len(g) : g[i] \in S
    BY <2>2
  <2> QED BY <2>1, <2>3
<1>9. rd # "failed" => Ahead(g, q)
  <2> SUFFICES ASSUME rd # "failed", NEW i \in 1..Len(g), NEW j \in 1..Len(q)
               PROVE  g[i] < q[j].frame
    BY DEF Ahead
  <2>1. CASE j \in 1..Len(p)
    BY <1>7, <2>1 DEF FramesState, Ahead
  <2>2. CASE j \notin 1..Len(p)
    BY <1>4, <1>7, <1>8, <2>2
  <2> QED BY <2>1, <2>2
<1>10. Received(g, v, rd)
  <2>1. \A i \in 1..Len(g) : v[g[i]] = w[g[i]]
    BY <1>4, <1>8
  <2> QED BY <2>1 DEF FramesState, Received
<1>11. Confined(q, v, g)
  <2> SUFFICES ASSUME NEW m \in 1..Len(v), v[m].result = "ok", v[m].type \in Accepted,
                      \A i \in 1..Len(q) : q[i].frame # m
               PROVE  (\E i \in 1..Len(g) : g[i] = m) \/ FollowsCut(v, m)
    BY DEF Confined
  <2>1. CASE m \in 1..Len(w)
    <3>1. \A i \in 1..Len(p) : p[i].frame # m
      BY <1>7
    <3> QED BY <1>4, <2>1, <3>1 DEF FramesState, Confined
  <2>2. CASE m = n
    <3>1. PICK y : y = Len(p) + 1
      OBVIOUS
    <3>2. y \in 1..Len(q) /\ y \notin 1..Len(p)
      BY <1>2, <1>3, <1>7, <2>2, <3>1
    <3> QED BY <1>7, <2>2, <3>2
  <2> QED BY <1>3, <2>1, <2>2
<1>12. Stopped(q, v, rd)
  <2> SUFFICES ASSUME rd = "tooLong"
               PROVE  /\ MaxLine \in 1..Len(q)
                      /\ v[q[MaxLine].frame].put \in 1..v[q[MaxLine].frame].len \/ FollowsCut(v, q[MaxLine].frame)
    BY DEF Stopped
  <2>1. /\ MaxLine \in 1..Len(p)
        /\ w[p[MaxLine].frame].put \in 1..w[p[MaxLine].frame].len \/ FollowsCut(w, p[MaxLine].frame)
    BY DEF FramesState, Stopped
  <2>2. q[MaxLine] = p[MaxLine] /\ MaxLine \in 1..Len(q) /\ p[MaxLine].frame \in 1..Len(w)
    BY <1>7, <2>1
  <2> QED BY <1>4, <2>1, <2>2
<1>13. FramesState(q, v, g, rd)
  BY <1>5, <1>6, <1>8, <1>9, <1>10, <1>11, <1>12 DEF FramesState
<1> QED BY <1>1, <1>13

-----------------------------------------------------------------------------
(* Frames: Next *)

\* One more frame is returned.
LEMMA ReceivedAppend ==
  ASSUME NEW w, NEW g \in Seq(1..Len(w)), Received(g, w, "open"),
         NEW n \in 1..Len(w), \A i \in 1..Len(g) : g[i] < n, NEW rd,
         w[n].type \in Accepted, w[n].result # "refused",
         w[n].put \in 1..w[n].len => rd \in {"eof", "failed"} /\ w[n].put = w[n].len
  PROVE  Append(g, n) \in Seq(1..Len(w)) /\ Received(Append(g, n), w, rd)
<1>1. PICK S, h : S = 1..Len(w) /\ h = Append(g, n)
  OBVIOUS
<1>2. g \in Seq(S) /\ n \in S
  BY <1>1
<1>3. /\ h \in Seq(S) /\ Len(h) = Len(g) + 1 /\ Len(g) \in Nat /\ h[Len(h)] = n
      /\ \A i \in 1..Len(g) : h[i] = g[i]
      /\ \A i \in 1..Len(h) : i \in 1..Len(g) \/ i = Len(h)
  BY <1>1, <1>2
<1>4. \A i \in 1..Len(g) : ~(w[g[i]].put \in 1..w[g[i]].len)
  BY DEF Received
<1>5. \A i, j \in 1..Len(h) : i < j => h[i] < h[j]
  <2> SUFFICES ASSUME NEW i \in 1..Len(h), NEW j \in 1..Len(h), i < j PROVE h[i] < h[j]
    OBVIOUS
  <2>1. i \in 1..Len(g)
    BY <1>3
  <2>2. CASE j \in 1..Len(g)
    BY <1>3, <2>1, <2>2 DEF Received
  <2>3. CASE j = Len(h)
    BY <1>3, <2>1, <2>3
  <2> QED BY <1>3, <2>2, <2>3
<1>6. \A i \in 1..Len(h) : w[h[i]].type \in Accepted /\ w[h[i]].result # "refused"
  BY <1>3 DEF Received
<1>7. ASSUME NEW i \in 1..Len(h), w[h[i]].put \in 1..w[h[i]].len
      PROVE  i = Len(h) /\ rd \in {"eof", "failed"} /\ w[h[i]].put = w[h[i]].len
  <2>1. i = Len(h)
    BY <1>3, <1>4, <1>7
  <2> QED BY <1>3, <1>7, <2>1
<1>8. Received(h, w, rd)
  BY <1>5, <1>6, <1>7 DEF Received
<1> QED BY <1>1, <1>3, <1>8

\* Nothing more is returned: no frame returned so far was cut.
LEMMA ReceivedSame ==
  ASSUME NEW w, NEW g, Received(g, w, "open"), NEW rd
  PROVE  Received(g, w, rd)
BY DEF Received

\* What was returned stays returned.
LEMMA StillReturned ==
  ASSUME NEW S, NEW g \in Seq(S), NEW n \in S
  PROVE  /\ \A m : (\E i \in 1..Len(g) : g[i] = m) => \E i \in 1..Len(Append(g, n)) : Append(g, n)[i] = m
         /\ \E i \in 1..Len(Append(g, n)) : Append(g, n)[i] = n
<1>1. PICK h : h = Append(g, n)
  OBVIOUS
<1>2. /\ Len(h) = Len(g) + 1 /\ Len(g) \in Nat /\ h[Len(h)] = n /\ Len(h) \in 1..Len(h)
      /\ \A i \in 1..Len(g) : h[i] = g[i] /\ i \in 1..Len(h)
  BY <1>1
<1> QED BY <1>1, <1>2

\* Next scans a line.
LEMMA StateLine ==
  ASSUME NEW p, NEW w, NEW g, FramesState(p, w, g, "open"), NEW f, First(p, f), NEW h,
         \/ /\ h = g
            /\ \A n : Encodes(SubSeq(p, 1, f - 1), w, n) => w[n].type \notin Accepted
         \/ \E n : /\ Encodes(SubSeq(p, 1, f - 1), w, n) /\ w[n].type \in Accepted
                   /\ h = Append(g, n)
  PROVE  FramesState(SubSeq(p, f + 1, Len(p)), w, h, "open")
<1>1. PICK q, line, u : q = SubSeq(p, f + 1, Len(p)) /\ line = SubSeq(p, 1, f - 1) /\ u = p[f].frame
  OBVIOUS
<1>2. /\ WrittenOK(w) /\ Laid(p, w) /\ g \in Seq(1..Len(w)) /\ Received(g, w, "open")
      /\ Ahead(g, p) /\ Confined(p, w, g)
  BY DEF FramesState
<1>3. /\ f \in 1..Len(p) /\ p[f].nl /\ p \in Seq(Bytes) /\ Len(p) \in Nat /\ f \in Nat
      /\ u \in 1..Len(w)
  BY <1>1, <1>2 DEF First, Laid, BytesOK
<1>4. Laid(q, w)
  BY <1>1, <1>2, <1>3, LaidCut
<1>5. Len(q) = Len(p) - f /\ \A i \in 1..Len(q) : q[i] = p[i + f] /\ i + f \in 1..Len(p) /\ f < i + f
  BY <1>1, <1>3
<1>6. \A j \in 1..Len(q) : u < q[j].frame
  BY <1>1, <1>2, <1>3, <1>5, BehindNewline
<1>7. \A n : Encodes(line, w, n) => n = u /\ w[n].put = w[n].len + 1
  BY <1>1, <1>2, LineIs
<1>8. \A i \in 1..Len(g) : g[i] < u
  BY <1>1, <1>2, <1>3 DEF Ahead
<1>9. \/ h = g /\ ~(Encodes(line, w, u) /\ w[u].type \in Accepted)
      \/ h = Append(g, u) /\ Encodes(line, w, u) /\ w[u].type \in Accepted /\ w[u].put = w[u].len + 1
  BY <1>1, <1>7
<1>10. w[u].len \in Nat /\ w[u].len >= 1 /\ w[u].put \in Nat /\ (w[u].result = "refused" => w[u].put = 0)
  BY <1>2, <1>3, WrittenNumbers DEF WrittenOK
<1>11. h \in Seq(1..Len(w)) /\ Received(h, w, "open")
  <2>1. CASE h = g
    BY <1>2, <2>1
  <2>2. CASE h = Append(g, u) /\ w[u].type \in Accepted /\ w[u].put = w[u].len + 1
    <3>1. w[u].result # "refused" /\ ~(w[u].put \in 1..w[u].len)
      BY <1>10, <2>2
    <3> QED BY <1>2, <1>3, <1>8, <2>2, <3>1, ReceivedAppend
  <2> QED BY <1>9, <2>1, <2>2
<1>12. /\ \A m : (\E i \in 1..Len(g) : g[i] = m) => \E i \in 1..Len(h) : h[i] = m
       /\ h # g => \E i \in 1..Len(h) : h[i] = u
  <2>1. CASE h = g
    BY <2>1
  <2>2. CASE h = Append(g, u)
    BY <1>2, <1>3, <2>2, StillReturned
  <2> QED BY <1>9, <2>1, <2>2
<1>13. Ahead(h, q)
  <2> SUFFICES ASSUME NEW i \in 1..Len(h), NEW j \in 1..Len(q) PROVE h[i] < q[j].frame
    BY DEF Ahead
  <2>1. CASE i \in 1..Len(g) /\ h[i] = g[i]
    BY <1>2, <1>5, <2>1 DEF Ahead
  <2>2. CASE h[i] = u
    BY <1>6, <2>2
  <2>3. (i \in 1..Len(g) /\ h[i] = g[i]) \/ h[i] = u
    <3>1. PICK S : S = 1..Len(w)
      OBVIOUS
    <3>2. g \in Seq(S) /\ u \in S
      BY <1>2, <1>3, <3>1
    <3> QED BY <1>9, <3>2
  <2> QED BY <2>1, <2>2, <2>3
<1>14. Confined(q, w, h)
  <2> SUFFICES ASSUME NEW m \in 1..Len(w), w[m].result = "ok", w[m].type \in Accepted,
                      \A i \in 1..Len(q) : q[i].frame # m
               PROVE  (\E i \in 1..Len(h) : h[i] = m) \/ FollowsCut(w, m)
    BY DEF Confined
  <2>1. CASE \A i \in 1..Len(p) : p[i].frame # m
    BY <1>2, <1>12, <2>1 DEF Confined
  <2>2. ASSUME NEW i \in 1..Len(p), p[i].frame = m
        PROVE  (\E j \in 1..Len(h) : h[j] = m) \/ FollowsCut(w, m)
    <3>1. w[m].put = w[m].len + 1
      BY <1>2 DEF WrittenOK
    <3>2. ASSUME NEW j \in 1..Len(p), j > f PROVE p[j].frame # m
      <4>1. PICK x : x = j - f
        OBVIOUS
      <4>2. x \in 1..Len(q) /\ x + f = j
        BY <1>3, <1>5, <3>2, <4>1
      <4> QED BY <1>5, <4>2
    <3>3. u = m
      <4>1. w[p[i].frame].put = w[p[i].frame].len + 1 /\ \A j \in 1..Len(p) : j > f => p[j].frame # p[i].frame
        BY <2>2, <3>1, <3>2
      <4>2. p[f].frame = p[i].frame
        BY <1>2, <4>1, LeavesWhole
      <4> QED BY <1>1, <2>2, <4>2
    <3>4. \A j \in 1..f - 1 : ~p[j].nl
      BY DEF First
    <3>5. p[f].pos = f \/ FollowsCut(w, m)
      BY <1>1, <1>2, <1>3, <3>3, <3>4, StartOf
    <3>6. CASE p[f].pos = f
      <4>1. Encodes(line, w, u)
        BY <1>1, <1>2, <3>6, LineOf
      <4>2. h = Append(g, u)
        BY <1>9, <3>3, <4>1
      <4> QED BY <1>2, <1>3, <3>3, <4>2, StillReturned
    <3> QED BY <3>5, <3>6
  <2> QED BY <2>1, <2>2
<1>15. FramesState(q, w, h, "open")
  BY <1>2, <1>4, <1>11, <1>13, <1>14 DEF FramesState, Stopped
<1> QED BY <1>1, <1>15

\* Next gives up on a buffer full of bytes and no newline.
LEMMA StateTooLong ==
  ASSUME NEW p, NEW w, NEW g, FramesState(p, w, g, "open"), MaxLine <= Len(p),
         \A i \in 1..Len(p) : p[i].nl => i > MaxLine
  PROVE  FramesState(p, w, g, "tooLong")
<1>1. /\ WrittenOK(w) /\ Laid(p, w) /\ g \in Seq(1..Len(w)) /\ Received(g, w, "open")
      /\ Ahead(g, p) /\ Confined(p, w, g)
  BY DEF FramesState
<1>2. MaxLine \in Nat /\ MaxLine >= 1 /\ Len(p) \in Nat /\ MaxLine \in 1..Len(p)
  BY <1>1, FramesAssumption DEF Laid, BytesOK
<1>3. PICK n, o, c, l : n = p[MaxLine].frame /\ o = p[MaxLine].pos /\ c = w[n].put /\ l = w[n].len
  OBVIOUS
<1>4. /\ n \in 1..Len(w) /\ o \in Nat /\ o \in 1..c /\ c \in Nat /\ l \in Nat /\ c <= l + 1
      /\ p[MaxLine].nl <=> o = l + 1
  BY <1>1, <1>2, <1>3, OneByte
<1>5. c > 0 => l + 1 <= MaxLine
  BY <1>1, <1>3, <1>4 DEF WrittenOK
<1>6. \A j \in 1..MaxLine - 1 : ~p[j].nl
  BY <1>2
<1>7. o = MaxLine \/ FollowsCut(w, n)
  BY <1>1, <1>2, <1>3, <1>6, StartOf
<1>8. ~p[MaxLine].nl
  BY <1>2
<1>9. c \in 1..l \/ FollowsCut(w, n)
  <2>1. o # l + 1
    BY <1>4, <1>8
  <2> QED BY <1>2, <1>4, <1>5, <1>7, <2>1
<1>10. Stopped(p, w, "tooLong")
  BY <1>2, <1>3, <1>9 DEF Stopped
<1>11. Received(g, w, "tooLong")
  BY <1>1, ReceivedSame
<1> QED BY <1>1, <1>10, <1>11 DEF FramesState

\* Next takes what is left when the stream has ended.
LEMMA StateEOF ==
  ASSUME NEW p, NEW w, NEW g, FramesState(p, w, g, "open"),
         \A i \in 1..Len(p) : ~p[i].nl, NEW h,
         \/ h = g
         \/ \E n : Encodes(p, w, n) /\ w[n].type \in Accepted /\ h = Append(g, n)
  PROVE  FramesState(<<>>, w, h, "eof")
<1>1. /\ WrittenOK(w) /\ Laid(p, w) /\ g \in Seq(1..Len(w)) /\ Received(g, w, "open")
      /\ Ahead(g, p) /\ Confined(p, w, g)
  BY DEF FramesState
<1>2. ASSUME NEW n, Encodes(p, w, n)
      PROVE  n \in 1..Len(w) /\ 1 \in 1..Len(p) /\ p[1].frame = n /\ w[n].put = w[n].len
  <2>1. PICK c, l : c = w[n].put /\ l = w[n].len
    OBVIOUS
  <2>2. n \in 1..Len(w) /\ c \in Nat /\ l \in Nat /\ l >= 1 /\ c <= l + 1
    BY <1>1, <1>2, <2>1, WrittenNumbers DEF Encodes
  <2>3. Len(p) = l /\ \A i \in 1..l : p[i].frame = n /\ p[i].pos = i
    BY <1>1, <1>2, <2>1, EncodedBytes
  <2>4. 1 \in 1..Len(p) /\ l \in 1..Len(p)
    BY <2>2, <2>3
  <2>5. p[1].frame = n /\ p[1].pos = 1 /\ p[l].frame = n /\ p[l].pos = l
    BY <2>3, <2>4
  <2>6. l \in 1..c
    BY <1>1, <2>1, <2>4, <2>5, OneByte
  <2>7. c # l + 1
    <3> SUFFICES ASSUME c = l + 1 PROVE FALSE
      OBVIOUS
    <3>1. c \in 1..w[p[1].frame].put
      BY <2>1, <2>2, <2>5
    <3>2. 1 + (c - p[1].pos) \in 1..Len(p)
      BY <1>1, <2>4, <3>1, WholeFrame
    <3> QED BY <2>2, <2>3, <2>5, <3>2
  <2> QED BY <2>1, <2>2, <2>4, <2>5, <2>6, <2>7, SMTT(60)
<1>3. h \in Seq(1..Len(w)) /\ Received(h, w, "eof")
  <2>1. CASE h = g
    BY <1>1, <2>1, ReceivedSame
  <2>2. ASSUME NEW n, Encodes(p, w, n), w[n].type \in Accepted, h = Append(g, n)
        PROVE  h \in Seq(1..Len(w)) /\ Received(h, w, "eof")
    <3>1. n \in 1..Len(w) /\ 1 \in 1..Len(p) /\ p[1].frame = n /\ w[n].put = w[n].len
      BY <1>2, <2>2
    <3>2. \A i \in 1..Len(g) : g[i] < n
      BY <1>1, <3>1 DEF Ahead
    <3>3. w[n].result # "refused"
      <4>1. w[n].len >= 1 /\ w[n].len \in Nat
        BY <1>1, <3>1, WrittenNumbers
      <4>2. w[n].result = "refused" => w[n].put = 0
        BY <1>1, <3>1 DEF WrittenOK
      <4> QED BY <3>1, <4>1, <4>2
    <3> QED BY <1>1, <2>2, <3>1, <3>2, <3>3, ReceivedAppend
  <2> QED BY <2>1, <2>2
<1>4. Ahead(h, <<>>)
  BY DEF Ahead
<1>5. \A m : (\E i \in 1..Len(g) : g[i] = m) => \E i \in 1..Len(h) : h[i] = m
  <2>1. CASE h = g
    BY <2>1
  <2>2. ASSUME NEW n \in 1..Len(w), h = Append(g, n)
        PROVE  \A m : (\E i \in 1..Len(g) : g[i] = m) => \E i \in 1..Len(h) : h[i] = m
    BY <1>1, <2>2, StillReturned
  <2> QED BY <1>2, <2>1, <2>2
<1>6. Confined(<<>>, w, h)
  <2> SUFFICES ASSUME NEW m \in 1..Len(w), w[m].result = "ok", w[m].type \in Accepted
               PROVE  (\E i \in 1..Len(h) : h[i] = m) \/ FollowsCut(w, m)
    BY DEF Confined
  <2>1. \A i \in 1..Len(p) : p[i].frame # m
    <3> SUFFICES ASSUME NEW i \in 1..Len(p), p[i].frame = m PROVE FALSE
      OBVIOUS
    <3>1. PICK x, y : x = w[m].put /\ y = i + (x - p[i].pos)
      OBVIOUS
    <3>2. x \in 1..w[p[i].frame].put /\ w[m].put = w[m].len + 1
      <4>1. w[m].put = w[m].len + 1
        BY <1>1 DEF WrittenOK
      <4>2. w[p[i].frame].put \in Nat /\ p[i].pos \in Nat /\ p[i].pos \in 1..w[p[i].frame].put
        BY <1>1, OneByte
      <4> QED BY <3>1, <4>1, <4>2
    <3>3. y \in 1..Len(p) /\ p[y].frame = m /\ p[y].pos = x
      BY <1>1, <3>1, <3>2, WholeFrame, SMTT(60)
    <3>4. p[y].nl
      <4>1. p[y].nl <=> p[y].pos = w[p[y].frame].len + 1
        BY <1>1, <3>3, OneByte
      <4> QED BY <3>1, <3>2, <3>3, <4>1
    <3> QED BY <3>3, <3>4
  <2> QED BY <1>1, <1>5, <2>1 DEF Confined
<1> QED BY <1>1, <1>3, <1>4, <1>6, LaidEmpty DEF FramesState, Stopped

\* Next takes what was read when a read fails.
LEMMA StateFailed ==
  ASSUME NEW p, NEW w, NEW g, FramesState(p, w, g, "open"), NEW c \in 0..Len(p), NEW h,
         \/ h = g
         \/ \E n : Encodes(SubSeq(p, 1, c), w, n) /\ w[n].type \in Accepted /\ h = Append(g, n)
  PROVE  FramesState(p, w, h, "failed")
<1>1. /\ WrittenOK(w) /\ Laid(p, w) /\ g \in Seq(1..Len(w)) /\ Received(g, w, "open")
      /\ Ahead(g, p) /\ Confined(p, w, g)
  BY DEF FramesState
<1>2. Received(g, w, "failed")
  BY <1>1, ReceivedSame
<1>3. ASSUME NEW n, Encodes(SubSeq(p, 1, c), w, n), w[n].type \in Accepted, h = Append(g, n)
      PROVE  /\ h \in Seq(1..Len(w)) /\ Received(h, w, "failed")
             /\ \A m : (\E i \in 1..Len(g) : g[i] = m) => \E i \in 1..Len(h) : h[i] = m
  <2>1. PICK line, l : line = SubSeq(p, 1, c) /\ l = w[n].len
    OBVIOUS
  <2>2. n \in 1..Len(w) /\ w[n].put \in Nat /\ l \in Nat /\ l >= 1 /\ w[n].put <= l + 1
    BY <1>1, <1>3, <2>1, WrittenNumbers DEF Encodes
  <2>3. Len(line) = l /\ \A i \in 1..l : line[i].frame = n /\ line[i].pos = i
    <3>1. Encodes(line, w, n)
      BY <1>3, <2>1
    <3>2. Len(line) = w[n].len /\ \A i \in 1..w[n].len : line[i].frame = n /\ line[i].pos = i
      BY <1>1, <3>1, EncodedBytes
    <3> QED BY <2>1, <3>2
  <2>4. p \in Seq(Bytes) /\ Len(p) \in Nat
    BY <1>1 DEF Laid, BytesOK
  <2>5. Len(line) = c /\ \A i \in 1..c : line[i] = p[i]
    BY <2>1, <2>4
  <2>6. 1 \in 1..Len(p) /\ l \in 1..Len(p) /\ p[1].frame = n /\ p[l].frame = n /\ p[l].pos = l
    BY <2>2, <2>3, <2>4, <2>5
  <2>7. l \in 1..w[n].put
    BY <1>1, <2>6, OneByte
  <2>8. w[n].put \in 1..l => w[n].put = l
    BY <2>2, <2>7
  <2>9. \A i \in 1..Len(g) : g[i] < n
    BY <1>1, <2>6 DEF Ahead
  <2>10. w[n].result # "refused"
    <3>1. w[n].result = "refused" => w[n].put = 0
      BY <1>1, <2>2 DEF WrittenOK
    <3> QED BY <2>2, <2>7, <3>1
  <2>11. w[n].put \in 1..w[n].len => "failed" \in {"eof", "failed"} /\ w[n].put = w[n].len
    BY <2>1, <2>8
  <2>12. h \in Seq(1..Len(w)) /\ Received(h, w, "failed")
    BY <1>1, <1>3, <2>2, <2>9, <2>10, <2>11, ReceivedAppend
  <2>13. \A m : (\E i \in 1..Len(g) : g[i] = m) =>
           \E i \in 1..Len(Append(g, n)) : Append(g, n)[i] = m
    BY <1>1, <2>2, StillReturned
  <2> QED BY <1>3, <2>12, <2>13
<1>4. /\ h \in Seq(1..Len(w)) /\ Received(h, w, "failed")
      /\ \A m : (\E i \in 1..Len(g) : g[i] = m) => \E i \in 1..Len(h) : h[i] = m
  BY <1>1, <1>2, <1>3
<1>5. Confined(p, w, h)
  BY <1>1, <1>4 DEF Confined
<1> QED BY <1>1, <1>4, <1>5 DEF FramesState, Stopped

-----------------------------------------------------------------------------
(* Frames: the invariant and the theorems *)

\* The inductive invariant of the frames.
FramesInv == closed \in BOOLEAN /\ FramesState(pipe, written, got, reader)

\* It implies the type invariant and the three properties.
LEMMA FramesInvMeans ==
  FramesInv => FramesTypeOK /\ ReceivedInOrder /\ LossConfined /\ OversizedNeverFatal
<1> SUFFICES ASSUME FramesInv
             PROVE  FramesTypeOK /\ ReceivedInOrder /\ LossConfined /\ OversizedNeverFatal
  OBVIOUS
<1>1. /\ WrittenOK(written) /\ Laid(pipe, written) /\ got \in Seq(1..Len(written))
      /\ reader \in {"open", "eof", "tooLong", "failed"} /\ closed \in BOOLEAN
      /\ Received(got, written, reader) /\ Confined(pipe, written, got) /\ Stopped(pipe, written, reader)
  BY DEF FramesInv, FramesState
<1>2. FramesTypeOK
  BY <1>1 DEF FramesTypeOK, WrittenOK, WriteRec, Laid, BytesOK
<1>3. ReceivedInOrder
  BY <1>1, <1>2 DEF ReceivedInOrder, Received, Cut
<1>4. \A n : BehindCut(n) <=> FollowsCut(written, n)
  BY DEF BehindCut, FollowsCut, Cut
<1>5. LossConfined
  BY <1>1, <1>4 DEF LossConfined, Confined
<1>6. OversizedNeverFatal
  BY <1>1, <1>2, <1>4 DEF OversizedNeverFatal, Stopped, Cut, FramesTypeOK
<1> QED BY <1>2, <1>3, <1>5, <1>6

\* It holds of the empty pipe.
LEMMA FramesInvInit == FramesInit => FramesInv
<1> SUFFICES ASSUME FramesInit PROVE FramesInv
  OBVIOUS
<1>1. pipe = <<>> /\ got = <<>> /\ written = <<>> /\ closed = FALSE /\ reader = "open"
  BY DEF FramesInit
<1>2. WrittenOK(<<>>)
  BY DEF WrittenOK
<1>3. <<>> \in Seq(1..Len(<<>>)) /\ Ahead(<<>>, <<>>) /\ Received(<<>>, <<>>, "open") /\ Confined(<<>>, <<>>, <<>>)
  BY DEF Ahead, Received, Confined
<1>4. Stopped(<<>>, <<>>, "open")
  BY DEF Stopped
<1> QED BY <1>1, <1>2, <1>3, <1>4, LaidEmpty DEF FramesInv, FramesState

\* Write keeps it.
LEMMA FramesInvWrite ==
  FramesInv /\ (\E len \in Lengths, type \in Types : Write(len, type)) => FramesInv'
<1> SUFFICES ASSUME FramesInv, NEW len \in Lengths, NEW type \in Types, Write(len, type)
             PROVE  FramesInv'
  OBVIOUS
<1>1. len \in Nat /\ len >= 1 /\ MaxLine \in Nat
  <2>1. Lengths \subseteq Nat \ {0}
    BY FramesAssumption
  <2>2. len \in Nat \ {0}
    BY <2>1
  <2> QED BY <2>2, FramesAssumption
<1>2. ASSUME NEW put \in 0..len + 1, NEW result \in {"ok", "refused", "failed"},
             result = "ok" => put = len + 1, result = "refused" => put = 0,
             put > 0 => len + 1 <= MaxLine, Emit(len, type, put, result)
      PROVE  FramesInv'
  <2>1. PICK r : r = [len |-> len, type |-> type, put |-> put, result |-> result]
    OBVIOUS
  <2>2. r \in WriteRec
    <3>1. put \in 0..MaxLine
      BY <1>1, <1>2
    <3> QED BY <1>2, <2>1, <3>1 DEF WriteRec
  <2>3. /\ written' = Append(written, r)
        /\ pipe' = pipe \o [i \in 1..r.put |-> Byte(Len(written) + 1, i, r.len)]
        /\ closed' = closed /\ reader' = reader /\ got' = got
    BY <1>2, <2>1 DEF Emit
  <2>4. PICK p, w, g, rd : p = pipe /\ w = written /\ g = got /\ rd = reader
    OBVIOUS
  <2>5. FramesState(p, w, g, rd) /\ closed \in BOOLEAN
    BY <2>4 DEF FramesInv
  <2>6. /\ r.put \in 0..r.len + 1 /\ (r.result = "ok" => r.put = r.len + 1)
        /\ (r.result = "refused" => r.put = 0) /\ (r.put > 0 => r.len + 1 <= MaxLine)
    BY <1>2, <2>1
  <2>7. FramesState(p \o [i \in 1..r.put |-> Byte(Len(w) + 1, i, r.len)], Append(w, r), g, rd)
    BY <2>2, <2>5, <2>6, StateEmit
  <2> QED BY <2>3, <2>4, <2>5, <2>7 DEF FramesInv
<1>3. CASE TooLarge(len) /\ Emit(len, type, 0, "refused")
  BY <1>1, <1>2, <1>3
<1>4. CASE ~TooLarge(len) /\ Emit(len, type, len + 1, "ok")
  <2>1. len + 1 <= MaxLine /\ len + 1 \in 0..len + 1
    BY <1>1, <1>4 DEF TooLarge
  <2> QED BY <1>2, <1>4, <2>1
<1>5. ASSUME ~TooLarge(len), NEW put \in 0..len + 1, Emit(len, type, put, "failed") PROVE FramesInv'
  <2>1. len + 1 <= MaxLine
    BY <1>1, <1>5 DEF TooLarge
  <2> QED BY <1>2, <1>5, <2>1
<1> QED BY <1>3, <1>4, <1>5 DEF Write

\* What Pass does to the frames returned.
LEMMA PassMeans ==
  ASSUME NEW line, NEW rest, Pass(line, rest)
  PROVE  /\ pipe' = rest /\ closed' = closed /\ written' = written
         /\ \/ /\ got' = got
               /\ \A n : Encodes(line, written, n) => written[n].type \notin Accepted
            \/ \E n : /\ Encodes(line, written, n) /\ written[n].type \in Accepted
                      /\ got' = Append(got, n)
<1>1. \A n : n \in Yield(line) <=> Encodes(line, written, n) /\ written[n].type \in Accepted
  BY DEF Yield, Unmarshal, Encodes
<1> QED BY <1>1 DEF Pass

\* Next keeps it, one lemma per outcome.
LEMMA FramesInvLine == FramesInv /\ NextLine => FramesInv'
<1> SUFFICES ASSUME FramesInv, NextLine PROVE FramesInv'
  OBVIOUS
<1>1. PICK p, w, g, f, h : p = pipe /\ w = written /\ g = got /\ f = FirstNewline /\ h = got'
  OBVIOUS
<1>2. reader = "open" /\ Newlines # {} /\ reader' = reader
  BY DEF NextLine
<1>3. FramesState(p, w, g, "open") /\ closed \in BOOLEAN
  BY <1>1, <1>2 DEF FramesInv
<1>4. First(p, f)
  <2>1. Len(pipe) \in Nat
    BY <1>1, <1>3 DEF FramesState, Laid, BytesOK
  <2> QED BY <1>1, <1>2, <2>1, FirstIs
<1>5. Pass(SubSeq(p, 1, f - 1), SubSeq(p, f + 1, Len(p)))
  BY <1>1 DEF NextLine
<1>6. /\ pipe' = SubSeq(p, f + 1, Len(p)) /\ closed' = closed /\ written' = w
      /\ \/ /\ h = g
            /\ \A n : Encodes(SubSeq(p, 1, f - 1), w, n) => w[n].type \notin Accepted
         \/ \E n : /\ Encodes(SubSeq(p, 1, f - 1), w, n) /\ w[n].type \in Accepted
                   /\ h = Append(g, n)
  BY <1>1, <1>5, PassMeans
<1>7. FramesState(SubSeq(p, f + 1, Len(p)), w, h, "open")
  BY <1>3, <1>4, <1>6, StateLine
<1> QED BY <1>1, <1>2, <1>3, <1>6, <1>7 DEF FramesInv

\* A full buffer.
LEMMA FramesInvTooLong == FramesInv /\ NextTooLong => FramesInv'
<1> SUFFICES ASSUME FramesInv, NextTooLong PROVE FramesInv'
  OBVIOUS
<1>1. PICK p, w, g : p = pipe /\ w = written /\ g = got
  OBVIOUS
<1>2. /\ reader = "open" /\ Len(p) >= MaxLine /\ reader' = "tooLong"
      /\ pipe' = pipe /\ closed' = closed /\ got' = got /\ written' = written
  BY <1>1 DEF NextTooLong
<1>3. FramesState(p, w, g, "open") /\ closed \in BOOLEAN
  BY <1>1, <1>2 DEF FramesInv
<1>4. \A i \in 1..Len(p) : p[i].nl => i > MaxLine
  BY <1>1 DEF NextTooLong, Newlines
<1>5. MaxLine <= Len(p)
  <2>1. Len(p) \in Nat
    BY <1>3 DEF FramesState, Laid, BytesOK
  <2> QED BY <1>2, <2>1, FramesAssumption
<1>6. FramesState(p, w, g, "tooLong")
  BY <1>3, <1>4, <1>5, StateTooLong
<1> QED BY <1>1, <1>2, <1>3, <1>6 DEF FramesInv

\* The end of the stream.
LEMMA FramesInvEOF == FramesInv /\ NextEOF => FramesInv'
<1> SUFFICES ASSUME FramesInv, NextEOF PROVE FramesInv'
  OBVIOUS
<1>1. PICK p, w, g, h : p = pipe /\ w = written /\ g = got /\ h = got'
  OBVIOUS
<1>2. reader = "open" /\ reader' = "eof" /\ Newlines = {} /\ Pass(p, <<>>)
  BY <1>1 DEF NextEOF
<1>3. FramesState(p, w, g, "open") /\ closed \in BOOLEAN
  BY <1>1, <1>2 DEF FramesInv
<1>4. \A i \in 1..Len(p) : ~p[i].nl
  BY <1>1, <1>2 DEF Newlines
<1>5. /\ pipe' = <<>> /\ closed' = closed /\ written' = w
      /\ \/ h = g
         \/ \E n : Encodes(p, w, n) /\ w[n].type \in Accepted /\ h = Append(g, n)
  BY <1>1, <1>2, PassMeans
<1>6. FramesState(<<>>, w, h, "eof")
  BY <1>3, <1>4, <1>5, StateEOF
<1> QED BY <1>1, <1>2, <1>3, <1>5, <1>6 DEF FramesInv

\* A read that fails.
LEMMA FramesInvReadError == FramesInv /\ NextReadError => FramesInv'
<1> SUFFICES ASSUME FramesInv, NextReadError PROVE FramesInv'
  OBVIOUS
<1>1. PICK p, w, g, h : p = pipe /\ w = written /\ g = got /\ h = got'
  OBVIOUS
<1>2. PICK c \in 0..Len(p) : Pass(SubSeq(p, 1, c), p)
  BY <1>1 DEF NextReadError
<1>3. reader = "open" /\ reader' = "failed"
  BY DEF NextReadError
<1>4. FramesState(p, w, g, "open") /\ closed \in BOOLEAN
  BY <1>1, <1>3 DEF FramesInv
<1>5. /\ pipe' = p /\ closed' = closed /\ written' = w
      /\ \/ h = g
         \/ \E n : Encodes(SubSeq(p, 1, c), w, n) /\ w[n].type \in Accepted /\ h = Append(g, n)
  BY <1>1, <1>2, PassMeans
<1>6. FramesState(p, w, h, "failed")
  BY <1>4, <1>5, StateFailed
<1> QED BY <1>1, <1>3, <1>4, <1>5, <1>6 DEF FramesInv

\* Every step keeps the invariant.
LEMMA FramesInvStep == FramesInv /\ [FramesNext]_framesVars => FramesInv'
<1> SUFFICES ASSUME FramesInv, [FramesNext]_framesVars PROVE FramesInv'
  OBVIOUS
<1>1. CASE \E len \in Lengths, type \in Types : Write(len, type)
  BY <1>1, FramesInvWrite
<1>2. CASE Close
  BY <1>2 DEF Close, FramesInv
<1>3. CASE Next
  BY <1>3, FramesInvLine, FramesInvTooLong, FramesInvEOF, FramesInvReadError DEF Next, Scan
<1>4. CASE UNCHANGED framesVars
  BY <1>4 DEF framesVars, FramesInv
<1> QED BY <1>1, <1>2, <1>3, <1>4 DEF FramesNext

\* The invariant holds always.
LEMMA FramesAlways == FramesSpec => []FramesInv
<1>1. FramesInit => FramesInv
  BY FramesInvInit
<1>2. FramesInv /\ [FramesNext]_framesVars => FramesInv'
  BY FramesInvStep
<1> QED BY <1>1, <1>2, PTL DEF FramesSpec

\* What Reader.Next returns is in the order of the Write calls, each frame at most
\* once and nothing but whole frames of accepted types, whatever part of a line a
\* failed Write left and wherever a read fails; only a line complete but for its
\* newline, right before the end of the stream or a read that fails, is returned
\* though its Write failed.
THEOREM FramesReceivedInOrder == FramesSpec => []ReceivedInOrder
<1>1. FramesInv => ReceivedInOrder
  BY FramesInvMeans
<1> QED BY <1>1, FramesAlways, PTL

\* A failed Write spoils at most the next frame that reaches the pipe: every other
\* accepted frame whose Write succeeded has been returned once its bytes have been
\* scanned.
THEOREM FramesLossConfined == FramesSpec => []LossConfined
<1>1. FramesInv => LossConfined
  BY FramesInvMeans
<1> QED BY <1>1, FramesAlways, PTL

\* The scanner runs into a line over its limit only where a frame was cut or one
\* is glued to it: the check in Write keeps every whole line within the reader's
\* buffer, newline included.
THEOREM FramesOversizedNeverFatal == FramesSpec => []OversizedNeverFatal
<1>1. FramesInv => OversizedNeverFatal
  BY FramesInvMeans
<1> QED BY <1>1, FramesAlways, PTL
=============================================================================
