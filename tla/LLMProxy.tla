------------------------------ MODULE LLMProxy ------------------------------
(***************************************************************************)
(* The LLM proxy (llmproxy/registry.go, llmproxy/proxy.go): a worker holds *)
(* a stand-in token for its run, and the proxy replaces it by the key of   *)
(* the upstream registered for that run.  The worker finds the proxy by a  *)
(* base URL made of container_serve_url (llmproxy/workerurl.go).           *)
(*                                                                         *)
(* Register draws its token before it takes the registry's lock; a request *)
(* looks its token up once, under the lock, and is forwarded later with    *)
(* the entry it found, whatever has become of the registry in between.     *)
(*                                                                         *)
(* A path is the sequence of its segments: /llm/models is <<"llm",         *)
(* "models">>, and / is <<"">>, so that appending strings is appending     *)
(* sequences.  A URL is its scheme, host, path and mark, the "?" or "#" it *)
(* contains, if any.                                                       *)
(***************************************************************************)
EXTENDS Integers, Sequences, FiniteSets, SequencesExt

CONSTANTS
  Prefix,                   \* Config.Prefix
  Runs,                     \* run keys
  Bases, DefaultBase,       \* the base URLs Register accepts, and defaultBaseURL
  NoBase, BadBase,          \* an empty base, and one that does not parse
  Keys, NoKey,              \* upstream keys, and an empty one
  Requests,                 \* requests of workers
  MaxTokens                 \* bound on the number of tokens drawn

\* New refuses a prefix that is empty or "/", or that ends with a slash.
ASSUME ProxyAssumption ==
  /\ Prefix \in Seq(STRING) /\ Prefix # <<>> /\ Prefix[Len(Prefix)] # ""
  /\ MaxTokens \in Nat
  /\ Bases \subseteq [scheme : STRING, host : STRING, path : Seq(STRING), mark : {"", "?", "#"}]
  /\ DefaultBase \in Bases
  /\ NoBase # BadBase /\ {NoBase, BadBase} \cap Bases = {}
  /\ NoKey \notin Keys

VARIABLES
  worker,    \* the base URL handed to workers
  runs,      \* reg.runs: run key -> entry
  drawn,     \* the number of tokens drawn; rand.Read never repeats one
  pending,   \* entries Register has built and not yet stored
  req,       \* Requests -> the state of the request
  issued,    \* history: token -> the run and the endpoint it was drawn for
  dead       \* history: tokens that left the registry

proxyVars == <<worker, runs, drawn, pending, req, issued, dead>>

\* Token 0 was never issued: it stands for a wrong bearer token or for none.
Tokens == 0..MaxTokens
Endpoint == [base : Bases \cup {NoBase, BadBase}, apiKey : Keys \cup {NoKey}]
Entry == [runKey : Runs, token : Tokens, base : Bases, apiKey : Keys \cup {NoKey}]

\* The Authorization header of a request: none, a worker's token, or a key.
NoAuth == [kind |-> "none"]
TokenAuth(t) == [kind |-> "token", token |-> t]
KeyAuth(k) == [kind |-> "key", key |-> k]

-----------------------------------------------------------------------------
(* ValidateContainerURL and WorkerBaseURL *)

NoURL == [scheme |-> "", host |-> "", path |-> <<>>, mark |-> ""]

\* "alias": a name of the loopback interface that is neither an address
\* net.ParseIP reads nor "localhost": "localhost.", "127.1", "::1" with a zone.
Hosts == {"serve", "alias", "loopback", "unspecified", "localhost", ""}
RawURLs ==
  {NoURL} \cup [scheme : {"http", "ftp"}, host : Hosts,
               path : {<<>>, <<"">>, <<"api">>, <<"", "">>}, mark : {"", "?", "#"}]

TrimSlash(path) == IF IsSuffix(<<"">>, path) THEN Front(path) ELSE path

\* The URL as it is used, or nothing if it is refused.
ValidateParsedURL(raw) ==
  IF raw = NoURL THEN {raw}
  ELSE IF /\ raw.scheme = "http"
          /\ raw.host \notin {"", "unspecified", "loopback", "localhost"}
          /\ raw.path \in {<<>>, <<"">>}
       THEN {[raw EXCEPT !.path = TrimSlash(@)]} ELSE {}
ValidateContainerURL(raw) ==
  IF raw = NoURL THEN {raw}
  ELSE IF /\ raw.scheme = "http"
          /\ raw.host \notin {"", "unspecified", "loopback", "localhost"}
          /\ raw.path \in {<<>>, <<"">>}
          /\ raw.mark = ""
       THEN {[raw EXCEPT !.path = TrimSlash(@)]} ELSE {}

\* base + s: behind a mark, it is no longer part of the path.
Extend(url, s) == IF url.mark = "" THEN [url EXCEPT !.path = @ \o s] ELSE url

WorkerBaseURL(url) ==
  Extend(IF url = NoURL THEN [NoURL EXCEPT !.scheme = "http", !.host = "gateway"]
         ELSE [url EXCEPT !.path = TrimSlash(@)], Prefix)

ProxyInit ==
  /\ \E raw \in RawURLs : \E url \in ValidateContainerURL(raw) : worker = WorkerBaseURL(url)
  /\ runs = [k \in {} |-> 0]
  /\ drawn = 0
  /\ pending = {}
  /\ req = [r \in Requests |-> [pc |-> "new"]]
  /\ issued = [t \in {} |-> 0]
  /\ dead = {}

-----------------------------------------------------------------------------
(* Register and Revoke *)

\* An empty base stands for the default one; one that does not parse is refused.
Base(up) == IF up.base = NoBase THEN DefaultBase ELSE up.base

Register(k, up) ==
  LET token == drawn + 1 IN
  /\ drawn < MaxTokens
  /\ up.base # BadBase
  /\ drawn' = token
  /\ pending' = pending \cup
       {[runKey |-> k, token |-> token, base |-> Base(up), apiKey |-> up.apiKey]}
  /\ issued' = [t \in 1..token |-> IF t = token THEN [run |-> k, up |-> up] ELSE issued[t]]
  /\ UNCHANGED <<worker, runs, req, dead>>

Live(k) == IF k \in DOMAIN runs THEN {runs[k].token} ELSE {}

\* The entry replaces whatever its run key held.
StoreFirst(e) ==
  /\ e \in pending
  /\ pending' = pending \ {e}
  /\ runs' = [k \in DOMAIN runs \cup {e.runKey} |->
                IF k = e.runKey /\ k \notin DOMAIN runs THEN e ELSE runs[k]]
  /\ dead' = dead \cup Live(e.runKey)
  /\ UNCHANGED <<worker, drawn, req, issued>>
Store(e) ==
  /\ e \in pending
  /\ pending' = pending \ {e}
  /\ runs' = [k \in DOMAIN runs \cup {e.runKey} |-> IF k = e.runKey THEN e ELSE runs[k]]
  /\ dead' = dead \cup Live(e.runKey)
  /\ UNCHANGED <<worker, drawn, req, issued>>

RevokeKept(k) ==
  /\ k \in DOMAIN runs
  /\ dead' = dead \cup Live(k)
  /\ UNCHANGED <<worker, runs, drawn, pending, req, issued>>
Revoke(k) ==
  /\ k \in DOMAIN runs
  /\ runs' = [j \in DOMAIN runs \ {k} |-> runs[j]]
  /\ dead' = dead \cup Live(k)
  /\ UNCHANGED <<worker, drawn, pending, req, issued>>

-----------------------------------------------------------------------------
(* ServeHTTP *)

\* lookup: the entries whose token matches.
Found(t) == {runs[k] : k \in {j \in DOMAIN runs : runs[j].token = t}}

Chat == <<"chat", "completions">>
Models == <<"models">>

Allowed(method, suffix) ==
  \/ method = "POST" /\ suffix = Chat
  \/ method = "GET" /\ suffix = Models

\* The endpoints the metrics know.
Paths == {Prefix \o Chat, Prefix \o Models}

CutPrefix(path) == SubSeq(path, Len(Prefix) + 1, Len(path))

\* 401 without a live token, then 404 for a route that is not allowed, then the
\* reverse proxy runs with the entry in the request's context.
Serve(r, t, method, path) ==
  LET seen == [token |-> t, dead |-> t \in dead, method |-> method, path |-> path]
      ok == IsPrefix(Prefix, path) /\ Allowed(method, CutPrefix(path))
  IN
  /\ req[r].pc = "new"
  /\ \/ /\ Found(t) = {}
        /\ req' = [req EXCEPT ![r] = [pc |-> "401", seen |-> seen]]
     \/ /\ Found(t) # {} /\ ~ok
        /\ req' = [req EXCEPT ![r] = [pc |-> "404", seen |-> seen]]
     \/ /\ ok
        /\ \E e \in Found(t) :
             req' = [req EXCEPT ![r] = [pc |-> "proxied", seen |-> seen, entry |-> e]]
  /\ UNCHANGED <<worker, runs, drawn, pending, issued, dead>>

\* What a worker's client calls under its base URL, and other requests that get
\* to the proxy.
OwnCalls == {<<"POST", Extend(worker, Chat).path>>, <<"GET", Extend(worker, Models).path>>}
StrayCalls == {<<"GET", Prefix \o Chat>>, <<"GET", Models>>, <<"GET", Prefix \o <<"">>>>}

\* rewrite: the worker's Authorization is removed, the entry's key set if any.
Rewrite(e, in) == IF e.apiKey # NoKey THEN KeyAuth(e.apiKey) ELSE NoAuth

\* The entry is the one ServeHTTP put into the context.
ContextEntryAgain(r) ==
  IF req[r].entry.runKey \in DOMAIN runs THEN runs[req[r].entry.runKey] ELSE req[r].entry
ContextEntry(r) == req[r].entry

\* url.Parse(base + suffix), with the worker's query for its own; a fragment is
\* not sent.
Target(base, suffix) == [Extend(base, suffix) EXCEPT !.mark = ""]

Forward(r) ==
  LET e == ContextEntry(r) IN
  /\ req[r].pc = "proxied"
  /\ req' = [req EXCEPT ![r] = [pc |-> "forwarded", seen |-> req[r].seen,
                                url |-> Target(e.base, CutPrefix(req[r].seen.path)),
                                auth |-> Rewrite(e, TokenAuth(req[r].seen.token))]]
  /\ UNCHANGED <<worker, runs, drawn, pending, issued, dead>>

\* upstreamError: 502.
UpstreamError(r) ==
  /\ req[r].pc = "forwarded"
  /\ req' = [req EXCEPT ![r].pc = "502"]
  /\ UNCHANGED <<worker, runs, drawn, pending, issued, dead>>

ProxyNext ==
  \/ \E k \in Runs : Revoke(k) \/ \E up \in Endpoint : Register(k, up)
  \/ \E e \in pending : Store(e)
  \/ \E r \in Requests :
       \/ Forward(r) \/ UpstreamError(r)
       \/ \E t \in 0..drawn, call \in OwnCalls \cup StrayCalls : Serve(r, t, call[1], call[2])

ProxySpec == ProxyInit /\ [][ProxyNext]_proxyVars

-----------------------------------------------------------------------------
(* Properties *)

Sent == {r \in Requests : req[r].pc \in {"forwarded", "502"}}

\* Type invariant.
ProxyTypeOK ==
  /\ DOMAIN runs \subseteq Runs
  /\ \A k \in DOMAIN runs : runs[k] \in Entry /\ runs[k].runKey = k
  /\ drawn \in Tokens
  /\ pending \subseteq Entry
  /\ DOMAIN issued = 1..drawn
  /\ dead \subseteq 1..drawn
  /\ \A r \in Requests : req[r].pc \in {"new", "401", "404", "proxied", "forwarded", "502"}

\* A request goes to the endpoint its own token was issued for, with that
\* endpoint's key or none, even when its run was registered anew or revoked while
\* it was on its way.  It goes to the path the worker asked for behind the base's
\* own path; a base with a "?" or "#" in it, which Register accepts, swallows it.
SentWhereIssued ==
  \A r \in Sent :
    LET up == issued[req[r].seen.token].up
    IN  /\ \E suffix \in {Chat, Models} :
             req[r].seen.path = Prefix \o suffix /\ req[r].url = Target(Base(up), suffix)
        /\ req[r].auth = IF up.apiKey = NoKey THEN NoAuth ELSE KeyAuth(up.apiKey)

\* A request that arrives with a token that was replaced or revoked is answered
\* 401, whatever route it asks for, also when Register calls race each other.
DeadTokenRefused ==
  \A r \in Requests : req[r].pc # "new" /\ req[r].seen.dead => req[r].pc = "401"

\* Every token that was drawn is in exactly one place: with an entry that
\* Register has not stored yet, live in the registry, or dead.  No token is lost
\* and none has two entries, so that the one Register returned stays good until a
\* Revoke or another Register of the same run.
Held == pending \cup {runs[k] : k \in DOMAIN runs}
StoredTokensAccounted ==
  /\ ProxyTypeOK
  /\ 1..drawn = dead \cup {e.token : e \in Held}
  /\ \A e \in Held : e.token \notin dead
  /\ \A e, f \in Held : e.token = f.token => e = f
  /\ \A k \in DOMAIN runs : runs[k] \notin pending

\* With whatever container_serve_url passes the check, a worker that calls one of
\* the two endpoints under its base URL, with a live token, is not answered 404;
\* and every request that is forwarded has an endpoint of its own in the metrics.
WorkerServed ==
  \A r \in Requests :
    /\ req[r].pc = "404" => <<req[r].seen.method, req[r].seen.path>> \notin OwnCalls
    /\ r \in Sent => req[r].seen.path \in Paths
=============================================================================
