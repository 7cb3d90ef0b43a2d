------------------------------- MODULE Bridge -------------------------------
(***************************************************************************)
(* The bridge from worker output to log entries (logbridge/bridge.go) and  *)
(* the registry of the secrets it masks (logbridge/registry.go).           *)
(*                                                                         *)
(* Each session has a worker whose stdout and stderr are read by two       *)
(* goroutines; both call BridgeLine.  A line is its kind, the secrets in   *)
(* what becomes the Content of its entry, and the secrets in what becomes  *)
(* its other fields.  A kind of this model fixes what mapEvent looks at: a *)
(* model_response without text is "silent_response", the state_change to   *)
(* awaiting_human is "awaiting_human", an unparsable line is "garbage",    *)
(* "tool_result" stands for the three transcript-only kinds and "extra"    *)
(* for a kind the backend's MapExtra maps to an entry of its own.  The two *)
(* status entries go by their content, "working" and "idle"; of content    *)
(* and fields only the secrets they show are kept, each of them whole.     *)
(*                                                                         *)
(* A worker's key has fields that it sets, which name the worker and among *)
(* which is the one the hub filters by, and fields that it leaves empty:   *)
(* origin is the first, rest the second.                                   *)
(***************************************************************************)
EXTENDS Integers, FiniteSets

CONSTANTS
  Sessions,
  Workers,                \* the sessions whose worker's output is looked at
  Secrets,                \* session secrets (redact.New drops short ones: not here)
  Configs                 \* the BridgeConfigs to look at

NoOrigin == "none"   \* empty fields
Foreign == "foreign" \* what MapExtra may put into a field that keys leave empty

ASSUME BridgeAssumption ==
  /\ Workers \subseteq Sessions /\ NoOrigin \notin Sessions
  /\ Configs \subseteq [surfaceAwaitingHuman : BOOLEAN, surfaceRunState : BOOLEAN, mapExtra : BOOLEAN]

Kinds == {"model_response", "silent_response", "thinking", "tool_call", "usage",
          "awaiting_human", "state_change", "context_limit", "error", "model_request",
          "user_input", "tool_result", "extra", "unknown", "garbage"}

Readers == Workers \X {"stdout", "stderr"}

VARIABLES
  config,      \* the BridgeConfig
  session,     \* r.session: session -> its secrets
  regMask,     \* the secrets r.redactor masks
  bridgeMask,  \* the secrets b.redactor masks
  rebuilding,  \* whether a mutation, which holds r.mu, is between its two stores
  reader,      \* <<session, stream>> -> [pc, entry]
  awaiting,    \* the backend's flag per worker, set by OnAwaiting
  adding,      \* history: the <<session, secret>> of an AddSessionKey under way
  due          \* history: those whose AddSessionKey returned, until RemoveSessionKey

bridgeVars == <<config, session, regMask, bridgeMask, rebuilding, reader, awaiting, adding, due>>

\* shown, raw  the secrets that the Content shows, and those that other fields show
\* owed        history: those of the line that were registered when it was bridged
NoEntry == [type |-> "none", awaiting |-> FALSE, origin |-> NoOrigin, rest |-> NoOrigin,
            shown |-> {}, raw |-> {}, owed |-> {}]

\* Every secret of every session.
Compose(m) == UNION {m[s] : s \in DOMAIN m}

BridgeInit ==
  /\ config \in Configs
  /\ session = [s \in {} |-> {}]
  /\ regMask = {} /\ bridgeMask = {}
  /\ rebuilding = FALSE
  /\ reader = [r \in Readers |-> [pc |-> "idle", entry |-> NoEntry]]
  /\ awaiting = [w \in Workers |-> FALSE]
  /\ adding = {} /\ due = {}

-----------------------------------------------------------------------------
(* RedactorRegistry.  A mutation holds r.mu; rebuild stores the composed    *)
(* redactor in the registry first and on the bridge second.                 *)

AddedOver(s, k) == [x \in DOMAIN session \cup {s} |-> IF x = s THEN {k} ELSE session[x]]
Added(s, k) ==
  [x \in DOMAIN session \cup {s} |->
     (IF x \in DOMAIN session THEN session[x] ELSE {}) \cup (IF x = s THEN {k} ELSE {})]

AddSessionKey(s, k) ==
  /\ ~rebuilding
  /\ session' = Added(s, k)
  /\ regMask' = Compose(session')
  /\ rebuilding' = TRUE
  /\ adding' = {<<s, k>>}
  /\ UNCHANGED <<config, bridgeMask, reader, awaiting, due>>

Removed(s) == [x \in DOMAIN session \ {s} |-> session[x]]

MaskWithoutKeysOf(s) == regMask \ session[s]
MaskWithout(s) == Compose(Removed(s))

\* A session that registered nothing is left alone.
RemoveSessionKey(s) ==
  /\ ~rebuilding
  /\ s \in DOMAIN session
  /\ session' = Removed(s)
  /\ regMask' = MaskWithout(s)
  /\ rebuilding' = TRUE
  /\ due' = {d \in due : d[1] # s}
  /\ UNCHANGED <<config, bridgeMask, reader, awaiting, adding>>

\* bridge.setRedactor; the mutation returns.
SetRedactor ==
  /\ rebuilding
  /\ bridgeMask' = regMask
  /\ rebuilding' = FALSE
  /\ due' = due \cup adding
  /\ adding' = {}
  /\ UNCHANGED <<config, session, regMask, reader, awaiting>>

-----------------------------------------------------------------------------
(* BridgeLine *)

Entry(type, flag) == [type |-> type, awaiting |-> flag, origin |-> NoOrigin, rest |-> NoOrigin]

\* Key.stamp: the key's non-empty fields replace the entry's; the rest stays.
StampBlank(key, e) == IF e.origin = NoOrigin THEN [e EXCEPT !.origin = key] ELSE e
Stamp(key, e) == [e EXCEPT !.origin = key]

\* What the backend's MapExtra may return: an entry, with key fields of its own or
\* not, and either wish.
MapExtra == [type : {"extra"}, awaiting : BOOLEAN,
             origin : Workers \cup {NoOrigin}, rest : {NoOrigin, Foreign}]

\* mapEvent: the entry of an event, or none for a kind that is not bridged.
MapEvent(kind) ==
  CASE kind = "model_response" -> {Entry("text", FALSE)}
    [] kind \in {"thinking", "tool_call", "usage"} -> {Entry(kind, FALSE)}
    [] kind = "awaiting_human" ->
         IF config.surfaceAwaitingHuman THEN {Entry("system", TRUE)}
         ELSE IF config.surfaceRunState THEN {Entry("idle", FALSE)} ELSE {}
    [] kind \in {"state_change", "context_limit"} -> {Entry("system", FALSE)}
    [] kind = "error" -> {Entry("stderr", FALSE)}
    [] kind \in {"model_request", "user_input"} ->
         IF config.surfaceRunState THEN {Entry("working", FALSE)} ELSE {}
    [] kind = "extra" -> IF config.mapExtra THEN MapExtra ELSE {}
    [] OTHER -> {}

\* Raw stderr and unparsable stdout become stderr entries.
EntryOf(stream, kind) ==
  IF stream = "stderr" \/ kind = "garbage" THEN {Entry("stderr", FALSE)} ELSE MapEvent(kind)

\* Whether the Content comes from the line, and whether other fields do: Model,
\* ToolUseID, or whatever MapExtra sets.
Quotes(stream, kind) ==
  stream = "stderr" \/ kind \notin {"usage", "awaiting_human", "model_request", "user_input"}
HasFields(stream, kind) ==
  stream = "stdout" /\ kind \in {"model_response", "tool_call", "usage", "extra"}

\* The entry of a line: stamped, its Content masked with the redactor of that moment,
\* its other fields not.
Bridged(r, kind, e, content, fields) ==
  LET said == IF Quotes(r[2], kind) THEN content ELSE {}
      raw == IF HasFields(r[2], kind) THEN fields ELSE {}
  IN  [type |-> e.type, awaiting |-> e.awaiting,
       origin |-> Stamp(r[1], e).origin, rest |-> Stamp(r[1], e).rest,
       shown |-> said \ bridgeMask, raw |-> raw,
       owed |-> (said \cup raw) \cap {d[2] : d \in due}]

BridgeLine(r, kind, content, fields) ==
  /\ reader[r].pc = "idle"
  /\ \E e \in EntryOf(r[2], kind) :
       reader' = [reader EXCEPT ![r] =
         [pc |-> "publish", entry |-> Bridged(r, kind, e, content, fields)]]
  /\ UNCHANGED <<config, session, regMask, bridgeMask, rebuilding, awaiting, adding, due>>

\* hub.Publish (composed with the hub in BridgeHub); only an entry that is not
\* stderr goes on to the OnAwaiting hook.
HookedAlways(e) == TRUE
Hooked(e) == e.type # "stderr"

Publish(r) ==
  /\ reader[r].pc = "publish"
  /\ reader' = [reader EXCEPT ![r] =
       IF Hooked(@.entry) THEN [pc |-> "hook", entry |-> @.entry]
       ELSE [pc |-> "idle", entry |-> NoEntry]]
  /\ UNCHANGED <<config, session, regMask, bridgeMask, rebuilding, awaiting, adding, due>>

\* The hook gets the key that the entry carries, with what MapExtra put into the
\* fields the worker's key leaves empty.  The backend (external) finds the worker by
\* the fields that the key sets.
OnAwaiting(r) ==
  /\ reader[r].pc = "hook"
  /\ awaiting' = [awaiting EXCEPT ![reader[r].entry.origin] = reader[r].entry.awaiting]
  /\ reader' = [reader EXCEPT ![r] = [pc |-> "idle", entry |-> NoEntry]]
  /\ UNCHANGED <<config, session, regMask, bridgeMask, rebuilding, adding, due>>

BridgeNext ==
  \/ \E s \in Sessions : RemoveSessionKey(s) \/ \E k \in Secrets : AddSessionKey(s, k)
  \/ SetRedactor
  \/ \E r \in Readers :
       \/ \E kind \in Kinds, content, fields \in SUBSET Secrets : BridgeLine(r, kind, content, fields)
       \/ Publish(r) \/ OnAwaiting(r)

BridgeSpec == BridgeInit /\ [][BridgeNext]_bridgeVars

-----------------------------------------------------------------------------
(* Properties *)

\* Type invariant.
BridgeTypeOK ==
  /\ config \in Configs
  /\ DOMAIN session \subseteq Sessions
  /\ \A s \in DOMAIN session : session[s] \subseteq Secrets /\ session[s] # {}
  /\ regMask \subseteq Secrets /\ bridgeMask \subseteq Secrets
  /\ rebuilding \in BOOLEAN
  /\ \A r \in Readers : reader[r].pc \in {"idle", "publish", "hook"}
  /\ awaiting \in [Workers -> BOOLEAN]
  /\ adding \subseteq Sessions \X Secrets
  /\ due \subseteq Sessions \X Secrets

\* The Content of no entry shows a secret that was registered when its line was
\* bridged: not when the session registers another key, not when another session
\* with the same key ends, not while a rebuild is under way.  (Of the other fields
\* this is not true: entry.raw is published as it came.)
ContentIsMasked ==
  \A r \in Readers :
    reader[r].pc = "publish" => reader[r].entry.shown \cap reader[r].entry.owed = {}

\* RedactLine and the bridge mask the same set whenever no mutation is under
\* way, and that set is the union of what the live sessions registered.
SinksAgree ==
  /\ BridgeTypeOK
  /\ regMask = Compose(session)
  /\ ~rebuilding => bridgeMask = regMask
=============================================================================
