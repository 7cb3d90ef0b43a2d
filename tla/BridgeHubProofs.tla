-------------------------- MODULE BridgeHubProofs --------------------------
(***************************************************************************)
(* Proofs about the bridge, the redactor registry and their composition    *)
(* with the hub, for any sessions, secrets and configurations.             *)
(***************************************************************************)
EXTENDS BridgeHub, SequenceTheorems, TLAPS

-----------------------------------------------------------------------------
(* The bridge and the registry *)

EntryTypes == {"none", "stderr", "text", "thinking", "tool_call", "usage", "system", "idle",
               "working", "extra"}
EntryType == [type : EntryTypes, awaiting : BOOLEAN, origin : Workers \cup {NoOrigin},
              rest : {NoOrigin, Foreign}, shown : SUBSET Secrets, raw : SUBSET Secrets,
              owed : SUBSET Secrets]

\* A reader that is not idle holds an entry stamped with its own worker; only an
\* entry that is not stderr, and so none of the stderr stream, gets to the hook.
ReadersOK ==
  /\ reader \in [Readers -> [pc : {"idle", "publish", "hook"}, entry : EntryType]]
  /\ \A r \in Readers :
       /\ reader[r].pc # "idle" => reader[r].entry.origin = r[1]
       /\ reader[r].pc # "idle" /\ r[2] = "stderr" => reader[r].entry.type = "stderr"
       /\ reader[r].pc = "hook" => reader[r].entry.type # "stderr"

\* What is owed is registered, and masked by the bridge; what is being added is
\* registered and will be.
DueMasked ==
  /\ adding # {} => rebuilding
  /\ \A d \in due \cup adding : d[1] \in DOMAIN session /\ d[2] \in session[d[1]]
  /\ \A d \in due : d[2] \in bridgeMask

BridgeInv == SinksAgree /\ ReadersOK /\ DueMasked /\ ContentIsMasked

\* The bridge NewBridge builds, with no session registered.
LEMMA BridgeInitInv == BridgeInit => BridgeInv
<1> SUFFICES ASSUME BridgeInit PROVE BridgeInv
  OBVIOUS
<1>1. NoEntry \in EntryType
  BY DEF NoEntry, EntryType, EntryTypes
<1>2. ReadersOK
  BY <1>1 DEF BridgeInit, ReadersOK, NoEntry
<1>3. DueMasked /\ ContentIsMasked
  BY DEF BridgeInit, DueMasked, ContentIsMasked
<1>4. SinksAgree
  BY DEF BridgeInit, SinksAgree, BridgeTypeOK, Compose
<1> QED BY <1>2, <1>3, <1>4 DEF BridgeInv

\* AddSessionKey registers a secret and stores the registry's redactor.
LEMMA AddInv ==
  ASSUME BridgeInv, NEW s \in Sessions, NEW k \in Secrets, AddSessionKey(s, k)
  PROVE  BridgeInv'
<1> USE DEF BridgeInv
<1>1. DOMAIN session' = DOMAIN session \cup {s} /\ k \in session'[s]
  BY DEF AddSessionKey, Added
<1>2. \A x \in DOMAIN session : session[x] \subseteq session'[x]
  BY DEF AddSessionKey, Added
<1>3. \A x \in DOMAIN session' : session'[x] \subseteq Secrets /\ session'[x] # {}
  BY DEF AddSessionKey, Added, SinksAgree, BridgeTypeOK
<1>4. regMask' = Compose(session') /\ regMask' \subseteq Secrets
  BY <1>3 DEF AddSessionKey, Compose
<1>5. SinksAgree'
  BY <1>1, <1>3, <1>4 DEF AddSessionKey, SinksAgree, BridgeTypeOK
<1>6. DueMasked'
  BY <1>1, <1>2 DEF AddSessionKey, DueMasked
<1>7. ReadersOK' /\ ContentIsMasked'
  BY DEF AddSessionKey, ReadersOK, ContentIsMasked
<1> QED BY <1>5, <1>6, <1>7

\* RemoveSessionKey drops one session's secrets from what is owed.
LEMMA RemoveInv ==
  ASSUME BridgeInv, NEW s \in Sessions, RemoveSessionKey(s)
  PROVE  BridgeInv'
<1> USE DEF BridgeInv
<1>1. DOMAIN session' = DOMAIN session \ {s} /\ \A x \in DOMAIN session' : session'[x] = session[x]
  BY DEF RemoveSessionKey, Removed
<1>2. regMask' = Compose(session') /\ regMask' \subseteq Secrets
  BY <1>1 DEF RemoveSessionKey, MaskWithout, Compose, SinksAgree, BridgeTypeOK
<1>3. SinksAgree'
  BY <1>1, <1>2 DEF RemoveSessionKey, SinksAgree, BridgeTypeOK
<1>4. DueMasked'
  BY <1>1 DEF RemoveSessionKey, DueMasked
<1>5. ReadersOK' /\ ContentIsMasked'
  BY DEF RemoveSessionKey, ReadersOK, ContentIsMasked
<1> QED BY <1>3, <1>4, <1>5

\* setRedactor: the bridge masks what the registry does, and the secret just
\* added is owed from here on.
LEMMA SetRedactorInv ==
  ASSUME BridgeInv, SetRedactor
  PROVE  BridgeInv'
<1> USE DEF BridgeInv
<1>1. SinksAgree'
  BY DEF SetRedactor, SinksAgree, BridgeTypeOK
<1>2. \A d \in due \cup adding : d[2] \in regMask
  BY DEF DueMasked, SinksAgree, Compose
<1>3. DueMasked'
  BY <1>2 DEF SetRedactor, DueMasked
<1>4. ReadersOK' /\ ContentIsMasked'
  BY DEF SetRedactor, ReadersOK, ContentIsMasked
<1> QED BY <1>1, <1>3, <1>4

\* mapEvent and MapExtra give an entry a type of its own and a flag; raw stderr
\* is of type stderr.
LEMMA EntryOfType ==
  ASSUME NEW stream, NEW kind \in Kinds, NEW e \in EntryOf(stream, kind)
  PROVE  /\ e.type \in EntryTypes /\ e.awaiting \in BOOLEAN
         /\ stream = "stderr" => e.type = "stderr"
         /\ \A key : Stamp(key, e).origin = key /\ Stamp(key, e).rest \in {NoOrigin, Foreign}
<1>1. \A type, flag : LET x == Entry(type, flag) IN
        /\ x.type = type /\ x.awaiting = flag
        /\ \A key : Stamp(key, x).origin = key /\ Stamp(key, x).rest = NoOrigin
  BY DEF Entry, Stamp
<1>2. \A x \in MapExtra :
        /\ x.type = "extra" /\ x.awaiting \in BOOLEAN
        /\ \A key : Stamp(key, x).origin = key /\ Stamp(key, x).rest \in {NoOrigin, Foreign}
  BY DEF MapExtra, Entry, Stamp
<1>3. \/ \E type \in EntryTypes, flag \in BOOLEAN : e = Entry(type, flag)
      \/ e \in MapExtra
  BY DEF EntryOf, MapEvent, EntryTypes
<1>4. stream = "stderr" => e = Entry("stderr", FALSE)
  BY DEF EntryOf
<1>5. CASE e \in MapExtra
  <2>1. /\ e.type = "extra" /\ e.awaiting \in BOOLEAN
        /\ \A key : Stamp(key, e).origin = key /\ Stamp(key, e).rest \in {NoOrigin, Foreign}
    BY <1>2, <1>5
  <2>2. stream # "stderr" \/ e.type = "stderr"
    BY <1>1, <1>4, ZenonT(60)
  <2> QED BY <2>1, <2>2 DEF EntryTypes
<1>6. CASE \E type \in EntryTypes, flag \in BOOLEAN : e = Entry(type, flag)
  <2>1. PICK type \in EntryTypes, flag \in BOOLEAN : e = Entry(type, flag)
    BY <1>6
  <2>2. /\ e.type = type /\ e.awaiting = flag
        /\ \A key : Stamp(key, e).origin = key /\ Stamp(key, e).rest = NoOrigin
    BY <1>1, <2>1
  <2>3. stream # "stderr" \/ e.type = "stderr"
    BY <1>1, <1>4, ZenonT(60)
  <2> QED BY <2>1, <2>2, <2>3
<1> QED BY <1>3, <1>5, <1>6

\* The entry of a line; the redactor of the moment covers what is owed.
LEMMA BridgedEntry ==
  ASSUME BridgeInv, NEW r \in Readers, NEW kind \in Kinds, NEW e \in EntryOf(r[2], kind),
         NEW content \in SUBSET Secrets, NEW fields \in SUBSET Secrets
  PROVE  LET x == Bridged(r, kind, e, content, fields)
         IN  /\ x \in EntryType /\ x.type = e.type /\ x.origin = r[1]
             /\ \A k \in x.shown \cap x.owed : k \in content \ bridgeMask /\ k \in bridgeMask
<1>1. /\ e.type \in EntryTypes /\ e.awaiting \in BOOLEAN /\ Stamp(r[1], e).origin = r[1]
      /\ Stamp(r[1], e).rest \in {NoOrigin, Foreign}
  BY EntryOfType
<1>2. r[1] \in Workers
  BY DEF Readers
<1>3. PICK o, f : o = r[1] /\ o = Stamp(r[1], e).origin /\ f = Stamp(r[1], e).rest
  BY <1>1
<1>4. PICK said, raw :
        /\ said = (IF Quotes(r[2], kind) THEN content ELSE {})
        /\ raw = (IF HasFields(r[2], kind) THEN fields ELSE {})
  OBVIOUS
<1>5. said \subseteq content /\ said \subseteq Secrets /\ raw \subseteq Secrets
  BY <1>4
<1>6. PICK shown, owed : shown = said \ bridgeMask /\ owed = (said \cup raw) \cap {d[2] : d \in due}
  OBVIOUS
<1>7. shown \subseteq Secrets /\ owed \subseteq Secrets
  BY <1>5, <1>6
<1>8. Bridged(r, kind, e, content, fields) =
        [type |-> e.type, awaiting |-> e.awaiting, origin |-> o, rest |-> f,
         shown |-> shown, raw |-> raw, owed |-> owed]
  BY <1>3, <1>4, <1>6 DEF Bridged
<1>9. owed \subseteq bridgeMask
  BY <1>6 DEF BridgeInv, DueMasked
<1> QED BY <1>1, <1>2, <1>3, <1>5, <1>6, <1>7, <1>8, <1>9 DEF EntryType

\* BridgeLine.
LEMMA BridgeLineInv ==
  ASSUME BridgeInv, NEW r \in Readers, NEW kind \in Kinds,
         NEW content \in SUBSET Secrets, NEW fields \in SUBSET Secrets,
         BridgeLine(r, kind, content, fields)
  PROVE  BridgeInv'
<1>0. PICK e \in EntryOf(r[2], kind) :
        reader' = [reader EXCEPT ![r] =
          [pc |-> "publish", entry |-> Bridged(r, kind, e, content, fields)]]
  BY DEF BridgeLine
<1>1. PICK x : x = Bridged(r, kind, e, content, fields)
  OBVIOUS
<1>2. /\ x \in EntryType /\ x.type = e.type /\ x.origin = r[1] /\ x.shown \cap x.owed = {}
      /\ reader' = [reader EXCEPT ![r] = [pc |-> "publish", entry |-> x]]
  BY <1>0, <1>1, BridgedEntry
<1> USE DEF BridgeInv
<1>3. r[2] = "stderr" => e.type = "stderr"
  BY EntryOfType
<1>5. ReadersOK'
  BY <1>2, <1>3 DEF ReadersOK
<1>6. SinksAgree' /\ DueMasked'
  BY DEF BridgeLine, SinksAgree, BridgeTypeOK, ReadersOK, DueMasked
<1>7. ContentIsMasked'
  BY <1>2 DEF ReadersOK, ContentIsMasked
<1> QED BY <1>5, <1>6, <1>7

\* Publish hands an entry that is not stderr on to the hook, OnAwaiting runs it.
LEMMA PublishInv ==
  ASSUME BridgeInv, NEW r \in Readers, Publish(r) \/ OnAwaiting(r)
  PROVE  BridgeInv'
<1> USE DEF BridgeInv
<1>1. NoEntry \in EntryType /\ NoEntry.type = "none"
  BY DEF NoEntry, EntryType, EntryTypes
<1>2. ReadersOK'
  <2>1. CASE Publish(r) /\ reader[r].entry.type # "stderr"
    BY <2>1 DEF ReadersOK, Publish, Hooked
  <2>2. CASE Publish(r) /\ reader[r].entry.type = "stderr"
    BY <1>1, <2>2 DEF ReadersOK, Publish, Hooked
  <2>3. CASE OnAwaiting(r)
    BY <1>1, <2>3 DEF ReadersOK, OnAwaiting
  <2> QED BY <2>1, <2>2, <2>3
<1>3. awaiting' \in [Workers -> BOOLEAN]
  BY ZenonT(60) DEF ReadersOK, SinksAgree, BridgeTypeOK, Publish, OnAwaiting, EntryType, Readers
<1>4. SinksAgree' /\ DueMasked'
  BY <1>2, <1>3 DEF Publish, OnAwaiting, SinksAgree, BridgeTypeOK, ReadersOK, DueMasked
<1>5. ContentIsMasked'
  BY DEF ReadersOK, Publish, OnAwaiting, ContentIsMasked
<1> QED BY <1>2, <1>4, <1>5

\* The invariant of the bridge is inductive.
LEMMA BridgeNextInv == BridgeInv /\ [BridgeNext]_bridgeVars => BridgeInv'
<1> SUFFICES ASSUME BridgeInv, [BridgeNext]_bridgeVars PROVE BridgeInv'
  OBVIOUS
<1>1. CASE \E s \in Sessions : RemoveSessionKey(s) \/ \E k \in Secrets : AddSessionKey(s, k)
  BY <1>1, RemoveInv, AddInv
<1>2. CASE SetRedactor
  BY <1>2, SetRedactorInv
<1>3. CASE \E r \in Readers : \E kind \in Kinds, content, fields \in SUBSET Secrets :
             BridgeLine(r, kind, content, fields)
  BY <1>3, BridgeLineInv
<1>4. CASE \E r \in Readers : Publish(r) \/ OnAwaiting(r)
  BY <1>4, PublishInv
<1>5. CASE UNCHANGED bridgeVars
  BY <1>5 DEF bridgeVars, BridgeInv, SinksAgree, BridgeTypeOK, ReadersOK, DueMasked,
              ContentIsMasked
<1> QED BY <1>1, <1>2, <1>3, <1>4, <1>5 DEF BridgeNext

\* The invariant of the bridge holds in every behaviour of it.
LEMMA BridgeInvariant == BridgeSpec => []BridgeInv
BY BridgeInitInv, BridgeNextInv, PTL DEF BridgeSpec

\* Both sinks, RedactLine and the bridge, mask the union of what the live
\* sessions registered, whatever sessions come and go.
THEOREM BridgeSinksAgree == BridgeSpec => []SinksAgree
BY BridgeInvariant, PTL DEF BridgeInv

\* The Content of no entry shows a secret whose AddSessionKey had returned when its
\* line was bridged and whose session had not been removed (BridgeLine, rebuild).
THEOREM BridgeContentIsMasked == BridgeSpec => []ContentIsMasked
BY BridgeInvariant, PTL DEF BridgeInv

-----------------------------------------------------------------------------
(* The composition: every step of it is a step of the bridge, or leaves the *)
(* bridge alone.                                                            *)

\* A step of the composition is a step of the bridge or none of its.
LEMMA ComposedStep == [BridgeHubNext]_bridgeHubVars => [BridgeNext]_bridgeVars
<1> SUFFICES ASSUME [BridgeHubNext]_bridgeHubVars PROVE [BridgeNext]_bridgeVars
  OBVIOUS
<1>1. CASE Mutate \/ Rebuilt
  BY <1>1 DEF Mutate, Rebuilt, BridgeNext
<1>2. CASE \E w \in Workers : Start(w)
  BY <1>2 DEF Start
<1>3. CASE \E r \in Readers, kind \in Heard : Line(r, kind)
  BY <1>3, BridgeHubAssumption DEF Line, BridgeNext
<1>4. CASE \E r \in Readers : PublishEntry(r) \/ Hook(r)
  BY <1>4 DEF PublishEntry, Hook, BridgeNext
<1>5. CASE Consumer
  BY <1>5 DEF Consumer
<1>6. CASE UNCHANGED bridgeHubVars
  BY <1>6 DEF bridgeHubVars
<1> QED BY <1>1, <1>2, <1>3, <1>4, <1>5, <1>6 DEF BridgeHubNext

\* Composed with the hub, the bridge still behaves as the bridge alone may: the
\* backend, the hub and its consumers interfere with nothing it keeps.
THEOREM ComposedIsBridge == BridgeHubSpec => BridgeSpec
BY ComposedStep, PTL DEF BridgeHubSpec, BridgeSpec, BridgeHubInit

-----------------------------------------------------------------------------
(* The awaiting flag *)

\* The hub's log and the history of entries go together.
Logged ==
  /\ entries \in Seq([worker : Workers, type : EntryTypes, awaiting : BOOLEAN])
  /\ log \in Seq(Workers) /\ Len(log) = Len(entries)
  /\ \A n \in 1..Len(log) : log[n] = entries[n].worker

\* A set of positions is empty or has a newest one.
HasNewest(S) == S # {} => Newest(S) \in S /\ \A m \in S : m <= Newest(S)

\* While the hook of an entry is still to run, that entry is the newest one.
HookIsNewest ==
  \A w \in Workers :
    /\ HasNewest(Progress(w)) /\ HasNewest(Seen(w))
    /\ reader[<<w, "stdout">>].pc = "hook" =>
         /\ Progress(w) # {}
         /\ entries[Newest(Progress(w))].awaiting = reader[<<w, "stdout">>].entry.awaiting

FlagInv == BridgeInv /\ Logged /\ HookIsNewest /\ FlagFollowsLog

\* A number above all others is the newest.
LEMMA NewestAbove ==
  ASSUME NEW S \in SUBSET Nat, NEW n \in Nat, \A m \in S : m < n
  PROVE  Newest(S \cup {n}) = n /\ HasNewest(S \cup {n})
<1> DEFINE T == S \cup {n}
<1>1. n \in T /\ \A m \in T : m <= n
  OBVIOUS
<1>2. \E x \in T : \A m \in T : m <= x
  BY <1>1
<1>3. Newest(T) \in T /\ \A m \in T : m <= Newest(T)
  BY <1>2 DEF Newest
<1>4. Newest(T) \in Nat /\ n <= Newest(T) /\ Newest(T) <= n
  BY <1>1, <1>3
<1>5. Newest(T) = n
  BY <1>4
<1> QED BY <1>3, <1>5 DEF HasNewest

\* No entry, no flag.
LEMMA FlagInitInv == BridgeHubInit => FlagInv
<1> SUFFICES ASSUME BridgeHubInit PROVE FlagInv
  OBVIOUS
<1>1. BridgeInv
  BY BridgeInitInv DEF BridgeHubInit
<1>2. Logged
  BY DEF BridgeHubInit, Logged, H!HubInit
<1>3. \A w \in Workers : Progress(w) = {} /\ Seen(w) = {} /\ reader[<<w, "stdout">>].pc = "idle"
  BY DEF BridgeHubInit, BridgeInit, Progress, Seen, Readers
<1>4. HookIsNewest /\ FlagFollowsLog
  BY <1>3 DEF HookIsNewest, HasNewest, FlagFollowsLog, BridgeHubInit, BridgeInit
<1> QED BY <1>1, <1>2, <1>4 DEF FlagInv

\* A step that leaves the entries, the flags and whoever is at the hook as they
\* are changes nothing about the flags.
LEMMA FlagFrame ==
  ASSUME FlagInv, BridgeInv', UNCHANGED <<entries, awaiting, log>>,
         \A r \in Readers : \/ reader'[r] = reader[r]
                            \/ reader[r].pc # "hook" /\ reader'[r].pc # "hook"
  PROVE  FlagInv'
<1>1. Logged'
  BY DEF FlagInv, Logged
<1>2. \A w \in Workers : Progress(w)' = Progress(w)
  BY DEF Progress
<1>3. \A w \in Workers : Seen(w)' = Seen(w)
  BY <1>2 DEF Seen, Readers
<1>4. HookIsNewest'
  BY <1>2, <1>3 DEF FlagInv, HookIsNewest, HasNewest, Newest, Readers
<1>5. FlagFollowsLog'
  BY <1>3, ZenonT(60) DEF FlagInv, FlagFollowsLog, Newest
<1> QED BY <1>1, <1>4, <1>5 DEF FlagInv

\* An entry is published: it joins the progress of its worker unless it is
\* stderr, and then the hook is still to run.
LEMMA FlagPublish ==
  ASSUME FlagInv, BridgeInv', NEW r \in Readers, PublishEntry(r)
  PROVE  FlagInv'
<1> DEFINE e == reader[r].entry
           n == Len(entries) + 1
           rec == [worker |-> r[1], type |-> e.type, awaiting |-> e.awaiting]
<1>1. entries' = Append(entries, rec) /\ awaiting' = awaiting /\ log' = Append(log, r[1])
  BY DEF PublishEntry, Publish, H!Publish, FlagInv, BridgeInv, ReadersOK
<1>2. rec \in [worker : Workers, type : EntryTypes, awaiting : BOOLEAN] /\ r[1] \in Workers
  BY DEF FlagInv, BridgeInv, ReadersOK, EntryType, Readers
<1>3. Logged'
  BY <1>1, <1>2 DEF FlagInv, Logged
<1>4. /\ Len(entries) \in Nat /\ Len(entries') = n /\ entries'[n] = rec
      /\ \A i \in 1..Len(entries) : entries'[i] = entries[i]
  BY <1>1, <1>2 DEF FlagInv, Logged
<1>5. \A w \in Workers : Progress(w)' = IF w = r[1] /\ e.type # "stderr" THEN Progress(w) \cup {n}
                                        ELSE Progress(w)
  BY <1>4 DEF Progress
<1>6. \A w \in Workers : Progress(w) \in SUBSET Nat /\ \A m \in Progress(w) : m < n /\ entries'[m] = entries[m]
  BY <1>4 DEF Progress
<1>7. \A w \in Workers : Seen(w) \subseteq Progress(w)
  BY DEF Seen
<1>8. reader[r].pc = "publish" /\ reader' = [reader EXCEPT ![r] =
         IF e.type # "stderr" THEN [pc |-> "hook", entry |-> e]
         ELSE [pc |-> "idle", entry |-> NoEntry]]
  BY DEF PublishEntry, Publish, Hooked
<1>9. e.type # "stderr" => r = <<r[1], "stdout">>
  BY <1>8 DEF FlagInv, BridgeInv, ReadersOK, Readers
<1>10. ASSUME NEW w \in Workers PROVE Seen(w)' = Seen(w)
  <2>1. CASE w = r[1] /\ e.type # "stderr"
    <3>1. reader[<<w, "stdout">>].pc = "publish" /\ reader'[<<w, "stdout">>].pc = "hook"
      BY <1>8, <1>9, <2>1 DEF FlagInv, BridgeInv, ReadersOK
    <3>2. Seen(w) = Progress(w)
      BY <3>1 DEF Seen
    <3>3. Seen(w)' = {i \in Progress(w) \cup {n} : \E m \in Progress(w) \cup {n} : m > i}
      BY <1>5, <2>1, <3>1 DEF Seen
    <3>4. {i \in Progress(w) \cup {n} : \E m \in Progress(w) \cup {n} : m > i} = Progress(w)
      BY <1>4, <1>6
    <3> QED BY <3>2, <3>3, <3>4
  <2>2. CASE ~(w = r[1] /\ e.type # "stderr")
    <3>1. reader'[<<w, "stdout">>].pc = "hook" <=> reader[<<w, "stdout">>].pc = "hook"
      BY <1>8, <1>9, <2>2 DEF FlagInv, BridgeInv, ReadersOK, Readers
    <3> QED BY <1>5, <2>2, <3>1 DEF Seen
  <2> QED BY <2>1, <2>2
<1>11. HookIsNewest'
  <2> SUFFICES ASSUME NEW w \in Workers
               PROVE  /\ HasNewest(Progress(w)') /\ HasNewest(Seen(w))
                      /\ reader'[<<w, "stdout">>].pc = "hook" =>
                           /\ Progress(w)' # {}
                           /\ entries'[Newest(Progress(w)')].awaiting
                                = reader'[<<w, "stdout">>].entry.awaiting
    BY <1>10 DEF HookIsNewest
  <2>1. HasNewest(Seen(w)) /\ HasNewest(Progress(w))
    BY DEF FlagInv, HookIsNewest
  <2>2. CASE w = r[1] /\ e.type # "stderr"
    <3>1. reader'[<<w, "stdout">>].entry = e
      BY <1>8, <1>9, <2>2 DEF FlagInv, BridgeInv, ReadersOK
    <3>2. Newest(Progress(w) \cup {n}) = n /\ HasNewest(Progress(w) \cup {n})
      <4>1. n \in Nat /\ Progress(w) \in SUBSET Nat /\ \A m \in Progress(w) : m < n
        BY <1>4, <1>6
      <4> HIDE DEF n
      <4> QED BY <4>1, NewestAbove, Zenon
    <3>3. Progress(w)' = Progress(w) \cup {n}
      BY <1>5, <2>2
    <3>4. entries'[Newest(Progress(w)')].awaiting = e.awaiting
      BY <1>4, <3>2, <3>3
    <3>5. Progress(w)' # {} /\ HasNewest(Progress(w)')
      BY <3>2, <3>3
    <3> QED BY <2>1, <3>1, <3>4, <3>5
  <2>3. CASE ~(w = r[1] /\ e.type # "stderr")
    <3>1. reader'[<<w, "stdout">>].pc = "hook" => reader'[<<w, "stdout">>] = reader[<<w, "stdout">>]
      BY <1>8, <1>9, <2>3 DEF FlagInv, BridgeInv, ReadersOK, Readers
    <3>2. Progress(w)' = Progress(w)
      BY <1>5, <2>3
    <3>3. reader[<<w, "stdout">>].pc = "hook" => Newest(Progress(w)) \in Progress(w)
      BY <2>1 DEF FlagInv, HookIsNewest, HasNewest
    <3> QED BY <1>6, <2>1, <3>1, <3>2, <3>3 DEF FlagInv, HookIsNewest
  <2> QED BY <2>2, <2>3
<1>12. FlagFollowsLog'
  <2> SUFFICES ASSUME NEW w \in Workers
               PROVE  awaiting[w] = (Seen(w) # {} /\ entries'[Newest(Seen(w))].awaiting)
    BY <1>1, <1>10 DEF FlagFollowsLog
  <2>1. Seen(w) # {} => Newest(Seen(w)) \in Progress(w)
    BY <1>7 DEF FlagInv, HookIsNewest, HasNewest
  <2> QED BY <1>6, <2>1 DEF FlagInv, FlagFollowsLog
<1> QED BY <1>3, <1>11, <1>12 DEF FlagInv

\* The hook runs: what was the newest entry but one becomes the newest seen.
LEMMA FlagHook ==
  ASSUME FlagInv, BridgeInv', NEW r \in Readers, Hook(r)
  PROVE  FlagInv'
<1> DEFINE v == r[1]
<1>1. entries' = entries /\ log' = log /\ reader[r].pc = "hook"
  BY DEF Hook, OnAwaiting, hub
<1>2. r = <<v, "stdout">> /\ v \in Workers /\ reader[r].entry.origin = v
  BY <1>1 DEF FlagInv, BridgeInv, ReadersOK, Readers
<1>3. reader' = [reader EXCEPT ![r] = [pc |-> "idle", entry |-> NoEntry]]
      /\ awaiting' = [awaiting EXCEPT ![v] = reader[r].entry.awaiting]
  BY <1>2 DEF Hook, OnAwaiting
<1>4. Logged'
  BY <1>1 DEF FlagInv, Logged
<1>5. \A w \in Workers : Progress(w)' = Progress(w)
  BY <1>1 DEF Progress
<1>6. \A w \in Workers : w # v => reader'[<<w, "stdout">>] = reader[<<w, "stdout">>]
  BY <1>2, <1>3 DEF FlagInv, BridgeInv, ReadersOK
<1>7. reader'[<<v, "stdout">>].pc = "idle"
  BY <1>2, <1>3 DEF FlagInv, BridgeInv, ReadersOK
<1>8. Seen(v)' = Progress(v) /\ \A w \in Workers : w # v => Seen(w)' = Seen(w)
  BY <1>2, <1>5, <1>6, <1>7 DEF Seen
<1>9. HookIsNewest'
  <2> SUFFICES ASSUME NEW w \in Workers
               PROVE  /\ HasNewest(Progress(w)) /\ HasNewest(Seen(w)')
                      /\ reader'[<<w, "stdout">>].pc = "hook" =>
                           /\ Progress(w) # {}
                           /\ entries[Newest(Progress(w))].awaiting
                                = reader'[<<w, "stdout">>].entry.awaiting
    BY <1>1, <1>5 DEF HookIsNewest
  <2>1. CASE w = v
    BY <1>7, <1>8, <2>1 DEF FlagInv, HookIsNewest
  <2>2. CASE w # v
    BY <1>6, <1>8, <2>2 DEF FlagInv, HookIsNewest
  <2> QED BY <2>1, <2>2
<1>10. FlagFollowsLog'
  <2> SUFFICES ASSUME NEW w \in Workers
               PROVE  awaiting'[w] = (Seen(w)' # {} /\ entries[Newest(Seen(w)')].awaiting)
    BY <1>1 DEF FlagFollowsLog
  <2>1. CASE w = v
    <3>1. awaiting'[w] = reader[r].entry.awaiting
      BY <1>2, <1>3, <2>1 DEF FlagInv, BridgeInv, SinksAgree, BridgeTypeOK
    <3>2. Progress(w) # {} /\ entries[Newest(Progress(w))].awaiting = reader[r].entry.awaiting
      BY <1>1, <1>2, <2>1 DEF FlagInv, HookIsNewest
    <3>3. reader[r].entry.awaiting \in BOOLEAN
      BY DEF FlagInv, BridgeInv, ReadersOK, EntryType
    <3> QED BY <1>8, <2>1, <3>1, <3>2, <3>3
  <2>2. CASE w # v
    <3>1. awaiting'[w] = awaiting[w]
      BY <1>3, <2>2 DEF FlagInv, BridgeInv, SinksAgree, BridgeTypeOK
    <3> QED BY <1>8, <2>2, <3>1 DEF FlagInv, FlagFollowsLog
  <2> QED BY <2>1, <2>2
<1> QED BY <1>4, <1>9, <1>10 DEF FlagInv

\* Whatever the backend, the readers and the consumers do keeps the flags and
\* the log in step.
LEMMA FlagNext == FlagInv /\ [BridgeHubNext]_bridgeHubVars => FlagInv'
<1> SUFFICES ASSUME FlagInv, [BridgeHubNext]_bridgeHubVars PROVE FlagInv'
  OBVIOUS
<1>1. BridgeInv'
  BY ComposedStep, BridgeNextInv DEF FlagInv
<1>2. CASE Mutate \/ Rebuilt
  <2>1. UNCHANGED <<entries, awaiting, log, reader>>
    BY <1>2 DEF Mutate, Rebuilt, AddSessionKey, RemoveSessionKey, SetRedactor, hub
  <2> QED BY <1>1, <2>1, FlagFrame
<1>3. CASE \E w \in Workers : Start(w)
  <2>1. UNCHANGED <<entries, awaiting, log, reader>>
    BY <1>3 DEF Start, H!Retain, bridgeVars
  <2> QED BY <1>1, <2>1, FlagFrame
<1>4. CASE \E r \in Readers, kind \in Heard : Line(r, kind)
  <2>1. PICK r \in Readers, kind \in Heard : Line(r, kind)
    BY <1>4
  <2>2. UNCHANGED <<entries, awaiting, log>>
    BY <2>1 DEF Line, BridgeLine, hub
  <2>3. ASSUME NEW x \in Readers
        PROVE  reader'[x] = reader[x] \/ (reader[x].pc # "hook" /\ reader'[x].pc # "hook")
    <3>1. PICK v \in [pc : {"publish"}, entry : EntryType] : reader' = [reader EXCEPT ![r] = v]
      <4>1. PICK e \in EntryOf(r[2], kind) :
              reader' = [reader EXCEPT ![r] =
                [pc |-> "publish", entry |-> Bridged(r, kind, e, Secrets, Secrets)]]
        BY <2>1 DEF Line, BridgeLine
      <4>2. Bridged(r, kind, e, Secrets, Secrets) \in EntryType
        BY BridgedEntry, BridgeHubAssumption DEF FlagInv
      <4> QED BY <4>1, <4>2
    <3>2. reader[r].pc = "idle"
      BY <2>1 DEF Line, BridgeLine
    <3> QED BY <3>1, <3>2 DEF FlagInv, BridgeInv, ReadersOK
  <2> QED BY <1>1, <2>2, <2>3, FlagFrame
<1>5. CASE \E r \in Readers : PublishEntry(r) \/ Hook(r)
  BY <1>1, <1>5, FlagPublish, FlagHook
<1>6. CASE Consumer
  <2>1. UNCHANGED <<entries, awaiting, log, reader>>
    BY <1>6 DEF Consumer, H!Subscribe, H!Receive, H!Unsubscribe, bridgeVars
  <2> QED BY <1>1, <2>1, FlagFrame
<1>7. CASE UNCHANGED bridgeHubVars
  <2>1. UNCHANGED <<entries, awaiting, log, reader>>
    BY <1>7 DEF bridgeHubVars, bridgeVars, hub
  <2> QED BY <1>1, <2>1, FlagFrame
<1> QED BY <1>2, <1>3, <1>4, <1>5, <1>6, <1>7 DEF BridgeHubNext

\* The flag's invariant holds in every behaviour of the composition.
LEMMA FlagInvariant == BridgeHubSpec => []FlagInv
BY FlagInitInv, FlagNext, PTL DEF BridgeHubSpec

\* The two masking theorems hold of the composition with the hub as well.
THEOREM ComposedMasks == BridgeHubSpec => [](SinksAgree /\ ContentIsMasked)
BY FlagInvariant, PTL DEF FlagInv, BridgeInv

\* A worker's awaiting flag is what its newest published entry that is not
\* stderr says, or the one before while the hook of the newest is to run.
THEOREM AwaitingFollowsLog == BridgeHubSpec => []FlagFollowsLog
BY FlagInvariant, PTL DEF FlagInv

-----------------------------------------------------------------------------
(* The hub in the composition.  P is the hub together with what is proved   *)
(* about it; its Watched, which none of the lemmas used here mentions, is   *)
(* any worker.                                                              *)

P == INSTANCE LogHubProofs WITH
  Keys <- Workers, All <- NoOrigin, Keyed <- TRUE, Overlap <- FALSE,
  MaxPublish <- MaxEvents, Watched <- CHOOSE w \in Workers : TRUE

\* The assumptions of the hub hold as soon as there is a worker.
LEMMA HubAssumed ==
  ASSUME NEW w \in Workers
  PROVE  P!HubAssumption /\ P!WatchedAssumption
<1>1. NoOrigin \notin Workers
  BY BridgeAssumption
<1>2. (CHOOSE x \in Workers : TRUE) \in Workers
  OBVIOUS
<1> QED BY <1>1, <1>2, BridgeHubAssumption

\* The composition's hub is that hub.
LEMMA SameHub ==
  /\ \A w : H!Retain(w) => P!Retain(w)
  /\ \A w : H!Subscribe(w) => P!Subscribe(w)
  /\ \A w : H!Publish(w) => P!Publish(w)
  /\ \A id : H!Receive(id) => P!Receive(id)
  /\ \A id : H!Unsubscribe(id) => P!Unsubscribe(id)
  /\ \A w : H!Pending(w) = P!Pending(w)
  /\ H!HubInit => P!HubInit
<1>1. \A w : H!Retain(w) => P!Retain(w)
  BY DEF H!Retain, P!Retain, H!Put, P!Put
<1>2. \A w : H!Subscribe(w) => P!Subscribe(w)
  BY Zenon DEF H!Subscribe, P!Subscribe, H!Put, P!Put, H!Holds, P!Holds, H!Held, P!Held, H!ChanCap,
         P!ChanCap, H!HandedOver, P!HandedOver
<1>3. \A w : H!Publish(w) => P!Publish(w)
  <2>1. \A w : H!KeyOf(w) = P!KeyOf(w) /\ H!Attached(w) = P!Attached(w)
    BY Zenon DEF H!KeyOf, P!KeyOf, H!Attached, P!Attached, H!Holds, P!Holds
  <2>2. \A w : H!Recipients(w) = P!Recipients(w) /\ H!Full = P!Full /\ H!Filters = P!Filters
    BY Zenon DEF H!Recipients, P!Recipients, H!Matches, P!Matches, H!Full, P!Full, H!Filters,
                 P!Filters
  <2>3. \A f, w : H!DropsAt(f, w) = P!DropsAt(f, w)
    BY <2>2, Zenon DEF H!DropsAt, P!DropsAt, H!Cardinality, P!Cardinality
  <2> QED BY <2>1, <2>2, <2>3, ZenonT(60) DEF H!Publish, P!Publish
<1>4. \A id : H!Receive(id) => P!Receive(id)
  BY Zenon DEF H!Receive, P!Receive
<1>5. \A id : H!Unsubscribe(id) => P!Unsubscribe(id)
  BY Zenon DEF H!Unsubscribe, P!Unsubscribe, H!Delete, P!Delete, H!Holds, P!Holds, H!Requeue, P!Requeue,
         H!Excess, P!Excess, H!Restrict, P!Restrict
<1>6. \A w : H!Pending(w) = P!Pending(w)
  BY Zenon DEF H!Pending, P!Pending, H!Holds, P!Holds, H!Held, P!Held
<1>7. H!HubInit => P!HubInit
  BY Zenon DEF H!HubInit, P!HubInit, H!Filters, P!Filters
<1> QED BY <1>1, <1>2, <1>3, <1>4, <1>5, <1>6, <1>7, Zenon

\* A worker's output is read only once its key is retained, and so is every key
\* of the log.
Started ==
  /\ \A r \in Readers : reader[r].pc # "idle" => r[1] \in DOMAIN retained
  /\ \A n \in 1..Len(log) : log[n] \in DOMAIN retained

\* The feed of every worker is in order and, if nothing was dropped, complete.
FeedsOK ==
  \A w \in Workers :
    /\ P!FeedInv /\ P!Tidy(w)
    /\ drops[w] = 0 => P!AllThere(w)

\* A step of the composition is a step of the hub or leaves it alone.
LEMMA ComposedHubStep ==
  ASSUME FlagInv, [BridgeHubNext]_bridgeHubVars
  PROVE  [P!HubNext]_(P!hubVars)
<1>1. CASE Mutate \/ Rebuilt
  BY <1>1 DEF Mutate, Rebuilt, hub, P!hubVars
<1>2. CASE \E w \in Workers : Start(w)
  BY <1>2, SameHub DEF Start, P!HubNext
<1>3. CASE \E r \in Readers, kind \in Heard : Line(r, kind)
  BY <1>3 DEF Line, hub, P!hubVars
<1>4. CASE \E r \in Readers : Hook(r)
  BY <1>4 DEF Hook, hub, P!hubVars
<1>5. CASE \E r \in Readers : PublishEntry(r)
  <2>1. PICK r \in Readers : PublishEntry(r)
    BY <1>5
  <2>2. reader[r].entry.origin \in Workers
    BY <2>1 DEF PublishEntry, Publish, FlagInv, BridgeInv, ReadersOK, Readers
  <2> QED BY <2>1, <2>2, SameHub DEF PublishEntry, P!HubNext, P!Filters
<1>6. CASE Consumer
  BY <1>6, SameHub DEF Consumer, P!HubNext, P!Filters
<1>7. CASE UNCHANGED bridgeHubVars
  BY <1>7 DEF bridgeHubVars, hub, P!hubVars
<1> QED BY <1>1, <1>2, <1>3, <1>4, <1>5, <1>6, <1>7 DEF BridgeHubNext

\* No step of the composition gives up a retained key.
LEMMA RetainedStays ==
  ASSUME [BridgeHubNext]_bridgeHubVars
  PROVE  DOMAIN retained \subseteq DOMAIN retained'
<1>1. CASE Mutate \/ Rebuilt \/ UNCHANGED bridgeHubVars
  BY <1>1 DEF Mutate, Rebuilt, hub, bridgeHubVars
<1>2. CASE \E w \in Workers : Start(w)
  BY <1>2 DEF Start, H!Retain, H!Put
<1>3. CASE \E r \in Readers : Hook(r) \/ \E kind \in Heard : Line(r, kind)
  BY <1>3 DEF Line, Hook, hub
<1>4. CASE \E r \in Readers : PublishEntry(r)
  <2>1. PICK k : H!Publish(k)
    BY <1>4 DEF PublishEntry
  <2> QED BY <2>1 DEF H!Publish
<1>5. CASE Consumer
  <2>1. CASE \E w \in Workers : H!Subscribe(w)
    BY <2>1 DEF H!Subscribe, H!HandedOver
  <2>2. CASE \E id \in DOMAIN subs : H!Receive(id) \/ H!Unsubscribe(id)
    BY <2>2 DEF H!Receive, H!Unsubscribe
  <2> QED BY <1>5, <2>1, <2>2 DEF Consumer
<1> QED BY <1>1, <1>2, <1>3, <1>4, <1>5 DEF BridgeHubNext

\* A line is read, and an entry published, for a retained key only.
LEMMA StartedNext ==
  ASSUME FlagInv, FlagInv', Started, [BridgeHubNext]_bridgeHubVars
  PROVE  Started'
<1>1. DOMAIN retained \subseteq DOMAIN retained'
  BY RetainedStays
<1>2. log \in Seq(Workers) /\ Len(log) \in Nat
  BY DEF FlagInv, Logged
<1>3. CASE UNCHANGED <<reader, log>>
  BY <1>1, <1>3 DEF Started
<1>4. CASE \E r \in Readers, kind \in Heard : Line(r, kind)
  <2>1. PICK r \in Readers, kind \in Heard : Line(r, kind)
    BY <1>4
  <2>2. log' = log /\ retained' = retained /\ r[1] \in DOMAIN retained
    BY <2>1 DEF Line, hub
  <2>3. \A x \in Readers : x # r => reader'[x] = reader[x]
    BY <2>1 DEF Line, BridgeLine, FlagInv, BridgeInv, ReadersOK
  <2> QED BY <2>2, <2>3 DEF Started
<1>5. CASE \E r \in Readers : PublishEntry(r)
  <2>1. PICK r \in Readers : PublishEntry(r)
    BY <1>5
  <2>2. reader[r].pc = "publish" /\ reader[r].entry.origin = r[1] /\ r[1] \in Workers
    BY <2>1 DEF PublishEntry, Publish, FlagInv, BridgeInv, ReadersOK, Readers
  <2>3. log' = Append(log, r[1])
    BY <2>1, <2>2 DEF PublishEntry, H!Publish
  <2>4. r[1] \in DOMAIN retained'
    BY <1>1, <2>2 DEF Started
  <2>5. \A n \in 1..Len(log') : (n \in 1..Len(log) /\ log'[n] = log[n]) \/ log'[n] = r[1]
    BY <1>2, <2>2, <2>3
  <2>6. \A x \in Readers : x # r => reader'[x] = reader[x]
    BY <2>1 DEF PublishEntry, Publish, FlagInv, BridgeInv, ReadersOK
  <2> QED BY <1>1, <2>4, <2>5, <2>6 DEF Started
<1>6. CASE \E r \in Readers : Hook(r)
  <2>1. PICK r \in Readers : Hook(r)
    BY <1>6
  <2>2. log' = log /\ retained' = retained
    BY <2>1 DEF Hook, hub
  <2>3. \A x \in Readers : reader'[x] = reader[x] \/ reader'[x].pc = "idle"
    BY <2>1 DEF Hook, OnAwaiting, FlagInv, BridgeInv, ReadersOK
  <2> QED BY <2>2, <2>3 DEF Started
<1>7. CASE Mutate \/ Rebuilt \/ Consumer \/ (\E w \in Workers : Start(w)) \/ UNCHANGED bridgeHubVars
  BY <1>3, <1>7 DEF Mutate, Rebuilt, AddSessionKey, RemoveSessionKey, SetRedactor, hub, Consumer,
       Start, H!Retain, H!Subscribe, H!Receive, H!Unsubscribe, bridgeHubVars, bridgeVars
<1> QED BY <1>4, <1>5, <1>6, <1>7 DEF BridgeHubNext

\* Each feed stays in order and, while nothing is dropped, complete.
LEMMA FeedsNext ==
  ASSUME FlagInv, FlagInv', Started, Started', FeedsOK, [BridgeHubNext]_bridgeHubVars
  PROVE  FeedsOK'
<1> SUFFICES ASSUME NEW w \in Workers
             PROVE  /\ P!FeedInv' /\ P!Tidy(w)'
                    /\ drops'[w] = 0 => P!AllThere(w)'
  BY DEF FeedsOK
<1>1. P!HubAssumption /\ P!WatchedAssumption
  BY HubAssumed
<1>2. P!FeedInv /\ P!Tidy(w) /\ (drops[w] = 0 => P!AllThere(w))
  BY DEF FeedsOK
<1>3. [P!HubNext]_(P!hubVars)
  BY ComposedHubStep
<1>4. P!FeedInv'
  BY <1>1, <1>2, <1>3, P!FeedInvNext
<1>5. [P!FeedOf(w)!FeedNext]_(P!FeedOf(w)!feedVars)
  BY <1>1, <1>2, <1>3, P!FeedStep
<1>6. P!Tidy(w)'
  BY <1>1, <1>2, <1>5, P!TidyStep
<1>7. ASSUME drops'[w] = 0 PROVE P!AllThere(w)'
  <2>1. CASE w \notin DOMAIN retained'
    BY <2>1 DEF Started, P!AllThere
  <2>2. CASE w \in DOMAIN retained'
    <3>1. drops[w] \in Nat
      BY <1>2 DEF P!FeedInv, P!HubInv, P!HubTypeOK, P!Filters
    <3> QED BY <1>1, <1>2, <1>5, <1>7, <2>2, <3>1, P!AllThereStep
  <2> QED BY <2>1, <2>2
<1> QED BY <1>4, <1>6, <1>7

-----------------------------------------------------------------------------
(* The working indicator *)

Indicator == config.surfaceRunState /\ ~config.surfaceAwaitingHuman

\* Entry n says it is the last of worker w about its run state.
LastStatus(w, n) ==
  /\ entries[n].worker = w /\ entries[n].type = told[w]
  /\ \A m \in n + 1 .. Len(entries) : entries[m].worker = w => entries[m].type \notin Status

\* A status entry is on its way out of the stdout reader of w.
StatusInHand(w) ==
  reader[<<w, "stdout">>].pc = "publish" /\ reader[<<w, "stdout">>].entry.type \in Status

\* What a worker last said of its run is on its way out, or is the last status
\* in the log.
ToldOK ==
  /\ told \in [Workers -> Status \cup {"none"}]
  /\ Indicator => \A w \in Workers : told[w] # "none" =>
       IF StatusInHand(w) THEN reader[<<w, "stdout">>].entry.type = told[w]
       ELSE \E n \in 1..Len(entries) : LastStatus(w, n)

\* With SurfaceRunState the two run states are mapped to status entries, and
\* nothing else is.
LEMMA StatusMapped ==
  ASSUME Indicator, NEW kind \in Kinds, NEW e \in EntryOf("stdout", kind)
  PROVE  IF RunState(kind) # "none" THEN e.type = RunState(kind) ELSE e.type \notin Status
<1>1. \A type, flag : Entry(type, flag).type = type
  BY DEF Entry
<1>2. \A x \in MapExtra : x.type = "extra"
  BY DEF MapExtra, Entry
<1>3. CASE kind \in {"user_input", "model_request"}
  <2>1. e = Entry("working", FALSE) /\ RunState(kind) = "working"
    BY <1>3 DEF EntryOf, MapEvent, Indicator, RunState
  <2> QED BY <1>1, <2>1
<1>4. CASE kind = "awaiting_human"
  <2>1. e = Entry("idle", FALSE) /\ RunState(kind) = "idle"
    BY <1>4 DEF EntryOf, MapEvent, Indicator, RunState
  <2> QED BY <1>1, <2>1
<1>5. CASE kind \notin {"user_input", "model_request", "awaiting_human"}
  <2>1. RunState(kind) = "none"
    BY <1>5 DEF RunState
  <2>2. \/ e \in MapExtra
        \/ \E type \in {"text", "thinking", "tool_call", "usage", "system", "stderr"} :
             e = Entry(type, FALSE)
    BY <1>5 DEF EntryOf, MapEvent
  <2>3. CASE e \in MapExtra
    <3>1. e.type = "extra"
      BY <1>2, <2>3
    <3> QED BY <2>1, <3>1 DEF Status
  <2>4. CASE \E type \in {"text", "thinking", "tool_call", "usage", "system", "stderr"} :
               e = Entry(type, FALSE)
    <3>1. e.type \in {"text", "thinking", "tool_call", "usage", "system", "stderr"}
      BY <1>1, <2>4, ZenonT(60)
    <3> QED BY <2>1, <3>1 DEF Status
  <2> QED BY <2>2, <2>3, <2>4
<1> QED BY <1>3, <1>4, <1>5

\* A step that touches neither the entries, nor what was told, nor a status in
\* hand changes nothing about the indicator.
LEMMA ToldFrame ==
  ASSUME ToldOK, UNCHANGED <<config, entries, told>>,
         \A r \in Readers : \/ reader'[r] = reader[r]
                            \/ reader[r].pc # "publish" /\ reader'[r].pc # "publish"
  PROVE  ToldOK'
<1>1. \A w \in Workers : <<w, "stdout">> \in Readers
  BY DEF Readers
<1>2. \A w \in Workers : StatusInHand(w)' <=> StatusInHand(w)
  BY <1>1 DEF StatusInHand
<1>3. \A w \in Workers : StatusInHand(w) => reader'[<<w, "stdout">>] = reader[<<w, "stdout">>]
  BY <1>1 DEF StatusInHand
<1>4. \A w \in Workers : \A n : LastStatus(w, n)' <=> LastStatus(w, n)
  BY DEF LastStatus
<1> QED BY <1>2, <1>3, <1>4 DEF ToldOK, Indicator

\* A line that reports a run state leaves a status entry in hand; another line
\* leaves none, and the log's last status stays the word of the worker.
LEMMA ToldLine ==
  ASSUME FlagInv, ToldOK, NEW r \in Readers, NEW kind \in Heard, Line(r, kind)
  PROVE  ToldOK'
<1>1. kind \in Kinds
  BY BridgeHubAssumption
<1>2. entries' = entries /\ config' = config /\ reader[r].pc = "idle"
  BY DEF Line, BridgeLine
<1>3. PICK e \in EntryOf(r[2], kind), v \in [pc : {"publish"}, entry : EntryType] :
        v.entry.type = e.type /\ reader' = [reader EXCEPT ![r] = v]
  <2>1. BridgeInv'
    BY BridgeNextInv, BridgeLineInv, <1>1 DEF FlagInv, Line
  <2>2. PICK e \in EntryOf(r[2], kind) :
        reader' = [reader EXCEPT ![r] =
            [pc |-> "publish",
             entry |-> Bridged(r, kind, e, Secrets, Secrets)]]
    BY DEF Line, BridgeLine
  <2>5. Bridged(r, kind, e, Secrets, Secrets).type = e.type
    BY <1>1, BridgedEntry DEF FlagInv
  <2>3. reader'[r] \in [pc : {"idle", "publish", "hook"}, entry : EntryType] /\ reader'[r].pc = "publish"
        /\ reader'[r].entry.type = e.type /\ reader' = [reader EXCEPT ![r] = reader'[r]]
    BY <2>1, <2>2, <2>5 DEF FlagInv, BridgeInv, ReadersOK
  <2>4. reader'[r] \in [pc : {"publish"}, entry : EntryType]
    BY <2>3
  <2> QED BY <2>2, <2>3, <2>4
<1>4. reader'[r] = v /\ \A x \in Readers : x # r => reader'[x] = reader[x]
  BY <1>3 DEF FlagInv, BridgeInv, ReadersOK
<1>5. told' = IF r[2] = "stdout" /\ RunState(kind) # "none"
              THEN [told EXCEPT ![r[1]] = RunState(kind)] ELSE told
  BY DEF Line
<1>6. r[1] \in Workers /\ r = <<r[1], r[2]>> /\ RunState(kind) \in Status \cup {"none"}
  BY DEF Readers, RunState, Status
<1>7. told' \in [Workers -> Status \cup {"none"}]
  BY <1>5, <1>6 DEF ToldOK
<1>8. ASSUME Indicator, NEW w \in Workers, told'[w] # "none"
      PROVE  IF StatusInHand(w)' THEN reader'[<<w, "stdout">>].entry.type = told'[w]
             ELSE \E n \in 1..Len(entries) : LastStatus(w, n)'
  <2>1. <<w, "stdout">> \in Readers
    BY DEF Readers
  <2>2. CASE r # <<w, "stdout">>
    <3>1. reader'[<<w, "stdout">>] = reader[<<w, "stdout">>]
      BY <1>4, <2>1, <2>2
    <3>2. told'[w] = told[w]
      BY <1>5, <1>6, <2>2 DEF ToldOK
    <3>3. (StatusInHand(w)' <=> StatusInHand(w)) /\ \A n : LastStatus(w, n)' <=> LastStatus(w, n)
      BY <1>2, <3>1, <3>2 DEF StatusInHand, LastStatus
    <3> QED BY <1>8, <3>1, <3>2, <3>3 DEF ToldOK
  <2>3. CASE r = <<w, "stdout">>
    <3>1. IF RunState(kind) # "none" THEN e.type = RunState(kind) ELSE e.type \notin Status
      BY <1>1, <1>3, <1>8, <2>3, StatusMapped
    <3>2. reader'[<<w, "stdout">>].pc = "publish" /\ reader'[<<w, "stdout">>].entry.type = e.type
      BY <1>3, <1>4, <2>3
    <3>3. CASE RunState(kind) # "none"
      <4>1. told'[w] = RunState(kind) /\ e.type = told'[w]
        BY <1>5, <2>3, <3>1, <3>3 DEF ToldOK
      <4> QED BY <1>6, <3>2, <3>3, <4>1 DEF StatusInHand
    <3>4. CASE RunState(kind) = "none"
      <4>1. told' = told /\ ~StatusInHand(w) /\ ~StatusInHand(w)'
        BY <1>2, <1>5, <2>3, <3>1, <3>2, <3>4 DEF StatusInHand
      <4>2. \A n : LastStatus(w, n)' <=> LastStatus(w, n)
        BY <1>2, <4>1 DEF LastStatus
      <4> QED BY <1>8, <4>1, <4>2 DEF ToldOK
    <3> QED BY <3>3, <3>4
  <2> QED BY <2>2, <2>3
<1> QED BY <1>2, <1>7, <1>8 DEF ToldOK, Indicator

\* A published status becomes the last one in the log; no other entry of the
\* worker is a status.
LEMMA ToldPublish ==
  ASSUME FlagInv, ToldOK, NEW r \in Readers, PublishEntry(r)
  PROVE  ToldOK'
<1> DEFINE e == reader[r].entry
           n == Len(entries) + 1
           rec == [worker |-> r[1], type |-> e.type, awaiting |-> e.awaiting]
<1>1. /\ entries' = Append(entries, rec) /\ config' = config /\ told' = told
      /\ reader[r].pc = "publish"
  BY DEF PublishEntry, Publish
<1>2. rec \in [worker : Workers, type : EntryTypes, awaiting : BOOLEAN] /\ r[1] \in Workers
  BY DEF FlagInv, BridgeInv, ReadersOK, EntryType, Readers
<1>3. /\ Len(entries) \in Nat /\ Len(entries') = n /\ entries'[n] = rec
      /\ \A i \in 1..Len(entries) : entries'[i] = entries[i]
  BY <1>1, <1>2 DEF FlagInv, Logged
<1>4. \A x \in Readers : x # r => reader'[x] = reader[x]
  BY DEF PublishEntry, Publish, FlagInv, BridgeInv, ReadersOK
<1>5. reader'[r].pc # "publish"
  BY DEF PublishEntry, Publish, Hooked, FlagInv, BridgeInv, ReadersOK
<1>6. r[2] = "stderr" => e.type = "stderr"
  BY <1>1 DEF FlagInv, BridgeInv, ReadersOK
<1>7. r = <<r[1], r[2]>> /\ r[2] \in {"stdout", "stderr"}
  BY DEF Readers
<1> HIDE DEF rec, n
<1>8. ASSUME Indicator, NEW w \in Workers, told[w] # "none"
      PROVE  IF StatusInHand(w)' THEN reader'[<<w, "stdout">>].entry.type = told[w]
             ELSE \E x \in 1..Len(entries') : LastStatus(w, x)'
  <2>1. CASE r = <<w, "stdout">> /\ e.type \in Status
    <3>1. e.type = told[w] /\ ~StatusInHand(w)'
      BY <1>1, <1>5, <1>8, <2>1 DEF ToldOK, StatusInHand
    <3>2. entries'[n].worker = w /\ entries'[n].type = told[w]
      BY <1>3, <2>1, <3>1 DEF rec
    <3>3. n \in 1..Len(entries') /\ \A m : m \notin n + 1 .. Len(entries')
      BY <1>3 DEF n
    <3>4. PICK x : x = n
      OBVIOUS
    <3>5. LastStatus(w, x)'
      BY <1>1, <3>2, <3>3, <3>4 DEF LastStatus
    <3> QED BY <3>1, <3>3, <3>4, <3>5
  <2>2. CASE ~(r = <<w, "stdout">> /\ e.type \in Status)
    <3>1. <<w, "stdout">> \in Readers
      BY DEF Readers
    <3>2. CASE StatusInHand(w)
      <4>1. r # <<w, "stdout">>
        BY <2>2, <3>2 DEF StatusInHand
      <4>2. reader'[<<w, "stdout">>] = reader[<<w, "stdout">>]
        BY <1>4, <3>1, <4>1
      <4> QED BY <1>8, <3>2, <4>2 DEF ToldOK, StatusInHand
    <3>3. CASE ~StatusInHand(w)
      <4>1. ~StatusInHand(w)'
        BY <1>4, <1>5, <3>1, <3>3 DEF StatusInHand
      <4>2. PICK x \in 1..Len(entries) : LastStatus(w, x)
        BY <1>8, <3>3 DEF ToldOK
      <4>3. rec.worker = w => rec.type \notin Status
        <5>1. CASE r[2] = "stderr"
          BY <1>6, <5>1 DEF rec, Status
        <5>2. CASE r[2] = "stdout"
          BY <1>7, <2>2, <5>2 DEF rec
        <5> QED BY <1>7, <5>1, <5>2
      <4>4. \A m \in x + 1 .. Len(entries') : m \in x + 1 .. Len(entries) \/ m = n
        BY <1>3 DEF n
      <4>5. \A m \in x + 1 .. Len(entries) : m \in 1..Len(entries)
        BY <1>3
      <4>6. LastStatus(w, x)'
        BY <1>1, <1>3, <4>2, <4>3, <4>4, <4>5 DEF LastStatus
      <4>7. x \in 1..Len(entries')
        BY <1>3 DEF n
      <4> QED BY <4>1, <4>6, <4>7
    <3> QED BY <3>2, <3>3
  <2> QED BY <2>1, <2>2
<1> QED BY <1>1, <1>8 DEF ToldOK, Indicator

\* The invariant of the composition, as seen by the consumers.
ComposedInv == FlagInv /\ Started /\ FeedsOK /\ ToldOK

\* Every step of the composition keeps it.
LEMMA ComposedNext == ComposedInv /\ [BridgeHubNext]_bridgeHubVars => ComposedInv'
<1> SUFFICES ASSUME ComposedInv, [BridgeHubNext]_bridgeHubVars PROVE ComposedInv'
  OBVIOUS
<1>1. FlagInv /\ Started /\ FeedsOK /\ ToldOK
  BY DEF ComposedInv
<1>2. FlagInv'
  BY <1>1, FlagNext
<1>3. Started'
  BY <1>1, <1>2, StartedNext
<1>4. FeedsOK'
  BY <1>1, <1>2, <1>3, FeedsNext
<1>5. ToldOK'
  <2>1. CASE \E r \in Readers, kind \in Heard : Line(r, kind)
    BY <1>1, <2>1, ToldLine
  <2>2. CASE \E r \in Readers : PublishEntry(r)
    BY <1>1, <2>2, ToldPublish
  <2>3. CASE \E r \in Readers : Hook(r)
    <3>1. PICK r \in Readers : Hook(r)
      BY <2>3
    <3>2. UNCHANGED <<config, entries, told>> /\ reader[r].pc = "hook"
          /\ reader' = [reader EXCEPT ![r] = [pc |-> "idle", entry |-> NoEntry]]
      BY <3>1 DEF Hook, OnAwaiting
    <3>3. ASSUME NEW x \in Readers
          PROVE  reader'[x] = reader[x] \/ (reader[x].pc # "publish" /\ reader'[x].pc # "publish")
      BY <1>1, <3>2 DEF FlagInv, BridgeInv, ReadersOK
    <3> QED BY <1>1, <3>2, <3>3, ToldFrame
  <2>4. CASE Mutate \/ Rebuilt \/ Consumer \/ (\E w \in Workers : Start(w))
             \/ UNCHANGED bridgeHubVars
    <3>1. UNCHANGED <<config, entries, told, reader>>
      BY <2>4 DEF Mutate, Rebuilt, AddSessionKey, RemoveSessionKey, SetRedactor, Consumer, Start,
                  bridgeHubVars, bridgeVars
    <3> QED BY <1>1, <3>1, ToldFrame
  <2> QED BY <2>1, <2>2, <2>3, <2>4 DEF BridgeHubNext
<1> QED BY <1>2, <1>3, <1>4, <1>5 DEF ComposedInv

\* Nothing published, nothing told.
LEMMA ComposedInit == BridgeHubInit => ComposedInv
<1> SUFFICES ASSUME BridgeHubInit PROVE ComposedInv
  OBVIOUS
<1>1. FlagInv
  BY FlagInitInv
<1>2. P!HubInit
  BY SameHub DEF BridgeHubInit
<1>3. Started
  BY DEF BridgeHubInit, BridgeInit, Started, H!HubInit
<1>4. FeedsOK
  <2> SUFFICES ASSUME NEW w \in Workers
               PROVE  P!FeedInv /\ P!Tidy(w) /\ P!AllThere(w)
    BY DEF FeedsOK
  <2>1. P!HubAssumption /\ P!WatchedAssumption
    BY HubAssumed
  <2>2. P!FeedInv /\ P!FeedOf(w)!FeedInit
    BY <1>2, <2>1, P!FeedInvInit
  <2>3. log = <<>> /\ P!Pending(w) = <<>> /\ read[w] = <<>>
    BY <2>2 DEF P!FeedOf!FeedInit
  <2> QED BY <2>2, <2>3 DEF P!Tidy, P!KeyQueue, P!Queue, P!Increasing, P!Before, P!AllThere
<1>5. ToldOK
  BY DEF BridgeHubInit, ToldOK
<1> QED BY <1>1, <1>3, <1>4, <1>5 DEF ComposedInv

\* The invariant of the composition holds in every behaviour.
LEMMA ComposedInvariant == BridgeHubSpec => []ComposedInv
BY ComposedInit, ComposedNext, PTL DEF BridgeHubSpec

\* The consumer of a session reads lines of that session's worker only, over any
\* number of connections, whatever key MapExtra put on its entry.
THEOREM ConsumersReadOwnLines == BridgeHubSpec => []OwnLinesOnly
<1>1. ComposedInv => OwnLinesOnly
  BY DEF ComposedInv, FlagInv, Logged, FeedsOK, P!Tidy, P!KeyQueue, P!Queue, OwnLinesOnly
<1> QED BY <1>1, ComposedInvariant, PTL

\* A consumer that has read all that waits for it last read the run state that
\* the worker last reported, unless the hub counted a drop.
THEOREM IndicatorIsCurrent == BridgeHubSpec => []IndicatorCurrent
<1>1. ComposedInv => IndicatorCurrent
  <2> SUFFICES ASSUME ComposedInv, NEW w \in Workers, Indicator,
                      drops[w] = 0, H!Pending(w) = <<>>,
                      reader[<<w, "stdout">>].pc # "publish", told[w] # "none"
               PROVE  \E i \in 1..Len(read[w]) :
                        /\ entries[read[w][i]].type = told[w]
                        /\ \A j \in i + 1 .. Len(read[w]) : entries[read[w][j]].type \notin Status
    BY DEF IndicatorCurrent, Indicator
  <2>1. PICK n \in 1..Len(entries) : LastStatus(w, n)
    BY DEF ComposedInv, ToldOK, StatusInHand
  <2>2. P!Pending(w) = <<>>
    BY SameHub
  <2>3. /\ read[w] \in Seq(Nat) /\ Len(read[w]) \in Nat
        /\ \A i, j \in 1..Len(read[w]) : i < j => read[w][i] < read[w][j]
        /\ \A i \in 1..Len(read[w]) : read[w][i] \in 1..Len(log) /\ log[read[w][i]] = w
    <3>1. P!KeyQueue(read[w], log, w)
      BY DEF ComposedInv, FeedsOK, P!Tidy
    <3>2. PICK q : q = read[w]
      OBVIOUS
    <3>3. P!Queue(q, Len(log)) /\ \A i \in 1..Len(q) : log[q[i]] = w
      BY <3>1, <3>2 DEF P!KeyQueue
    <3>4. q \in Seq(Nat) /\ P!Increasing(q) /\ \A i \in 1..Len(q) : q[i] \in 1..Len(log)
      BY <3>3 DEF P!Queue
    <3>5. \A i, j \in 1..Len(q) : i < j => q[i] < q[j]
      BY <3>4 DEF P!Increasing
    <3>6. Len(q) \in Nat
      BY <3>4
    <3> QED BY <3>2, <3>3, <3>4, <3>5, <3>6, Zenon
  <2>4. Len(entries) = Len(log) /\ Len(log) \in Nat
        /\ \A m \in 1..Len(log) : log[m] = entries[m].worker
    BY DEF ComposedInv, FlagInv, Logged
  <2>5. PICK i \in 1..Len(read[w]) : read[w][i] = n
    BY <2>1, <2>2, <2>4 DEF LastStatus, ComposedInv, FeedsOK, P!AllThere
  <2>6. ASSUME NEW j \in i + 1 .. Len(read[w]) PROVE entries[read[w][j]].type \notin Status
    <3>1. j \in 1..Len(read[w]) /\ i < j
      BY <2>3
    <3>2. n < read[w][j] /\ read[w][j] \in 1..Len(log) /\ log[read[w][j]] = w
      BY <2>3, <2>5, <3>1
    <3>3. read[w][j] \in n + 1 .. Len(entries) /\ entries[read[w][j]].worker = w
      BY <2>4, <3>2
    <3> QED BY <2>1, <3>3 DEF LastStatus
  <2> QED BY <2>1, <2>5, <2>6 DEF LastStatus
<1> QED BY <1>1, ComposedInvariant, PTL
=============================================================================
