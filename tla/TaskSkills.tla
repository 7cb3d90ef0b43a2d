----------------------------- MODULE TaskSkills -----------------------------
(***************************************************************************)
(* The task-skills resolver (taskskills/resolver.go): Resolve fetches a    *)
(* pointer from ContextMatrix and clones it once into a directory that     *)
(* worker containers have bound.                                           *)
(*                                                                         *)
(* A call holds r.mu from its first to its last step.  The lock makes the  *)
(* calls of one process take turns; what is left between two calls, or by  *)
(* a process that died, is the directory.  The context of a caller has no  *)
(* influence (Resolve detaches from it), and resolveCtx only makes a step  *)
(* fail, which every step may do anyway.                                   *)
(*                                                                         *)
(* The directory is the number of the last step of the clone it has seen:  *)
(* 0 when it does not exist, 1 when it is made, then one more for each git *)
(* command of gitClone, Whole after the checkout; and the ref cloned.      *)
(***************************************************************************)
EXTENDS Integers, Sequences, FiniteSets

CONSTANTS
  Callers,   \* goroutines that call Resolve, again and again
  Refs,      \* what a pointer may name: commits, branches, or the default branch
  NoRef

ASSUME SkillsAssumption == NoRef \notin Refs /\ "dash" \notin Refs

VARIABLES
  mu,         \* the callers that hold r.mu
  resolved,   \* whether r.resolved is set
  dest,       \* the directory cacheDir/task-skills: [stage, ref]
  call,       \* Callers -> [pc, step, ref]
  given       \* history: Callers -> the ref in the directory its last call returned

skillsVars == <<mu, resolved, dest, call, given>>

\* MkdirAll and the git commands.
Steps == <<"mkdir", "init", "remote add", "fetch", "checkout">>
Whole == Len(Steps)

NoCall == [pc |-> "idle", step |-> 0, ref |-> NoRef]

SkillsInit ==
  /\ mu = {}
  /\ resolved = FALSE
  /\ dest = [stage |-> 0, ref |-> NoRef]
  /\ call = [c \in Callers |-> NoCall]
  /\ given = [c \in Callers |-> NoRef]

-----------------------------------------------------------------------------
(* Resolve *)

Call(c) ==
  /\ call[c].pc \in {"idle", "ok", "error"}
  /\ call' = [call EXCEPT ![c] = [NoCall EXCEPT !.pc = "waiting"]]
  /\ UNCHANGED <<mu, resolved, dest, given>>

Return(c, pc) ==
  /\ mu' = mu \ {c}
  /\ call' = [call EXCEPT ![c] = [NoCall EXCEPT !.pc = pc]]

\* r.mu is taken.  A directory resolved before is returned at once.
CachedOnDisk == dest.stage > 0
Cached == resolved

Lock(c) ==
  /\ call[c].pc = "waiting"
  /\ mu = {}
  /\ \/ /\ Cached
        /\ Return(c, "ok")
        /\ given' = [given EXCEPT ![c] = dest.ref]
     \/ /\ ~Cached
        /\ mu' = {c}
        /\ call' = [call EXCEPT ![c].pc = "fetchPointer"]
        /\ UNCHANGED given
  /\ UNCHANGED <<resolved, dest>>

\* A step of the call that fails ends it; nothing of the failure is cached.
FailLocked(c) ==
  /\ call' = [call EXCEPT ![c] = [NoCall EXCEPT !.pc = "error"]]
  /\ UNCHANGED <<mu, resolved, given>>
Fail(c) ==
  /\ Return(c, "error")
  /\ UNCHANGED <<resolved, given>>

\* The answers of ContextMatrix that parse, and those that Resolve accepts: with a
\* URL and a token, and neither URL nor ref beginning with a dash.
Pointers == [url : {"url", "empty", "dash"}, ref : Refs \cup {"dash"}, token : BOOLEAN]

VettedURL(p) == p.url = "url" /\ p.token
Vetted(p) == p.url = "url" /\ p.ref # "dash" /\ p.token

\* The signed GET fails (transport, redirect or other status, JSON), its answer is
\* refused, or it names the ref to clone.
FetchPointer(c) ==
  /\ call[c].pc = "fetchPointer"
  /\ \/ Fail(c)
     \/ \E p \in Pointers :
          \/ ~Vetted(p) /\ Fail(c)
          \/ /\ Vetted(p)
             /\ call' = [call EXCEPT ![c].pc = "clear", ![c].ref = p.ref]
             /\ UNCHANGED <<mu, resolved, given>>
  /\ UNCHANGED dest

\* os.RemoveAll: the directory is gone or, after an error, gone in part.
Remains == IF dest.stage = 0 THEN {0} ELSE 1..dest.stage

ClearSkipped(c) ==
  /\ call[c].pc = "clear"
  /\ call' = [call EXCEPT ![c].pc = "clone", ![c].step = 1]
  /\ UNCHANGED <<mu, resolved, dest, given>>
Clear(c) ==
  /\ call[c].pc = "clear"
  /\ \/ /\ dest' = [stage |-> 0, ref |-> NoRef]
        /\ call' = [call EXCEPT ![c].pc = "clone", ![c].step = 1]
        /\ UNCHANGED <<mu, resolved, given>>
     \/ /\ \E s \in Remains : dest' = [dest EXCEPT !.stage = s]
        /\ Fail(c)

\* One step of gitClone.  The last one that succeeds sets r.resolved.
CloneStep(c) ==
  LET s == call[c].step
      ref == call[c].ref
  IN
  /\ call[c].pc = "clone"
  /\ \/ /\ s < Whole
        /\ dest' = [stage |-> s, ref |-> ref]
        /\ call' = [call EXCEPT ![c].step = s + 1]
        /\ UNCHANGED <<mu, resolved, given>>
     \/ /\ s = Whole
        /\ dest' = [stage |-> s, ref |-> ref]
        /\ resolved' = TRUE
        /\ given' = [given EXCEPT ![c] = ref]
        /\ Return(c, "ok")
     \/ /\ UNCHANGED dest
        /\ Fail(c)

-----------------------------------------------------------------------------
\* The process dies and is started again; the directory stays as it is.
Restart ==
  /\ mu' = {}
  /\ resolved' = FALSE
  /\ call' = [c \in Callers |-> NoCall]
  /\ given' = [c \in Callers |-> NoRef]
  /\ UNCHANGED dest

Step(c) == FetchPointer(c) \/ Clear(c) \/ CloneStep(c)

SkillsNext ==
  \/ \E c \in Callers : Call(c) \/ Lock(c) \/ Step(c)
  \/ Restart

SkillsSpec == SkillsInit /\ [][SkillsNext]_skillsVars

(***************************************************************************)
(* Fairness.  The GET ends, well or badly: http.Client has a Timeout.  A   *)
(* waiting caller gets the lock if it is free again and again: sync.Mutex  *)
(* hands over to one that has starved for a millisecond.  Nothing is       *)
(* assumed of the file system and of git: RemoveAll and MkdirAll have no   *)
(* deadline, and the one of a git command only kills git, while            *)
(* CombinedOutput also waits for a child of git's that holds the pipe.     *)
(***************************************************************************)
FairSkillsSpec ==
  SkillsSpec /\ \A c \in Callers : WF_skillsVars(FetchPointer(c)) /\ SF_skillsVars(Lock(c))

-----------------------------------------------------------------------------
(* Properties *)

\* Type invariant; in it, that git is never given a ref that begins with a dash.
SkillsTypeOK ==
  /\ mu \subseteq Callers
  /\ resolved \in BOOLEAN
  /\ dest \in [stage : 0..Whole, ref : Refs \cup {NoRef}]
  /\ call \in [Callers -> [pc : {"idle", "waiting", "fetchPointer", "clear", "clone", "ok", "error"},
                           step : 0..Whole, ref : Refs \cup {NoRef}]]
  /\ given \in [Callers -> Refs \cup {NoRef}]

\* A directory that a call has returned stays a complete checkout of the ref it
\* held then for as long as the process lives, whatever other calls do and
\* whatever ContextMatrix names by then: containers have it bound.
CheckoutStable ==
  \A c \in Callers : given[c] # NoRef => dest = [stage |-> Whole, ref |-> given[c]]

\* Each step of a clone finds exactly what the steps before it made, and nothing
\* that an earlier attempt, another caller or a process that died has left ("git
\* remote add" would fail on it, and so would every retry).
CloneStartsClean ==
  \A c \in Callers : call[c].pc = "clone" =>
    /\ dest.stage = call[c].step - 1
    /\ dest.stage > 0 => dest.ref = call[c].ref

\* A call that removes the directory or clones into it, for as long as that takes.
OnDisk(c) == call[c].pc \in {"clear", "clone"}

\* Unless the file system or a git command never comes back to some call, which then
\* has the lock for good, every call of Resolve returns while the process lives: no
\* failure on the way keeps the lock, and no caller is passed over for ever.
CallsReturn ==
  (\A d \in Callers : []<>~OnDisk(d)) =>
    \A c \in Callers : call[c].pc = "waiting" ~> call[c].pc \in {"ok", "error", "idle"}
=============================================================================
