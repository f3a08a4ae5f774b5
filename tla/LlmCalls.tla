------------------------------ MODULE LlmCalls ------------------------------
(***************************************************************************)
(* The calls to a cloud model or to the claude program.  A call of the     *)
(* graph takes a slot of its limiter (FixedWindowRateLimiter), a cloud     *)
(* call of HyDE or RAG Fusion one of the bucket its generator keeps, any   *)
(* other call none; only a claude call of HyDE or RAG Fusion is retried.   *)
(* A claude call has a working directory and a child process; a call may   *)
(* time out, or be cancelled again and again.  What the child does is      *)
(* external: it may start a descendant, which may hold the output pipes.   *)
(***************************************************************************)
EXTENDS Integers, Sequences

CONSTANTS Callers,
          Capacity,    \* extraction_rate_limit_rpm, max_requests_per_minute
          Window,      \* RATE_LIMIT_WINDOW_SECONDS, _RATE_BUCKET_WINDOW_SECONDS
          HasProcessGroups,    \* _HAS_PROCESS_GROUPS: a POSIX host
          LastTime, MaxCalls, MaxSpawns   \* bounds on time, on calls and on processes

Features == {"graph", "search", "description"}   \* search: HyDE, RAG Fusion
Buckets == {"graph", "search"}

VARIABLES now,
          limiter,   \* each bucket's slots left, and the end of its window
          grants,    \* history: the times at which a slot of the bucket was taken
          caller,    \* each caller's call: its place, feature, attempt, process, exit status and result
          workdir,   \* the callers whose working directory exists
          alive,     \* processes: <<the spawn it comes from, "child" | "holder" | "loose">>; a holder has the pipes open
          begun, spawned   \* calls begun, processes started

callVars == <<now, limiter, grants, caller, workdir, alive, begun, spawned>>

NotCalling == [at |-> "off", feature |-> "graph", attempt |-> 0, process |-> 0, exit |-> 0, result |-> "none"]
FullBucket == [left |-> Capacity, ends |-> now + Window]
CallInit ==
  /\ now = 0 /\ limiter = [b \in Buckets |-> FullBucket] /\ grants = [b \in Buckets |-> <<>>]
  /\ caller = [c \in Callers |-> NotCalling] /\ workdir = {} /\ alive = {} /\ begun = 0 /\ spawned = 0

At(c, at) == caller[c].at = at
Tick == now < LastTime /\ now' = now + 1 /\ UNCHANGED <<limiter, grants, caller, workdir, alive, begun, spawned>>
Ended(c, result) ==
  caller' = [caller EXCEPT ![c] = [NotCalling EXCEPT !.at = "ended", !.process = caller[c].process, !.result = result]]
Group(c) == {p \in alive : p[1] = caller[c].process}

-----------------------------------------------------------------------------
(* The slot. *)
Bucket(feature, provider) == IF feature = "graph" THEN "graph" ELSE
                             IF feature = "search" /\ provider = "cloud" THEN "search" ELSE "none"
WindowOver(b) == now >= limiter[b].ends
\* Mutant: windows on a fixed grid.
OnGrid(b) == limiter[b].ends + Window
NextEnd(b) == now + Window
Turned(b) == IF WindowOver(b) THEN [left |-> Capacity, ends |-> NextEnd(b)] ELSE limiter[b]
Acquire(b) ==
  IF Turned(b).left <= 0 THEN limiter' = [limiter EXCEPT ![b] = Turned(b)] /\ UNCHANGED grants
  ELSE /\ limiter' = [limiter EXCEPT ![b] = [Turned(b) EXCEPT !.left = @ - 1]]
       /\ grants' = [grants EXCEPT ![b] = Append(@, now)]
\* A client that is not usable (no program on PATH, no API key, no package) fails before it takes the graph's slot; a
\* generator takes its slot before it asks the client.  A bucket without a slot fails the call at once.
Call(c, feature, provider, usable) ==
  LET b == Bucket(feature, provider)
      asksFirst == usable \/ b = "search"
      refused == asksFirst /\ b # "none" /\ Turned(b).left <= 0
      new == [NotCalling EXCEPT !.feature = feature]
  IN /\ caller[c].at \in {"off", "ended"} /\ begun < MaxCalls /\ begun' = begun + 1
     /\ IF asksFirst /\ b # "none" THEN Acquire(b) ELSE UNCHANGED <<limiter, grants>>
     /\ caller' = [caller EXCEPT ![c] =
          IF refused THEN [new EXCEPT !.at = "ended", !.result = "refused"]
          ELSE IF usable THEN [new EXCEPT !.at = provider, !.attempt = 1]
          ELSE [new EXCEPT !.at = "ended", !.result = "failed"]]
     /\ UNCHANGED <<now, workdir, alive, spawned>>

\* AnthropicClient.call, after the slot: an answer; an error or the time limit; a cancel.
CloudAnswers(c, result) ==
  /\ At(c, "cloud") /\ Ended(c, result) /\ UNCHANGED <<now, limiter, grants, workdir, alive, begun, spawned>>

-----------------------------------------------------------------------------
(* ClaudeCliClient.call and _run_once. *)
Attempts(c) == IF caller[c].feature = "search" THEN 2 ELSE 1
MakeWorkdir(c) ==
  /\ At(c, "claude") /\ workdir' = workdir \cup {c} /\ caller' = [caller EXCEPT ![c].at = "spawn"]
  /\ UNCHANGED <<now, limiter, grants, alive, begun, spawned>>
NoWorkdir(c) ==
  /\ At(c, "claude") /\ Ended(c, "failed") /\ UNCHANGED <<now, limiter, grants, workdir, alive, begun, spawned>>
Spawn(c) ==
  /\ At(c, "spawn") /\ spawned < MaxSpawns /\ spawned' = spawned + 1 /\ alive' = alive \cup {<<spawned + 1, "child">>}
  /\ caller' = [caller EXCEPT ![c].at = "talk", ![c].process = spawned + 1]
  /\ UNCHANGED <<now, limiter, grants, workdir, begun>>
\* The program does not start, or the call is cancelled before it did.
NoSpawn(c, result) ==
  /\ At(c, "spawn") /\ workdir' = workdir \ {c} /\ Ended(c, result)
  /\ UNCHANGED <<now, limiter, grants, alive, begun, spawned>>
\* External: what the child and its descendant do.
Child(c) == <<caller[c].process, "child">>
Holder(c) == <<caller[c].process, "holder">>
Fork(c) ==
  /\ At(c, "talk") /\ Child(c) \in alive /\ alive' = alive \cup {Holder(c)}
  /\ UNCHANGED <<now, limiter, grants, caller, workdir, begun, spawned>>
Exit(c, status) ==
  /\ At(c, "talk") /\ Child(c) \in alive
  /\ alive' = alive \ {Child(c)} /\ caller' = [caller EXCEPT ![c].exit = status]
  /\ UNCHANGED <<now, limiter, grants, workdir, begun, spawned>>
LetGo(c, loose) ==
  /\ Holder(c) \in alive
  /\ alive' = (alive \ {Holder(c)}) \cup {<<caller[c].process, k>> : k \in loose}
  /\ UNCHANGED <<now, limiter, grants, caller, workdir, begun, spawned>>
\* communicate returns once the child is reaped and nobody holds the pipes.
Talked(c) ==
  /\ At(c, "talk") /\ \A p \in Group(c) : p[2] = "loose"
  /\ workdir' = workdir \ {c}
  /\ IF caller[c].exit = 0 THEN Ended(c, "answered")
     ELSE IF caller[c].attempt < Attempts(c) THEN caller' = [caller EXCEPT ![c].at = "backoff"]
     ELSE Ended(c, "failed")
  /\ UNCHANGED <<now, limiter, grants, alive, begun, spawned>>
Again(c) ==
  /\ At(c, "backoff") /\ caller' = [caller EXCEPT ![c].at = "claude", ![c].attempt = @ + 1, ![c].exit = 0]
  /\ UNCHANGED <<now, limiter, grants, workdir, alive, begun, spawned>>
CancelBackoff(c) ==
  /\ At(c, "backoff") /\ Ended(c, "cancelled") /\ UNCHANGED <<now, limiter, grants, workdir, alive, begun, spawned>>
\* _kill_process_tree: the child leads its own process group, where there are groups.
Killed(c) == IF HasProcessGroups THEN Group(c) ELSE {Child(c)}
\* The time limit, or a cancel, ends communicate early.
LeaveEarly(c) ==
  /\ At(c, "talk") /\ alive' = alive \ Killed(c) /\ caller' = [caller EXCEPT ![c].at = "reap"]
  /\ UNCHANGED <<now, limiter, grants, workdir, begun, spawned>>
\* process.wait() returns, or a second cancel ends it: the working directory goes either way.
Reaped(c) ==
  /\ At(c, "reap") /\ workdir' = workdir \ {c} /\ Ended(c, "leftEarly")
  /\ UNCHANGED <<now, limiter, grants, alive, begun, spawned>>

CallNext ==
  \/ Tick
  \/ \E c \in Callers :
       \/ MakeWorkdir(c) \/ NoWorkdir(c) \/ Spawn(c) \/ Fork(c) \/ Talked(c) \/ Again(c) \/ CancelBackoff(c)
       \/ LeaveEarly(c) \/ Reaped(c)
       \/ \E feature \in Features, provider \in {"claude", "cloud"}, usable \in BOOLEAN :
            Call(c, feature, provider, usable)
       \/ \E result \in {"answered", "failed", "cancelled"} : CloudAnswers(c, result)
       \/ \E result \in {"failed", "cancelled"} : NoSpawn(c, result)
       \/ \E status \in {0, 1} : Exit(c, status)
       \/ \E loose \in {{}, {"loose"}} : LetGo(c, loose)
CallSpec == CallInit /\ [][CallNext]_callVars

-----------------------------------------------------------------------------
\* The types of the calls' state.
CallTypeOK ==
  /\ now \in 0..LastTime /\ grants \in [Buckets -> Seq(0..LastTime)]
  /\ \A b \in Buckets : limiter[b].left \in 0..Capacity /\ limiter[b].ends \in Nat
  /\ \A c \in Callers :
       /\ caller[c].at \in {"off", "claude", "cloud", "spawn", "talk", "backoff", "reap", "ended"}
       /\ caller[c].feature \in Features /\ caller[c].attempt \in 0..2 /\ caller[c].process \in 0..spawned
       /\ caller[c].result \in {"none", "refused", "failed", "answered", "cancelled", "leftEarly"}
  /\ workdir \subseteq Callers /\ alive \subseteq (1..spawned) \X {"child", "holder", "loose"}
  /\ begun \in 0..MaxCalls /\ spawned \in 0..MaxSpawns

\* Two windows may meet in a burst, but never more: no window's length holds more than two windows' slots, also after
\* a long idle time.
RateHeld ==
  \A b \in Buckets : \A i \in 1..Len(grants[b]) :
    i + 2 * Capacity <= Len(grants[b]) => grants[b][i + 2 * Capacity] - grants[b][i] >= Window
\* A call is refused only when all the slots of less than one window's length were really taken.
RefusedForCause ==
  [][begun' # begun => \A c \in Callers, feature \in Features, provider \in {"claude", "cloud"}, usable \in BOOLEAN :
       (Call(c, feature, provider, usable) /\ caller'[c].result = "refused") =>
         LET taken == grants[Bucket(feature, provider)]
         IN Len(taken) >= Capacity /\ now - taken[Len(taken) - Capacity + 1] < Window]_callVars
\* A call that is over left no working directory, and one that was left early (a time limit, a cancel) left no process
\* of the attempt it was in, not even a descendant that outlived its parent and holds the pipes (without process groups
\* not the child).
NothingRuns ==
  \A c \in Callers : At(c, "ended") =>
    /\ c \notin workdir
    /\ caller[c].result = "leftEarly" => Child(c) \notin alive /\ (HasProcessGroups => Group(c) = {})
=============================================================================
