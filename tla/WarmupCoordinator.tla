------------------------- MODULE WarmupCoordinator -------------------------
(***************************************************************************)
(* The single-flight warm-up of one lazily loaded model                    *)
(* (warmup_coordinator.py) over the backend that loads it                  *)
(* (ModelEmbedder._load and ModelReranker._load).                          *)
(*                                                                         *)
(* A build is a task with a worker thread of its own.  The task ends when  *)
(* its thread does or when the ceiling of WARMUP_TIMEOUT_SECONDS passes;   *)
(* the thread cannot be stopped and runs on.  The done callback of a task  *)
(* runs some time after the task ended.                                    *)
(***************************************************************************)
EXTENDS Naturals, FiniteSets

CONSTANTS Waiters,    \* the coroutines that call warmup()
          MaxBuilds   \* bound: builds that are started

VARIABLES flight,     \* _task: the build that callers join, 0 for none
          build,      \* how far each build is
          called,     \* builds whose done callback has run
          thread,     \* how far the worker thread of each build is
          loadLock,   \* the backend's _lock: the build whose thread holds it
          loads,      \* how often the weights were loaded
          parked      \* the build each caller waits for, 0 for none

coordVars == <<flight, build, called, thread, loadLock, loads, parked>>

Builds == 1..MaxBuilds
Ended == {"ok", "failed", "ceiling"}

Init == /\ flight = 0
        /\ build = [b \in Builds |-> "unused"]
        /\ called = {}
        /\ thread = [b \in Builds |-> "none"]
        /\ loadLock = 0
        /\ loads = 0
        /\ parked = [c \in Waiters |-> 0]

\* The backend's is_warm: the weights are in memory.
IsWarm == loads > 0

\* A caller joins the build in flight, or starts one if there is none or it is done.
JoinBuild(c) == /\ flight # 0
                /\ build[flight] = "running"
                /\ parked' = [parked EXCEPT ![c] = flight]
                /\ UNCHANGED <<flight, build, thread>>

StartBuild(c) == /\ flight # 0 => build[flight] \in Ended
                 /\ \E b \in Builds :
                      /\ build[b] = "unused"
                      /\ \A a \in Builds : a < b => build[a] # "unused"
                      /\ flight' = b
                      /\ build' = [build EXCEPT ![b] = "running"]
                      /\ thread' = [thread EXCEPT ![b] = "entered"]
                      /\ parked' = [parked EXCEPT ![c] = b]

Warmup(c) == /\ parked[c] = 0
             /\ ~IsWarm
             /\ JoinBuild(c) \/ StartBuild(c)
             /\ UNCHANGED <<called, loadLock, loads>>

\* The caller's own wait ends first: shield keeps the build running.
GiveUp(c) == /\ parked[c] # 0
             /\ parked' = [parked EXCEPT ![c] = 0]
             /\ UNCHANGED <<flight, build, called, thread, loadLock, loads>>

\* The build ended: the caller gets its outcome.
Return(c) == /\ parked[c] # 0
             /\ build[parked[c]] \in Ended
             /\ parked' = [parked EXCEPT ![c] = 0]
             /\ UNCHANGED <<flight, build, called, thread, loadLock, loads>>

(***************************************************************************)
(* _load: the unlocked check, the lock, the check under the lock, the load *)
(***************************************************************************)
FirstCheck(b) == /\ thread[b] = "entered"
                 /\ thread' = [thread EXCEPT ![b] = IF IsWarm THEN "over" ELSE "locking"]
                 /\ UNCHANGED <<flight, build, called, loadLock, loads, parked>>

TakeLock(b) == /\ thread[b] = "locking"
               /\ loadLock = 0
               /\ loadLock' = b
               /\ thread' = [thread EXCEPT ![b] = "locked"]
               /\ UNCHANGED <<flight, build, called, loads, parked>>

SecondCheck(b) == /\ thread[b] = "locked"
                  /\ IF IsWarm
                     THEN /\ loadLock' = 0
                          /\ thread' = [thread EXCEPT ![b] = "over"]
                     ELSE /\ thread' = [thread EXCEPT ![b] = "loading"]
                          /\ UNCHANGED loadLock
                  /\ UNCHANGED <<flight, build, called, loads, parked>>

LoadEnds(b, ok) == /\ thread[b] = "loading"
                   /\ loadLock' = 0
                   /\ loads' = IF ok THEN loads + 1 ELSE loads
                   /\ thread' = [thread EXCEPT ![b] = IF ok THEN "over" ELSE "raised"]
                   /\ UNCHANGED <<flight, build, called, parked>>

(***************************************************************************)
(* _run_build and _on_build_done                                           *)
(***************************************************************************)
BuildEnds(b) == /\ build[b] = "running"
                /\ thread[b] \in {"over", "raised"}
                /\ build' = [build EXCEPT ![b] = IF thread[b] = "over" THEN "ok" ELSE "failed"]
                /\ UNCHANGED <<flight, called, thread, loadLock, loads, parked>>

CeilingPasses(b) == /\ build[b] = "running"
                    /\ thread[b] \notin {"over", "raised"}
                    /\ build' = [build EXCEPT ![b] = "ceiling"]
                    /\ UNCHANGED <<flight, called, thread, loadLock, loads, parked>>

\* The callback clears whatever task is current.
OnBuildDoneClearsAny(b) == /\ build[b] \in Ended
                           /\ b \notin called
                           /\ called' = called \cup {b}
                           /\ flight' = 0
                           /\ UNCHANGED <<build, thread, loadLock, loads, parked>>

\* The callback clears the task only if it is still the current one.
OnBuildDone(b) == /\ build[b] \in Ended
                  /\ b \notin called
                  /\ called' = called \cup {b}
                  /\ flight' = IF flight = b THEN 0 ELSE flight
                  /\ UNCHANGED <<build, thread, loadLock, loads, parked>>

Next == \/ \E c \in Waiters : Warmup(c) \/ GiveUp(c) \/ Return(c)
        \/ \E b \in Builds :
             \/ FirstCheck(b) \/ TakeLock(b) \/ SecondCheck(b)
             \/ \E ok \in BOOLEAN : LoadEnds(b, ok)
             \/ BuildEnds(b) \/ CeilingPasses(b) \/ OnBuildDone(b)

Spec == Init /\ [][Next]_coordVars

\* Timers fire and ready coroutines run; a thread may hang for ever.
Fairness == /\ \A b \in Builds : WF_coordVars(CeilingPasses(b)) /\ WF_coordVars(BuildEnds(b))
            /\ \A c \in Waiters : WF_coordVars(Return(c))

(***************************************************************************)
(* Properties                                                              *)
(***************************************************************************)
\* The types of the state.
TypeOK == /\ flight \in 0..MaxBuilds
          /\ build \in [Builds -> {"unused", "running"} \cup Ended]
          /\ called \subseteq Builds
          /\ thread \in [Builds -> {"none", "entered", "locking", "locked", "loading", "over", "raised"}]
          /\ loadLock \in 0..MaxBuilds
          /\ loads \in Nat
          /\ parked \in [Waiters -> 0..MaxBuilds]

\* One build runs at a time, and it is the one that new callers join, even when
\* the done callback of an earlier build runs late (_on_build_done, warmup).
OneBuildAtATime == \A b \in Builds : build[b] = "running" => flight = b

\* The weights are loaded at most once, although a build that outran its ceiling
\* leaves a thread behind that races the next build's thread (_load).
WeightsLoadedOnce ==
  /\ loads <= 1
  /\ Cardinality({b \in Builds : thread[b] = "loading"}) <= 1

\* Every call of warmup() ends, even when the load hangs for ever.
CallersReturn == \A c \in Waiters : parked[c] # 0 ~> parked[c] = 0
=============================================================================
