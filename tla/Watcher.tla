------------------------------ MODULE Watcher ------------------------------
(***************************************************************************)
(* The file-system watcher of one collection (watcher.py): watchdog's      *)
(* thread restarts a debounce timer at every event, the timer's thread     *)
(* submits a coroutine to the event loop, which runs the sync, and         *)
(* stop_all ends it all.  Timers are numbered in the order of their start. *)
(***************************************************************************)
EXTENDS Naturals

CONSTANT MaxEvents          \* bound: file-system events

VARIABLES timers,     \* timer -> "unset", "set", "cancelled", "fired", "looked", "submitted", "gone"
          current,    \* _DebounceHandler._timer, 0 for None
          seen,       \* timer -> the current_timer its _fire read
          queued,     \* the coroutines that the loop has not started
          syncing,    \* _active_syncs
          stage,      \* "no", "cancelling", "observer", "syncs", "stopped": stop_all
          changed     \* there is a change that no sync attempt has followed yet

watchVars == <<timers, current, seen, queued, syncing, stage, changed>>

Ids == 1..MaxEvents
WatchInit == /\ timers = [k \in Ids |-> "unset"] /\ current = 0 /\ seen = [k \in Ids |-> 0]
             /\ queued = {} /\ syncing = {} /\ stage = "no" /\ changed = FALSE

Set(k, s) == [timers EXCEPT ![k] = s]
\* Timer.cancel has no effect on a timer whose thread runs already.
Cancelled(t) == IF current # 0 /\ t[current] = "set" THEN [t EXCEPT ![current] = "cancelled"] ELSE t

Fresh(k) == \A j \in Ids : timers[j] = "unset" <=> j >= k

EventIfIdle(k) ==
  /\ stage \in {"no", "cancelling", "observer"}
  /\ Fresh(k)
  /\ timers' = Set(k, IF current = 0 THEN "set" ELSE "gone")
  /\ current' = (IF current = 0 THEN k ELSE current) /\ changed' = TRUE
  /\ UNCHANGED <<seen, queued, syncing, stage>>

\* on_any_event; the observer delivers until it is stopped.
Event(k) ==
  /\ stage \in {"no", "cancelling", "observer"}
  /\ Fresh(k)
  /\ timers' = [Cancelled(timers) EXCEPT ![k] = "set"] /\ current' = k /\ changed' = TRUE
  /\ UNCHANGED <<seen, queued, syncing, stage>>

\* The interval passes; _fire runs in a thread of its own, in four steps.
Elapse(k) ==
  /\ timers[k] = "set" /\ timers' = Set(k, "fired")
  /\ UNCHANGED <<current, seen, queued, syncing, stage, changed>>
Look(k) ==
  /\ timers[k] = "fired" /\ timers' = Set(k, "looked") /\ seen' = [seen EXCEPT ![k] = current]
  /\ UNCHANGED <<current, queued, syncing, stage, changed>>
Submit(k) ==
  /\ timers[k] = "looked" /\ timers' = Set(k, "submitted") /\ queued' = queued \cup {k}
  /\ UNCHANGED <<current, seen, syncing, stage, changed>>
Clear(k) ==
  /\ timers[k] = "submitted" /\ timers' = Set(k, "gone")
  /\ current' = IF current = seen[k] THEN 0 ELSE current
  /\ UNCHANGED <<seen, queued, syncing, stage, changed>>

\* _wrapped_callback: nothing starts once stop_all has begun.
StartsSync == stage = "no"
Callback(k) ==
  /\ k \in queued /\ queued' = queued \ {k}
  /\ syncing' = IF StartsSync THEN syncing \cup {k} ELSE syncing
  /\ changed' = (changed /\ ~StartsSync)
  /\ UNCHANGED <<timers, current, seen, stage>>
SyncEnds(k) ==
  /\ k \in syncing /\ syncing' = syncing \ {k}
  /\ UNCHANGED <<timers, current, seen, queued, stage, changed>>

\* stop_all: the flag; each watcher's timer, then its observer; then the syncs,
\* which get ten seconds before they are cancelled.
StopAll ==
  /\ stage = "no" /\ stage' = "cancelling"
  /\ UNCHANGED <<timers, current, seen, queued, syncing, changed>>
CancelAll ==
  /\ stage = "cancelling" /\ stage' = "observer"
  /\ timers' = Cancelled(timers) /\ current' = 0
  /\ UNCHANGED <<seen, queued, syncing, changed>>
StopObserver ==
  /\ stage = "observer" /\ stage' = "syncs"
  /\ UNCHANGED <<timers, current, seen, queued, syncing, changed>>
AwaitSyncs ==
  /\ stage = "syncs" /\ stage' = "stopped" /\ syncing' = {}
  /\ UNCHANGED <<timers, current, seen, queued, changed>>

TimerStep(k) == Elapse(k) \/ Look(k) \/ Submit(k) \/ Clear(k) \/ Callback(k) \/ SyncEnds(k)
WatchNext == \/ \E k \in Ids : Event(k) \/ TimerStep(k)
             \/ StopAll \/ CancelAll \/ StopObserver \/ AwaitSyncs

\* A timer's thread runs, and so does the loop.
WatchFairness == \A k \in Ids : WF_watchVars(TimerStep(k))
WatchSpec == WatchInit /\ [][WatchNext]_watchVars /\ WatchFairness

WatchTypeOK ==
  /\ timers \in [Ids -> {"unset", "set", "cancelled", "fired", "looked", "submitted", "gone"}]
  /\ current \in {0} \cup Ids /\ seen \in [Ids -> {0} \cup Ids]
  /\ queued \subseteq Ids /\ syncing \subseteq Ids /\ changed \in BOOLEAN
  /\ stage \in {"no", "cancelling", "observer", "syncs", "stopped"}

\* Once stop_all has returned no watcher sync runs, although a timer that it
\* could not cancel may still fire: the stores are disconnected next.
QuietAfterStop == stage = "stopped" => syncing = {}

\* Every change is followed by an attempt to sync it, unless the server stops.
ChangeIsFollowed == changed ~> (~changed \/ stage # "no")
=============================================================================
