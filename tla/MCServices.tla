----------------------------- MODULE MCServices -----------------------------
(***************************************************************************)
(* The small services that share no state, model-checked in one run: the   *)
(* first state chooses one of them (part), the others rest.  Interleaving  *)
(* them would multiply their states and add no behaviour.                  *)
(***************************************************************************)
EXTENDS Debouncer

CONSTANTS Names, Seeded, Loaders, MaxSize, MaxCalls,   \* EmbedderCache
          Waiters, MaxBuilds,                          \* WarmupCoordinator
          HasReranker,                                 \* ModelWarmup
          MaxEvents,                                   \* Watcher
          Extractors, MaxTexts, SubBatch, MaxDocuments \* ProseBackend

VARIABLES part,
          cached, built, loading, caller, calls,
          flight, build, called, thread, loadLock, loads, parked,
          warm, result, validation, boot, recovery, probe, search, stopping,
          timers, current, seen, queued, syncing, stage, changed,
          gliner, loadCount, latched, registered, worker, document, documents, warned, warnings

Cache == INSTANCE EmbedderCache
Coordinator == INSTANCE WarmupCoordinator
Models == INSTANCE ModelWarmup
Watch == INSTANCE Watcher
Prose == INSTANCE ProseBackend

cacheVars == <<cached, built, loading, caller, calls>>
coordVars == <<flight, build, called, thread, loadLock, loads, parked>>
warmupVars == <<warm, result, validation, boot, recovery, probe, search, stopping>>
watchVars == <<timers, current, seen, queued, syncing, stage, changed>>
proseVars == <<gliner, loadCount, latched, registered, worker, document, documents, warned, warnings>>
allVars == <<part, vars, cacheVars, coordVars, warmupVars, watchVars, proseVars>>

ServicesInit == /\ part \in {"debouncer", "cache", "coordinator", "models", "watcher", "prose"}
                /\ Init /\ Cache!Init /\ Coordinator!Init /\ Models!Init /\ Watch!WatchInit /\ Prose!ProseInit

ServicesNext ==
  \/ part = "debouncer" /\ Next /\ UNCHANGED <<part, cacheVars, coordVars, warmupVars, watchVars, proseVars>>
  \/ part = "cache" /\ Cache!Next /\ UNCHANGED <<part, vars, coordVars, warmupVars, watchVars, proseVars>>
  \/ part = "coordinator" /\ Coordinator!Next /\ UNCHANGED <<part, vars, cacheVars, warmupVars, watchVars, proseVars>>
  \/ part = "models" /\ Models!Next /\ UNCHANGED <<part, vars, cacheVars, coordVars, watchVars, proseVars>>
  \/ part = "watcher" /\ Watch!WatchNext /\ UNCHANGED <<part, vars, cacheVars, coordVars, warmupVars, proseVars>>
  \/ part = "prose" /\ Prose!ProseNext /\ UNCHANGED <<part, vars, cacheVars, coordVars, warmupVars, watchVars>>

\* The fairness of each service; only the models have fair steps at rest.
ServicesFairness ==
  /\ \A t \in Tasks : WF_vars(TaskStep(t))
  /\ Cache!Fairness
  /\ Coordinator!Fairness
  /\ Watch!WatchFairness
  /\ Prose!ProseFairness
  /\ WF_allVars(part = "models" /\ Models!FairStep /\ UNCHANGED <<part, vars, cacheVars, coordVars, watchVars, proseVars>>)

ServicesSpec == ServicesInit /\ [][ServicesNext]_allVars /\ ServicesFairness

\* EmbedderCache: a registration is that of a loader at work (RegistrationOwned), the default model
\* stays and the others keep to the cache's size (PinnedAndBounded), a loaded model leaves only to
\* make room (WarmLeavesForRoom), and a load that hangs does not hang its waiters (WaitersAreFreed).
\* ProseBackend: the same of the entity model, which is built once (ProseLoadedOnce), serves whole
\* results only (ProseWhole), reports a failed load once (ProseWarnedOnce) and never begins another
\* after it, while a model that comes late is used (ProseFailureFinal); nobody waits for good (ProseFreed).
LoadsShared ==
  /\ [](Cache!TypeOK /\ Cache!RegistrationOwned /\ Cache!PinnedAndBounded)
  /\ Cache!WarmLeavesForRoom
  /\ Cache!WaitersAreFreed
  /\ [](Prose!ProseTypeOK /\ Prose!ProseLoadedOnce /\ Prose!ProseWhole /\ Prose!ProseWarnedOnce)
  /\ Prose!ProseFailureFinal /\ Prose!ProseFreed

\* WarmupCoordinator: the build that runs is the one that callers join (OneBuildAtATime), the weights
\* are loaded once, also after a time-out (WeightsLoadedOnce), and every call ends (CallersReturn).
WarmupShared ==
  /\ [](Coordinator!TypeOK /\ Coordinator!OneBuildAtATime /\ Coordinator!WeightsLoadedOnce)
  /\ Coordinator!CallersReturn

\* ModelWarmup: GET /ready answers 200 only when the default models are loaded (ReadyMeansServing),
\* and does so once they are (WarmBecomesReady); a search never builds a model (SearchNeverBuilds).
ReadyTrue ==
  /\ [](Models!TypeOK /\ Models!ReadyMeansServing /\ Models!SearchNeverBuilds)
  /\ Models!WarmBecomesReady

\* Watcher: every change of a file is followed by a sync attempt (ChangeIsFollowed), and none runs
\* once stop_all has returned (QuietAfterStop).
ChangesFollowed ==
  /\ [](Watch!WatchTypeOK /\ Watch!QuietAfterStop)
  /\ Watch!ChangeIsFollowed
=============================================================================
