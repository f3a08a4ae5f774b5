---------------------------- MODULE ModelWarmup ----------------------------
(***************************************************************************)
(* The server's own model warm-up (server/warmup.py and the lifespan of    *)
(* server/app.py): the warm-up task, the validation that follows it, the   *)
(* recovery after a failed warm-up, what GET /ready answers, and a search  *)
(* that meets models still being built (services/search_budget.py).        *)
(*                                                                         *)
(* A call of warmup() ends with the model warm or with an error that       *)
(* warmup_models logs; WarmupCoordinator shows that it does end.  A build  *)
(* that outlived its waiters, an ingest or a search may warm a model at    *)
(* any time, and a warm default model stays warm (it is pinned).           *)
(***************************************************************************)
EXTENDS Naturals, Sequences

CONSTANT HasReranker   \* whether reranker_model is configured

VARIABLES warm,        \* the default models whose weights are loaded
          result,      \* app.state.warmup_result
          validation,  \* app.state.model_validation: "none" while unset
          boot,        \* run_model_warmup: what it waits for
          recovery,    \* run_warmup_recovery: what it waits for
          probe,       \* the validations of both tasks
          search,      \* one search request
          stopping     \* shutdown has begun

warmupVars == <<warm, result, validation, boot, recovery, probe, search, stopping>>

Defaults == IF HasReranker THEN {"embedder", "reranker"} ELSE {"embedder"}
DefaultModelsWarm == Defaults \subseteq warm

\* The model after m in the order of warmup_models, or what the caller does next.
After(m, last) == IF m = "embedder" /\ HasReranker THEN "reranker" ELSE last

NoProbe == [at |-> "wait", ok |-> TRUE]
NoSearch == [at |-> "idle", rerank |-> FALSE, ftsOnly |-> FALSE]

Init == /\ warm = {}
        /\ result = "pending"
        /\ validation = "none"
        /\ boot = "embedder"
        /\ recovery = "wait"
        /\ probe = [p \in {"startup", "recovery"} |-> NoProbe]
        /\ search = NoSearch
        /\ stopping = FALSE

\* One warmup() of model m: at once if it is warm, else with or without success.
WarmupCall(m) == \/ warm' = warm \cup {m}
                 \/ m \notin warm /\ UNCHANGED warm

\* A build nobody waits for any more, a search or an ingest warms a model.
LateBuild(m) == /\ m \notin warm
                /\ warm' = warm \cup {m}
                /\ UNCHANGED <<result, validation, boot, recovery, probe, search, stopping>>

(***************************************************************************)
(* run_model_warmup                                                        *)
(***************************************************************************)
BootWarms == /\ boot \in Defaults
             /\ WarmupCall(boot)
             /\ boot' = After(boot, "preload")
             /\ UNCHANGED <<result, validation, recovery, probe, search, stopping>>

\* warmup_models swallows its failures, and nobody looks at the models again.
BootReportsBlindly(failures) ==
  /\ boot = "preload"
  /\ result' = IF failures THEN "failed" ELSE "done"
  /\ boot' = "over"
  /\ UNCHANGED <<warm, validation, recovery, probe, search, stopping>>

\* preload returned; failures says whether one of its models failed.
BootReports(failures) ==
  /\ boot = "preload"
  /\ result' = IF failures \/ ~DefaultModelsWarm THEN "failed" ELSE "done"
  /\ boot' = "over"
  /\ UNCHANGED <<warm, validation, recovery, probe, search, stopping>>

BootTimesOut == /\ boot # "over"
                /\ result' = "failed"
                /\ boot' = "over"
                /\ UNCHANGED <<warm, validation, recovery, probe, search, stopping>>

(***************************************************************************)
(* Model validation: validate_device probes the embedder, then the         *)
(* reranker, each on the serving backend; the result is stored at the end. *)
(***************************************************************************)
Probing(p) == probe[p].at \in Defaults \cup {"report"}

StartValidation == /\ boot = "over"
                   /\ probe["startup"].at = "wait"
                   /\ probe' = [probe EXCEPT !["startup"].at = "embedder"]
                   /\ UNCHANGED <<warm, result, validation, boot, recovery, search, stopping>>

ProbeModel(p) ==
  LET m == probe[p].at
  IN  /\ m \in Defaults
      /\ WarmupCall(m)
      /\ probe' = [probe EXCEPT ![p] = [at |-> After(m, "report"), ok |-> @.ok /\ m \in warm']]
      /\ UNCHANGED <<result, validation, boot, recovery, search, stopping>>

ProbeTimesOut(p) ==
  /\ probe[p].at \in Defaults
  /\ probe' = [probe EXCEPT ![p] = [at |-> "report", ok |-> FALSE]]
  /\ UNCHANGED <<warm, result, validation, boot, recovery, search, stopping>>

StoreValidation(p) ==
  /\ probe[p].at = "report"
  /\ validation' = IF probe[p].ok THEN "ok" ELSE "fail"
  /\ probe' = [probe EXCEPT ![p].at = "over"]
  /\ recovery' = IF p = "recovery" THEN "over" ELSE recovery
  /\ UNCHANGED <<warm, result, boot, search, stopping>>

(***************************************************************************)
(* run_warmup_recovery                                                     *)
(***************************************************************************)
StartRecovery == /\ boot = "over"
                 /\ recovery = "wait"
                 /\ recovery' = IF result = "failed" /\ ~DefaultModelsWarm THEN "sleep" ELSE "over"
                 /\ UNCHANGED <<warm, result, validation, boot, probe, search, stopping>>

\* A backoff delay has passed.
WakeRecovery == /\ recovery = "sleep"
                /\ recovery' = IF DefaultModelsWarm THEN "preload" ELSE "embedder"
                /\ UNCHANGED <<warm, result, validation, boot, probe, search, stopping>>

\* After the retry of the last default model the loop ends or sleeps again.
RecoveryWarms ==
  /\ recovery \in Defaults
  /\ WarmupCall(recovery)
  /\ recovery' = LET next == After(recovery, "sleep")
                 IN  IF next = "sleep" /\ Defaults \subseteq warm' THEN "preload" ELSE next
  /\ UNCHANGED <<result, validation, boot, probe, search, stopping>>

RetryTimesOut ==
  /\ recovery \in Defaults
  /\ recovery' = IF DefaultModelsWarm THEN "preload" ELSE "sleep"
  /\ UNCHANGED <<warm, result, validation, boot, probe, search, stopping>>

\* The collections' own models are loaded again, then the models are validated.
RecoveryReports(failures) ==
  /\ recovery = "preload"
  /\ result' = IF failures THEN result ELSE "done"
  /\ recovery' = "validate"
  /\ probe' = [probe EXCEPT !["recovery"].at = "embedder"]
  /\ UNCHANGED <<warm, validation, boot, search, stopping>>

(***************************************************************************)
(* A search: warmup_for_search waits half a second for each model, then    *)
(* the search embeds its query unless it is FTS-only, and reranks if told. *)
(***************************************************************************)
SearchArrives == /\ search.at = "idle"
                 /\ search' = [NoSearch EXCEPT !.at = "embedder"]
                 /\ UNCHANGED <<warm, result, validation, boot, recovery, probe, stopping>>

\* The wait for the embedder ends: built, failed, or not in time.
SearchWaitsEmbedder == /\ search.at = "embedder"
                       /\ WarmupCall("embedder")
                       /\ search' = [search EXCEPT !.at = "reranker"]
                       /\ UNCHANGED <<result, validation, boot, recovery, probe, stopping>>

SearchWaitsReranker ==
  /\ search.at = "reranker"
  /\ IF HasReranker THEN WarmupCall("reranker") ELSE UNCHANGED warm
  /\ search' = [at |-> "run",
                rerank |-> HasReranker => "reranker" \in warm',
                ftsOnly |-> "embedder" \notin warm']
  /\ UNCHANGED <<result, validation, boot, recovery, probe, stopping>>

SearchEnds == /\ search.at = "run"
              /\ search' = NoSearch
              /\ UNCHANGED <<warm, result, validation, boot, recovery, probe, stopping>>

\* Shutdown cancels the tasks; a cancelled warm-up reports that it failed.
Shutdown == /\ ~stopping
            /\ stopping' = TRUE
            /\ result' = IF boot # "over" THEN "failed" ELSE result
            /\ boot' = "over"
            /\ recovery' = "over"
            /\ probe' = [p \in {"startup", "recovery"} |->
                           IF Probing(p) \/ probe[p].at = "wait" THEN [probe[p] EXCEPT !.at = "cancelled"]
                           ELSE probe[p]]
            /\ UNCHANGED <<warm, validation, search>>

Step == \/ BootWarms \/ \E f \in BOOLEAN : BootReports(f)
        \/ BootTimesOut
        \/ StartValidation \/ StartRecovery \/ WakeRecovery
        \/ \E p \in {"startup", "recovery"} : ProbeModel(p) \/ ProbeTimesOut(p) \/ StoreValidation(p)
        \/ RecoveryWarms \/ RetryTimesOut
        \/ \E f \in BOOLEAN : RecoveryReports(f)
        \/ SearchArrives \/ SearchWaitsEmbedder \/ SearchWaitsReranker \/ SearchEnds

Next == \/ Step
        \/ \E m \in Defaults : LateBuild(m)
        \/ Shutdown

Spec == Init /\ [][Next]_warmupVars

\* The timers of the startup tasks fire and their ready steps run.
FairStep == \/ BootTimesOut
            \/ StartValidation
            \/ ProbeTimesOut("startup")
            \/ StoreValidation("startup")
Fairness == WF_warmupVars(FairStep)

(***************************************************************************)
(* GET /ready, as far as the models decide it                              *)
(***************************************************************************)
ModelsPending == result = "pending" \/ (result = "done" /\ validation = "none")
Ready == ~ModelsPending /\ ~(result = "failed" /\ ~DefaultModelsWarm)

(***************************************************************************)
(* Properties                                                              *)
(***************************************************************************)
\* The types of the state.
TypeOK == /\ warm \subseteq Defaults
          /\ result \in {"pending", "done", "failed"}
          /\ validation \in {"none", "ok", "fail"}
          /\ boot \in Defaults \cup {"preload", "over"}
          /\ recovery \in Defaults \cup {"wait", "sleep", "preload", "validate", "over"}
          /\ probe \in [{"startup", "recovery"} ->
                          [at : Defaults \cup {"wait", "report", "over", "cancelled"}, ok : BOOLEAN]]
          /\ search \in [at : {"idle", "embedder", "reranker", "run"}, rerank : BOOLEAN, ftsOnly : BOOLEAN]
          /\ stopping \in BOOLEAN

\* A server that answers GET /ready with 200 can embed and rank: its default
\* models are loaded, however the warm-up and its recovery ended (routes_ready).
ReadyMeansServing == Ready => DefaultModelsWarm

\* A search is told to embed or to rerank only with a model that is loaded, so it
\* never waits for a build inside its own time budget (warmup_for_search).
SearchNeverBuilds ==
  search.at = "run" => /\ ~search.ftsOnly => "embedder" \in warm
                       /\ search.rerank /\ HasReranker => "reranker" \in warm

\* Once the default models are loaded, by whatever means, the server becomes
\* ready, unless it is shut down first: no outcome of the warm-up, the recovery
\* or the validation leaves GET /ready at 503 for ever.
WarmBecomesReady == DefaultModelsWarm ~> (Ready \/ stopping)
=============================================================================
