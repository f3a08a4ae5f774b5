---------------------------- MODULE ProseBackend ----------------------------
(***************************************************************************)
(* The entity model that graph extraction loads when the first prose       *)
(* document asks for it (prose_extraction_backend.py), and what becomes of *)
(* the documents that ask (graph_extractor.py, extract).  The coroutine    *)
(* that registers first loads, in a worker thread that nothing can stop;   *)
(* the others wait.  load() has no await inside its asyncio lock, so one   *)
(* round of it is one step.                                                *)
(***************************************************************************)
EXTENDS Integers, FiniteSetsExt

CONSTANTS Extractors,     \* the coroutines that extract
          MaxTexts,       \* the prose chunks of a document that has any
          SubBatch,       \* GRAPH_NER_SUB_BATCH_SIZE
          MaxDocuments    \* bound; each document loads at most once, so this bounds the threads too

VARIABLES gliner,       \* _model is set
          loadCount,    \* _load_count
          latched,      \* _latched_load_failure: the load that failed, 0: none
          registered,   \* the loader that owns _load_event
          worker,       \* the thread of each load, in the order of their start
          document,     \* what each coroutine does with its document
          documents,    \* how many were begun
          warned,       \* _warned_load_failure
          warnings      \* history: how often each load's failure was logged at WARNING

proseVars == <<gliner, loadCount, latched, registered, worker, document, documents, warned, warnings>>

Nobody == "nobody"
Loads == 1..MaxDocuments
Free == [at |-> "free", texts |-> 0, sent |-> 0, got |-> 0, load |-> 0]
ProseInit ==
  /\ gliner = FALSE /\ loadCount = 0 /\ latched = 0 /\ registered = Nobody
  /\ worker = [k \in Loads |-> "none"] /\ document = [c \in Extractors |-> Free] /\ documents = 0
  /\ warned = 0 /\ warnings = [k \in Loads |-> 0]

With(c, fields) == [document EXCEPT ![c] = fields]
Over(c, at) == With(c, [Free EXCEPT !.at = at])

-----------------------------------------------------------------------------
(* load() *)
\* _ensure_backend: the document goes on without its prose; one failure is logged once.
Unavailable(c, failure) ==
  /\ warned' = failure
  /\ warnings' = IF failure = warned THEN warnings ELSE [warnings EXCEPT ![failure] = @ + 1]
Unused == Min({k \in Loads : worker[k] = "none"})
\* One round: the model is there, its failure is latched, another loads it, or this one does.
Round(c, d) ==
  \/ /\ gliner /\ document' = With(c, [d EXCEPT !.at = "inference"])
     /\ UNCHANGED <<registered, worker, warned, warnings>>
  \/ /\ ~gliner /\ latched # 0 /\ document' = With(c, [d EXCEPT !.at = "degraded"])
     /\ Unavailable(c, latched) /\ UNCHANGED <<registered, worker>>
  \/ /\ ~gliner /\ latched = 0 /\ registered # Nobody /\ document' = With(c, [d EXCEPT !.at = "wait"])
     /\ UNCHANGED <<registered, worker, warned, warnings>>
  \/ /\ ~gliner /\ latched = 0 /\ registered = Nobody
     /\ registered' = c /\ worker' = [worker EXCEPT ![Unused] = "start"]
     /\ document' = With(c, [d EXCEPT !.at = "load", !.load = Unused])
     /\ UNCHANGED <<warned, warnings>>
\* A document without prose chunks asks for no model.
Extract(c, texts) ==
  /\ document[c].at = "free" /\ documents < MaxDocuments /\ documents' = documents + 1
  /\ LET d == [Free EXCEPT !.texts = texts] IN
     IF texts = 0 THEN document' = With(c, [d EXCEPT !.at = "full"]) /\ UNCHANGED <<registered, worker, warned, warnings>>
     ELSE Round(c, d)
  /\ UNCHANGED <<gliner, loadCount, latched>>
Again(c) ==
  /\ document[c].at = "woken" /\ Round(c, document[c])
  /\ UNCHANGED <<gliner, loadCount, latched, documents>>
\* ProseExtractionLoadTimeoutError: says nothing of the load, and touches nothing of it; it may come with the event.
WaitTimesOut(c) ==
  /\ document[c].at \in {"wait", "woken"} /\ document' = Over(c, "degraded")
  /\ UNCHANGED <<gliner, loadCount, latched, registered, worker, documents, warned, warnings>>

\* The finally block of the loader: the registration goes, the waiters wake.
Released(c, at) ==
  /\ registered' = Nobody
  /\ document' = [e \in Extractors |-> IF e = c THEN [document[e] EXCEPT !.at = at, !.load = 0]
                                       ELSE IF document[e].at = "wait" THEN [document[e] EXCEPT !.at = "woken"]
                                       ELSE document[e]]
  /\ UNCHANGED <<gliner, loadCount, worker, documents>>
MyWorker(c) == worker[document[c].load]
LoadSucceeds(c) ==
  /\ document[c].at = "load" /\ MyWorker(c) = "done" /\ Released(c, "inference")
  /\ UNCHANGED <<latched, warned, warnings>>
\* An Exception is latched: that of the thread, or of the time limit, after which the thread runs on.
Latch(c) == /\ Released(c, "degraded") /\ latched' = document[c].load /\ Unavailable(c, document[c].load)
LoadFails(c) == document[c].at = "load" /\ MyWorker(c) = "failed" /\ Latch(c)
LoadTimesOut(c) == document[c].at = "load" /\ Latch(c)
\* Another BaseException is not.
LoadExits(c) ==
  /\ document[c].at = "load" /\ MyWorker(c) = "exited" /\ Released(c, "degraded") /\ Unavailable(c, document[c].load)
  /\ UNCHANGED latched
Cancel(c) ==
  /\ document[c].at \in {"load", "wait", "woken", "inference"}
  /\ IF document[c].at = "load" THEN Released(c, "cancelled")
     ELSE document' = Over(c, "cancelled") /\ UNCHANGED <<gliner, loadCount, registered, worker, documents>>
  /\ UNCHANGED <<latched, warned, warnings>>

-----------------------------------------------------------------------------
(* The thread: _load_sync and load_gliner_model. *)
Becomes(k, state) == worker' = [worker EXCEPT ![k] = state]
LooksFirst(k) ==
  /\ worker[k] = "start" /\ Becomes(k, IF gliner THEN "done" ELSE "lock")
  /\ UNCHANGED <<gliner, loadCount, latched, registered, document, documents, warned, warnings>>
TakesLock(k) ==
  /\ worker[k] = "lock" /\ \A i \in Loads : worker[i] # "builds"
  /\ Becomes(k, IF gliner THEN "done" ELSE "builds")
  /\ UNCHANGED <<gliner, loadCount, latched, registered, document, documents, warned, warnings>>
\* Placed on its device, kept and counted: the thread writes both with the lock held, and no decision reads the count.
Builds(k) ==
  /\ worker[k] = "builds" /\ Becomes(k, "done") /\ gliner' = TRUE /\ loadCount' = loadCount + 1
  /\ UNCHANGED <<latched, registered, document, documents, warned, warnings>>
BuildFails(k, how) ==
  /\ worker[k] = "builds" /\ Becomes(k, how)
  /\ UNCHANGED <<gliner, loadCount, latched, registered, document, documents, warned, warnings>>

-----------------------------------------------------------------------------
(* inference(): the texts go to the model in sub-batches. *)
\* A sub-batch is answered for all of its texts, or (the library's fault) for fewer; only the sum is compared.
Infer(c, answered) ==
  LET d == document[c]
      batch == Min({SubBatch, d.texts - d.sent})
      got == d.got + answered
  IN /\ d.at = "inference" /\ answered <= batch
     /\ document' = With(c, [d EXCEPT !.sent = @ + batch, !.got = got,
                                      !.at = IF d.sent + batch < d.texts THEN @
                                             ELSE IF got = d.texts THEN "full" ELSE "degraded"])
     /\ UNCHANGED <<gliner, loadCount, latched, registered, worker, documents, warned, warnings>>
InferenceFails(c) ==
  /\ document[c].at = "inference" /\ document' = Over(c, "degraded")
  /\ UNCHANGED <<gliner, loadCount, latched, registered, worker, documents, warned, warnings>>
NextDocument(c) ==
  /\ document[c].at \in {"full", "degraded", "cancelled"} /\ document' = With(c, Free)
  /\ UNCHANGED <<gliner, loadCount, latched, registered, worker, documents, warned, warnings>>

ProseNext ==
  \/ \E c \in Extractors :
       \/ \E texts \in {0, MaxTexts} : Extract(c, texts)
       \/ \E answered \in 0..SubBatch : Infer(c, answered)
       \/ Again(c) \/ WaitTimesOut(c) \/ LoadSucceeds(c) \/ LoadFails(c) \/ LoadTimesOut(c) \/ LoadExits(c)
       \/ Cancel(c) \/ InferenceFails(c) \/ NextDocument(c)
  \/ \E k \in Loads :
       LooksFirst(k) \/ TakesLock(k) \/ Builds(k) \/ \E how \in {"failed", "exited"} : BuildFails(k, how)
ProseSpec == ProseInit /\ [][ProseNext]_proseVars

\* Timers fire and woken coroutines run; nothing says that a thread ever ends.
ProseFairness ==
  \A c \in Extractors : WF_proseVars(Again(c)) /\ WF_proseVars(WaitTimesOut(c)) /\ WF_proseVars(LoadTimesOut(c))

-----------------------------------------------------------------------------
\* The types of the state.
ProseTypeOK ==
  /\ gliner \in BOOLEAN /\ loadCount \in Nat /\ latched \in 0..MaxDocuments /\ registered \in Extractors \cup {Nobody}
  /\ worker \in [Loads -> {"none", "start", "lock", "builds", "done", "failed", "exited"}]
  /\ document \in [Extractors -> [at : {"free", "wait", "woken", "load", "inference", "full", "degraded", "cancelled"},
                                  texts : 0..MaxTexts, sent : 0..MaxTexts, got : 0..MaxTexts, load : 0..MaxDocuments]]
  /\ documents \in 0..MaxDocuments /\ warned \in 0..MaxDocuments /\ warnings \in [Loads -> Nat]

\* However many loaders were cancelled or timed out with their threads still at work, the model is built once, and a
\* registration is that of a loader: a waiter never waits for nobody.
ProseLoadedOnce ==
  /\ loadCount = (IF gliner THEN 1 ELSE 0)
  /\ \A c \in Extractors : registered = c <=> document[c].at = "load"
\* A document goes to the model only when there is one, and its result is whole: no answer is given to another chunk.
ProseWhole ==
  \A c \in Extractors :
    /\ document[c].at = "inference" => gliner
    /\ document[c].at = "full" => document[c].got = document[c].texts
\* One failure is one WARNING, whoever meets it and in whatever order.
ProseWarnedOnce == \A k \in Loads : warnings[k] <= 1
\* A latched failure is final for the loading (no load is begun after it), but not for a model whose thread came late:
\* once the model is there, every document that asks gets it.
ProseFailureFinal ==
  [][/\ latched # 0 => latched' = latched /\ \A k \in Loads : worker[k] = "none" => worker'[k] = "none"
     /\ gliner => \A c \in Extractors :
                    /\ document[c].at = "free" => document'[c].at \notin {"wait", "load", "degraded"}
                    /\ document[c].at = "woken" => document'[c].at \notin {"wait", "load"}
    ]_proseVars
\* Whoever loads or waits is done with it at last, also when the thread hangs.
ProseFreed == \A c \in Extractors : document[c].at \in {"load", "wait", "woken"} ~> document[c].at \notin {"load", "wait", "woken"}
=============================================================================
