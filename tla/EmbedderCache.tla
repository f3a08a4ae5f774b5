--------------------------- MODULE EmbedderCache ---------------------------
(***************************************************************************)
(* The LRU cache of embedders (embedder_cache.py).  Callers are the        *)
(* coroutines that ask for a model: searches, which use what they get, and *)
(* preloads, which also drop a model whose warm-up failed cold.            *)
(*                                                                         *)
(* No await happens inside a section of the cache's asyncio lock, so each  *)
(* section is one step.  A loader waits outside the lock for the thread    *)
(* that runs make_embedder; it may be cancelled there, and nothing says    *)
(* that the thread ever ends.  A caller keeps the object it was given: the *)
(* field own tells whether that object is still the cached one.            *)
(***************************************************************************)
EXTENDS Naturals, Sequences, FiniteSets, SequencesExt

CONSTANTS Names,      \* the model names callers ask for
          Seeded,     \* the names the cache is created with: pinned
          Loaders,    \* the coroutines
          MaxSize,    \* embedder_cache_size
          MaxCalls    \* bound: calls of get_or_load

VARIABLES cached,     \* _cache: names, least recently used first
          built,      \* names whose cached embedder has its weights
          loading,    \* _loading: the loader that registered each name
          caller,     \* what each coroutine is doing
          calls

cacheVars == <<cached, built, loading, caller, calls>>

Nobody == "nobody"
Rest == [at |-> "idle", name |-> Nobody, kind |-> Nobody, own |-> FALSE]

Kinds == {"search", "preload"}

Init == /\ cached = SetToSeq(Seeded)
        /\ built = {}
        /\ loading = [n \in Names |-> Nobody]
        /\ caller = [c \in Loaders |-> Rest]
        /\ calls = 0

InCache(n) == \E i \in DOMAIN cached : cached[i] = n

\* The name becomes the most recently used.
Touched(n) == Append(SelectSeq(cached, LAMBDA m : m # n), n)
Unpinned(s) == SelectSeq(s, LAMBDA m : m \notin Seeded)

\* What the store drops: the oldest unpinned names over the size limit.
Victims(s) ==
  LET old == Unpinned(s)
      over == IF Len(old) > MaxSize THEN Len(old) - MaxSize ELSE 0
  IN  {old[i] : i \in 1..over}

\* Callers whose model leaves the cache keep their object, now nobody else's.
Orphaned(f, gone) ==
  [c \in Loaders |-> IF f[c].name \in gone THEN [f[c] EXCEPT !.own = FALSE] ELSE f[c]]

(***************************************************************************)
(* get_or_load                                                             *)
(***************************************************************************)
\* One pass of the retry loop: a hit, a wait, or the registration as loader.
Hit(c, n, k) == /\ InCache(n)
                /\ cached' = Touched(n)
                /\ caller' = [caller EXCEPT ![c] = [at |-> "use", name |-> n, kind |-> k, own |-> TRUE]]
                /\ UNCHANGED <<built, loading>>

Join(c, n, k) == /\ ~InCache(n)
                 /\ loading[n] # Nobody
                 /\ caller' = [caller EXCEPT ![c] = [at |-> "wait", name |-> n, kind |-> k, own |-> FALSE]]
                 /\ UNCHANGED <<cached, built, loading>>

Register(c, n, k) == /\ ~InCache(n)
                     /\ loading[n] = Nobody
                     /\ loading' = [loading EXCEPT ![n] = c]
                     /\ caller' = [caller EXCEPT ![c] = [at |-> "load", name |-> n, kind |-> k, own |-> FALSE]]
                     /\ UNCHANGED <<cached, built>>

Pass(c, n, k) == Hit(c, n, k) \/ Join(c, n, k) \/ Register(c, n, k)

GetOrLoad(c, n, k) == /\ caller[c].at = "idle"
                      /\ calls < MaxCalls
                      /\ calls' = calls + 1
                      /\ Pass(c, n, k)

\* A woken waiter goes round the loop again.
Retry(c) == /\ caller[c].at = "woken"
            /\ Pass(c, caller[c].name, caller[c].kind)
            /\ UNCHANGED calls

\* A waiter gives up; it leaves the loader's registration alone.
WaitTimesOut(c) == /\ caller[c].at = "wait"
                   /\ caller' = [caller EXCEPT ![c] = Rest]
                   /\ UNCHANGED <<cached, built, loading, calls>>

\* The finally block of the loader: the registration goes and the waiters wake.
Cleared(n) == [loading EXCEPT ![n] = Nobody]
Woken(f, n) == [c \in Loaders |->
                  IF f[c].at = "wait" /\ f[c].name = n THEN [f[c] EXCEPT !.at = "woken"] ELSE f[c]]

\* make_embedder returned: the new, cold embedder is stored and the oldest evicted.
LoadSucceeds(c) ==
  LET n == caller[c].name
      gone == Victims(Touched(n))
      kept == SelectSeq(Touched(n), LAMBDA m : m \notin gone)
      mine == [caller EXCEPT ![c].at = "use", ![c].own = TRUE]
  IN  /\ caller[c].at = "load"
      /\ cached' = kept
      /\ built' = built \ (gone \cup {n})
      /\ loading' = Cleared(n)
      /\ caller' = Orphaned(Woken(mine, n), gone)
      /\ UNCHANGED calls

LoadFails(c) ==
  LET n == caller[c].name
  IN  /\ caller[c].at = "load"
      /\ loading' = Cleared(n)
      /\ caller' = Woken([caller EXCEPT ![c] = Rest], n)
      /\ UNCHANGED <<cached, built, calls>>

\* Only an exception of the load clears the registration, not a cancel.
CancelKeepsRegistration(c) ==
  /\ caller[c].at \in {"wait", "woken", "load", "use"}
  /\ caller' = [caller EXCEPT ![c] = Rest]
  /\ UNCHANGED <<cached, built, loading, calls>>

\* The caller's task is cancelled at an await: the finally block runs for a loader only.
Cancel(c) ==
  LET n == caller[c].name
      left == [caller EXCEPT ![c] = Rest]
  IN  /\ caller[c].at \in {"wait", "woken", "load", "use"}
      /\ loading' = IF caller[c].at = "load" THEN Cleared(n) ELSE loading
      /\ caller' = IF caller[c].at = "load" THEN Woken(left, n) ELSE left
      /\ UNCHANGED <<cached, built, calls>>

(***************************************************************************)
(* What a caller does with the embedder: the first embed builds the model. *)
(***************************************************************************)
EmbedSucceeds(c) ==
  /\ caller[c].at = "use"
  /\ built' = IF caller[c].own THEN built \cup {caller[c].name} ELSE built
  /\ caller' = [caller EXCEPT ![c] = Rest]
  /\ UNCHANGED <<cached, loading, calls>>

\* The embed raised, with the weights loaded (loaded) or not.  A preload then
\* drops what is cached under the name if that is cold and not pinned.
EmbedFails(c, loaded) ==
  LET n == caller[c].name
      now == IF loaded /\ caller[c].own THEN built \cup {n} ELSE built
      drop == /\ caller[c].kind = "preload"
              /\ InCache(n)
              /\ n \notin now
              /\ n \notin Seeded
      left == [caller EXCEPT ![c] = Rest]
  IN  /\ caller[c].at = "use"
      /\ built' = now
      /\ cached' = IF drop THEN SelectSeq(cached, LAMBDA m : m # n) ELSE cached
      /\ caller' = IF drop THEN Orphaned(left, {n}) ELSE left
      /\ UNCHANGED <<loading, calls>>

Next == \E c \in Loaders :
          \/ \E n \in Names, k \in Kinds : GetOrLoad(c, n, k)
          \/ Retry(c)
          \/ WaitTimesOut(c)
          \/ LoadSucceeds(c)
          \/ LoadFails(c)
          \/ Cancel(c)
          \/ EmbedSucceeds(c)
          \/ \E loaded \in BOOLEAN : EmbedFails(c, loaded)

Spec == Init /\ [][Next]_cacheVars

\* A woken coroutine runs and a timer fires; a load may hang for ever.
Fairness == \A c \in Loaders : WF_cacheVars(Retry(c)) /\ WF_cacheVars(WaitTimesOut(c))

(***************************************************************************)
(* Properties                                                              *)
(***************************************************************************)
\* The types of the state; a name is cached once.
TypeOK == /\ cached \in Seq(Names) /\ IsInjective(cached)
          /\ built \subseteq Names
          /\ loading \in [Names -> Loaders \cup {Nobody}]
          /\ caller \in [Loaders -> [at : {"idle", "wait", "woken", "load", "use"},
                                     name : Names \cup {Nobody},
                                     kind : Kinds \cup {Nobody}, own : BOOLEAN]]
          /\ calls \in 0..MaxCalls

\* A registration is always the one of a loader still at work on that model, and
\* every loader is registered: a cancel, a failure or a timeout poisons nothing,
\* and no model is loaded by two registered loaders at once (get_or_load).
RegistrationOwned ==
  \A c \in Loaders, n \in Names :
    loading[n] = c <=> caller[c].at = "load" /\ caller[c].name = n

\* The default model stays cached whatever is loaded, and the others never
\* outgrow embedder_cache_size (the eviction of get_or_load).
PinnedAndBounded == /\ \A n \in Seeded : InCache(n)
                    /\ Len(Unpinned(cached)) <= MaxSize

\* A model whose weights are in memory leaves the cache only to make room for
\* one that was just loaded; a failed warm-up never throws a warm model away.
WarmLeavesForRoom ==
  [][\A n \in built : InCache(n) /\ ~InCache(n)' =>
       \E m \in Names : ~InCache(m) /\ InCache(m)']_cacheVars

\* A coroutine that waits on another's load stops waiting even if that load never
\* ends: a wedged load fails its callers one by one, it does not hang them.
Waiting(c) == caller[c].at \in {"wait", "woken"}
WaitersAreFreed == \A c \in Loaders : Waiting(c) ~> ~Waiting(c)
=============================================================================
