---------------------------- MODULE SearchFanOut ----------------------------
(***************************************************************************)
(* One request over several collections: the fan-out of POST /search and   *)
(* of the MCP tool search (pipeline.search_many), of POST /explain, and    *)
(* the catch-all model of the OpenAI shim (server/routes_openai_shim.py),  *)
(* while collections are dropped under it.  A chunk is its collection and  *)
(* its rank there; the reranker prefers high ranks.  A scope filter acts   *)
(* as the glob does, without a graph mode.                                 *)
(***************************************************************************)
EXTENDS Integers, FiniteSets

CONSTANTS Collections, Ranks,
          GlobRanks,             \* the ranks of the chunks that a glob admits
          LegTrim, FanOutPage, MaxFanout,
          Depth                  \* candidate_depth: the rows that each leg of a search reads (the code reads more with a glob)

VARIABLES tables,    \* the collections that exist
          foreign,   \* those whose embedding model is not the global one
          hiddenSet, \* the chunks whose acl shuts the caller out
          ask, flow, leg, reply

fanVars == <<tables, foreign, hiddenSet, ask, flow, leg, reply>>

AllChunks == Collections \X Ranks
NoReply == [class |-> "none", results |-> {}, excluded |-> {}, attempted |-> FALSE, applied |-> FALSE, expanded |-> FALSE]
NoFlow == [at |-> "arrived", scope |-> {}, excluded |-> {}, attempted |-> FALSE, applied |-> FALSE,
           expanded |-> FALSE, rows |-> {}]
NoLeg == [state |-> "none", rows |-> {}, there |-> FALSE]     \* there: history, its table was there when it was searched

FailedLeg == [NoLeg EXCEPT !.state = "failed"]

Asks ==
  {r \in [kind : {"search", "explain", "chat"}, names : SUBSET Collections, mode : {"none", "naive", "local", "global"},
          fusion : BOOLEAN, glob : BOOLEAN, rerank : BOOLEAN, fts : BOOLEAN] :
     /\ r.kind = "chat" <=> r.names = {}                               \* the shim names them itself
     /\ r.kind # "search" => r.mode = "none" /\ ~r.fusion /\ ~r.glob
     /\ r.kind = "explain" => r.rerank /\ ~r.fts
     /\ r.fts => r.mode = "none" /\ ~r.fusion}                         \* fts_only drops whatever embeds

FanInit ==
  /\ tables \in SUBSET Collections /\ foreign \in SUBSET Collections /\ hiddenSet \in SUBSET AllChunks
  /\ ask \in Asks
  /\ flow = NoFlow /\ leg = [c \in Collections |-> NoLeg] /\ reply = NoReply

DropCollection(c) ==
  /\ reply = NoReply /\ c \in tables /\ tables' = tables \ {c}
  /\ UNCHANGED <<foreign, hiddenSet, ask, flow, leg, reply>>

-----------------------------------------------------------------------------
Step(f) == flow' = f /\ UNCHANGED <<tables, foreign, hiddenSet, ask, leg, reply>>
StillRunning == leg
\* Whatever ends the request cancels the legs that still run.
Cancelled == [c \in Collections |-> IF leg[c].state = "running" THEN NoLeg ELSE leg[c]]
End(r) == /\ reply' = r /\ leg' = Cancelled /\ flow' = [flow EXCEPT !.at = "done"]
          /\ UNCHANGED <<tables, foreign, hiddenSet, ask>>
Refuse(class) == End([NoReply EXCEPT !.class = class])
Answer(S) == End([class |-> "ok", results |-> S, excluded |-> flow.excluded, attempted |-> flow.attempted,
                  applied |-> flow.applied, expanded |-> flow.expanded])

Best(S, n) == {c \in S : Cardinality({d \in S : d[2] < c[2] \/ (d[2] = c[2] /\ d[1] < c[1])}) < n}
Reranked(S, n) == {c \in S : Cardinality({d \in S : d[2] > c[2] \/ (d[2] = c[2] /\ d[1] < c[1])}) < n}
Of(c) == {c} \X Ranks
\* A read of a table that was dropped finds nothing and is no failure.
Read(c) == IF c \in tables THEN Of(c) ELSE {}
Nearest(c) == {S \in SUBSET Read(c) : Cardinality(S) = IF Cardinality(Read(c)) < Depth THEN Cardinality(Read(c)) ELSE Depth}
Texts(c) == {S \in SUBSET Read(c) : Cardinality(S) <= Depth}
\* What one search of a collection finds, and what those of several vectors do; a degraded one has no vector.
Hybrid(c) == IF ask.fts THEN Texts(c) ELSE {S \in SUBSET Read(c) : \E near \in Nearest(c), match \in Texts(c) : S = near \cup match}
Fused(c) == {S \in SUBSET Read(c) : \E near \in Nearest(c) : near \subseteq S}
Globbed(S) == IF ask.glob THEN {r \in S : r[2] \in GlobRanks} ELSE S
Trim == IF LegTrim > 1 THEN LegTrim ELSE 1
Trimmed(S) == Best(S, Trim)
Visible(S) == S \ hiddenSet                                     \* apply_acl_filter

\* chat_completions: every collection of the namespace, up to max_fanout.
NameAll ==
  /\ flow.at = "arrived" /\ ask.kind = "chat"
  /\ \/ Refuse("failed")
     \/ tables = {} /\ Refuse("not_found")
     \/ \E names \in (SUBSET tables) \ {{}} :
          /\ Cardinality(names) = (IF Cardinality(tables) > MaxFanout THEN MaxFanout ELSE Cardinality(tables))
          /\ flow' = [flow EXCEPT !.at = "lookup"] /\ ask' = [ask EXCEPT !.names = names]
          /\ UNCHANGED <<tables, foreign, hiddenSet, leg, reply>>

\* explain embeds before it looks the collections up.
Arrive ==
  /\ flow.at = "arrived" /\ ask.kind # "chat"
  /\ \/ Step([flow EXCEPT !.at = "lookup"])
     \/ ask.kind = "explain" /\ Refuse("failed")

\* Step 1: any missing name is a 404 for a search; for an explain, only all of them.
Missing == ask.names \ tables
AnyMissing == Missing # {}
IsMissing == IF ask.kind = "explain" THEN ask.names \cap tables = {} ELSE AnyMissing
Excluded == {<<c, "model">> : c \in (ask.names \cap foreign) \ Missing} \cup {<<c, "not_found">> : c \in Missing}
Usable == ask.names \ (foreign \cup Missing)
LookUp ==
  /\ flow.at = "lookup"
  /\ \/ Refuse("unavailable")
     \/ IsMissing /\ Refuse("not_found")
     \/ ~IsMissing /\ Usable = {} /\ End([NoReply EXCEPT !.class = "ok", !.excluded = Excluded])
     \/ ~IsMissing /\ Usable # {} /\
        Step([flow EXCEPT !.scope = Usable, !.excluded = Excluded,
                          !.at = IF ask.fusion THEN "fusion" ELSE IF ask.mode = "none" THEN "embed" ELSE ask.mode])

-----------------------------------------------------------------------------
\* RAG Fusion: the variants' vectors, or the single query; then one collection after the other.
Variants ==
  /\ flow.at = "fusion"
  /\ \E at \in {"embed", "fusing"} : Step([flow EXCEPT !.at = at, !.attempted = TRUE])
FuseLeg(c) ==
  /\ flow.at = "fusing" /\ c \in flow.scope /\ leg[c].state = "none"
  /\ \/ Refuse("failed")                                      \* no vector index, and its one search fails
     \/ /\ \E applied \in BOOLEAN : flow' = [flow EXCEPT !.applied = @ \/ applied]
        /\ \E found \in Fused(c) :
             leg' = [leg EXCEPT ![c] = [state |-> "ok", rows |-> Trimmed(Globbed(found)), there |-> c \in tables]]
        /\ UNCHANGED <<tables, foreign, hiddenSet, ask, reply>>
     \/ /\ leg' = [leg EXCEPT ![c] = FailedLeg]                              \* every search of it failed
        /\ UNCHANGED <<tables, foreign, hiddenSet, ask, flow, reply>>

\* The embed, then all legs at once: the standard path, the naive and the local mode.
StartLegs(at, applied) ==
  /\ flow' = [flow EXCEPT !.at = at, !.expanded = applied]
  /\ leg' = [c \in Collections |-> IF c \in flow.scope THEN [NoLeg EXCEPT !.state = "running"] ELSE NoLeg]
  /\ UNCHANGED <<tables, foreign, hiddenSet, ask, reply>>
Embed ==
  \/ flow.at = "embed" /\ StartLegs("legs", FALSE)
  \/ flow.at = "naive" /\ \E applied \in BOOLEAN : StartLegs("graph_legs", applied)
  \/ flow.at = "local" /\ StartLegs("graph_legs", FALSE)
  \/ flow.at \in {"embed", "naive", "local"} /\ ~ask.fts /\ Refuse("failed")

\* A local leg first reads what the graph names, which comes before what its search finds.
LegReadsGraph(c) ==
  /\ leg[c].state = "running" /\ leg[c].rows = {} /\ ask.mode = "local" /\ flow.at = "graph_legs"
  /\ \E graph \in SUBSET Read(c) : Globbed(graph) # {} /\ leg' = [leg EXCEPT ![c].rows = Trimmed(Globbed(graph))]
  /\ UNCHANGED <<tables, foreign, hiddenSet, ask, flow, reply>>
LegEnds(c) ==
  /\ leg[c].state = "running"
  /\ \E found \in Hybrid(c) :
       LET first == leg[c].rows IN
       leg' = [leg EXCEPT ![c] = [state |-> "ok", there |-> c \in tables,
                                  rows |-> first \cup Best(Globbed(found) \ first, Trim - Cardinality(first))]]
  /\ flow' = [flow EXCEPT !.expanded = @ \/ leg[c].rows # {}]
  /\ UNCHANGED <<tables, foreign, hiddenSet, ask, reply>>
\* A failed leg fails a standard search; the graph modes go on without it.
LegFails(c) ==
  /\ leg[c].state = "running"
  /\ IF flow.at = "legs" THEN Refuse("failed")
     ELSE leg' = [leg EXCEPT ![c] = FailedLeg]
          /\ UNCHANGED <<tables, foreign, hiddenSet, ask, flow, reply>>
LegsTimeOut == /\ \E c \in flow.scope : leg[c].state = "running"
               /\ Refuse("timeout")

\* The global mode reads the representatives of one collection after the other.
GlobalLeg(c) ==
  /\ flow.at = "global" /\ c \in flow.scope /\ leg[c].state = "none"
  /\ \/ Refuse("not_built") \/ Refuse("failed")
     \/ \E rows \in SUBSET Read(c) :
          /\ leg' = [leg EXCEPT ![c] = [state |-> "ok", rows |-> rows, there |-> c \in tables]]
          /\ UNCHANGED <<tables, foreign, hiddenSet, ask, flow, reply>>

LegRows == UNION {leg[c].rows : c \in flow.scope}
Merge ==
  /\ flow.at \in {"fusing", "legs", "graph_legs", "global"}
  /\ \A c \in flow.scope : leg[c].state \in {"ok", "failed"}
  /\ IF flow.at = "global" /\ Visible(LegRows) = {}
     THEN /\ flow' = [flow EXCEPT !.at = "embed"] /\ leg' = [c \in Collections |-> NoLeg]
          /\ UNCHANGED <<tables, foreign, hiddenSet, ask, reply>>
     ELSE Step([flow EXCEPT !.at = "rank", !.rows = Visible(LegRows), !.expanded = @ \/ flow.at = "global"])
Rank ==
  /\ flow.at = "rank"
  /\ \/ Answer(IF ask.rerank THEN Reranked(flow.rows, FanOutPage) ELSE Best(flow.rows, FanOutPage))
     \/ ask.rerank /\ Refuse("failed")

\* run_within_budget; an explain has no budget.
BudgetExceeded == /\ ask.kind # "explain" /\ flow.at \notin {"arrived", "done"} /\ Refuse("timeout")

FanNext ==
  \/ \E c \in Collections : DropCollection(c) \/ FuseLeg(c) \/ LegReadsGraph(c) \/ LegEnds(c) \/ LegFails(c) \/ GlobalLeg(c)
  \/ NameAll \/ Arrive \/ LookUp \/ Variants \/ Embed \/ LegsTimeOut \/ Merge \/ Rank \/ BudgetExceeded

FanSpec == FanInit /\ [][FanNext]_fanVars

FanTypeOK ==
  /\ tables \subseteq Collections /\ flow.scope \subseteq Collections /\ flow.rows \subseteq AllChunks
  /\ \A c \in Collections : leg[c].state \in {"none", "running", "ok", "failed"} /\ leg[c].rows \subseteq {c} \X Ranks /\ leg[c].there \in BOOLEAN
  /\ reply.class \in {"none", "ok", "not_found", "unavailable", "not_built", "failed", "timeout"}

-----------------------------------------------------------------------------
\* An answer holds only chunks that the caller may see, of collections that it asked
\* for and that the answer does not report as excluded, and keeps to the glob
\* wherever the code applies it.
FanOutPermitted ==
  /\ reply.results \cap hiddenSet = {}
  /\ \A r \in reply.results : r[1] \in ask.names /\ \A e \in reply.excluded : e[1] # r[1]
  /\ (ask.glob /\ ~(ask.mode = "global" /\ reply.expanded)) => \A r \in reply.results : r[2] \in GlobRanks

\* An answer of the standard path speaks for every collection asked for: each was searched,
\* or is reported as excluded, or was dropped while the request was under way.
Searched(c) == leg[c].state = "ok" /\ leg[c].there
ReportedExcluded(c) == \E e \in reply.excluded : e[1] = c
EveryLegCounted ==
  (reply.class = "ok" /\ ask.mode = "none" /\ ~ask.fusion) =>
     \A c \in ask.names : Searched(c) \/ ReportedExcluded(c) \/ (leg[c].state = "ok" /\ c \notin tables)

\* "fail loud - silent under-retrieval corrupts downstream results" (search_many): a search
\* that is answered leaves no collection out, not even one that is dropped under it.
NothingLeftOut ==
  (reply.class = "ok" /\ ask.kind = "search" /\ ask.mode = "none" /\ ~ask.fusion) =>
     \A c \in ask.names : Searched(c) \/ ReportedExcluded(c)

\* When the request has its answer none of its searches runs on.
LegsEndWithAnswer == reply # NoReply => \A c \in Collections : leg[c].state # "running"

\* A 404 is true: a collection that was asked for does not exist, for an explain none of them does.
NotFoundIsTrue ==
  reply.class = "not_found" =>
     CASE ask.kind = "search"  -> Missing # {}
       [] ask.kind = "explain" -> ask.names \cap tables = {}
       [] OTHER                -> tables = {} \/ Missing # {}
=============================================================================
