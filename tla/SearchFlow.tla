----------------------------- MODULE SearchFlow -----------------------------
(***************************************************************************)
(* One request over one collection: POST /search, POST /explain and the    *)
(* MCP tools search and search_with_context (server/routes_search.py,      *)
(* server/routes_explain.py, server/mcp.py, pipeline.py), while documents  *)
(* are deleted and re-ingested between its awaits.  A chunk is its number: *)
(* its place in the document, and in the fused ranking; the reranker       *)
(* prefers high numbers.  What the graph, the LLM and the models answer is *)
(* a choice.                                                               *)
(***************************************************************************)
EXTENDS Integers, FiniteSets

CONSTANTS Chunks,       \* a set of numbers
          Matching,     \* the chunks that the request's source_path_glob admits
          InScope,      \* the chunks that its scope_filter admits
          PageSize,     \* top_k_return, and the top_k of an explain
          PoolSize,     \* top_k_retrieve
          Depth,        \* candidate_depth: the rows that each leg of a search reads
          MaxChanges    \* bound: changes of the index during the request

VARIABLES stored,    \* the chunks in the table
          open,      \* those whose acl admits the caller
          shut,      \* history: chunks that were never open to the caller
          changes, query, work, answer

searchVars == <<stored, open, shut, changes, query, work, answer>>

Modes == {"none", "naive", "local", "global", "ppr"}
Queries ==
  {r \in [kind : {"search", "context", "explain"}, mode : Modes, fusion : BOOLEAN, glob : BOOLEAN,
          scope : {"none", "exact", "prefix"}, rerank : BOOLEAN, fts : BOOLEAN, hyde : BOOLEAN] :
     /\ r.scope # "none" => r.mode = "none"                       \* 422 otherwise
     /\ r.kind = "context" => r.mode = "none" /\ r.rerank /\ ~r.fts
     /\ r.kind = "explain" => ~r.glob /\ ~r.fts}                  \* no filters, no degraded form

NoWork == [at |-> "arrived", ids |-> {}, graph |-> {}, pool |-> {}, vector |-> FALSE, used |-> FALSE, embedded |-> FALSE,
           attempted |-> FALSE, applied |-> FALSE, expanded |-> FALSE, hidden |-> FALSE, warning |-> "none"]
NoAnswer == [class |-> "none", results |-> {}, hidden |-> FALSE, expanded |-> FALSE,
             attempted |-> FALSE, applied |-> FALSE, hyde |-> FALSE, warning |-> "none"]

SearchInit == /\ stored \in SUBSET Chunks /\ open \in SUBSET stored /\ shut = Chunks \ open /\ changes = 0
              /\ query \in Queries /\ work = NoWork /\ answer = NoAnswer

\* A document is deleted, or ingested, for the first time or again, with some acl.
ChangeIndex(c) ==
  /\ answer = NoAnswer /\ changes < MaxChanges /\ changes' = changes + 1
  /\ \/ c \in stored /\ stored' = stored \ {c} /\ UNCHANGED open
     \/ stored' = stored \cup {c} /\ open' \in {open \ {c}, open \cup {c}}
  /\ shut' = shut \ open' /\ UNCHANGED <<query, work, answer>>

Go(w) == work' = w /\ UNCHANGED <<stored, open, shut, changes, query, answer>>
Reply(a) == answer' = a /\ work' = [work EXCEPT !.at = "done"] /\ UNCHANGED <<stored, open, shut, changes, query>>
Fail(class) == Reply([NoAnswer EXCEPT !.class = class])

-----------------------------------------------------------------------------
\* The candidates that a read of the table yields, each with the acl it carries.
Row(c, graph) == [id |-> c, open |-> c \in open, graph |-> graph]
Rows(ids) == {Row(c, FALSE) : c \in ids}
RowsById(ids) == {Row(c, TRUE) : c \in stored \cap ids}
\* build_where: an exact scope is part of the query, a prefix and the glob are not.
Reached == IF query.scope = "exact" THEN stored \cap InScope ELSE stored
\* Each leg ends after candidate_depth rows: the nearest ones, and the best of those that the
\* text matches, if there is an index for it.
WithinDepth == Cardinality(Reached) <= Depth
VectorLeg == {ids \in SUBSET Reached : Cardinality(ids) = IF WithinDepth THEN Cardinality(Reached) ELSE Depth}
FtsLeg == {ids \in SUBSET Reached : Cardinality(ids) <= Depth}
FtsRows == {Rows(ids) : ids \in FtsLeg}
HybridRows == {Rows(ids) : ids \in {S \in SUBSET Reached : \E near \in VectorLeg, match \in FtsLeg : S = near \cup match}}
\* The searches of several vectors, fused.
FusedRows == {Rows(ids) : ids \in {S \in SUBSET Reached : \E near \in VectorLeg : near \subseteq S}}

Globbed(S) == IF query.glob THEN {r \in S : r.id \in Matching} ELSE S
Wildcarded(S) == IF query.scope = "prefix" THEN {r \in S : r.id \in InScope} ELSE S
Admitted(S) == {r \in S : r.open}                     \* apply_acl_filter
Hides(S) == \E r \in S : ~r.open

\* Ranked by the reranker, or by the fused score, above which a graph candidate's neutral score lies.
Before(d, c) == IF query.rerank THEN d.id > c.id
                ELSE (d.graph /\ ~c.graph) \/ (d.graph = c.graph /\ d.id < c.id)
Top(S, n) == {c \in S : Cardinality({d \in S : Before(d, c)}) < n}
Ids(S) == {c.id : c \in S}
Merged(first, second) == first \cup {r \in second : r.id \notin Ids(first)}

-----------------------------------------------------------------------------
\* The namespace gate, and the embedder of the collection's model.
LookUp ==
  /\ work.at = "arrived"
  /\ \/ Go([work EXCEPT !.at = "hyde"])
     \/ \E class \in {"unavailable", "not_found", "not_ready"} : Fail(class)

\* RequestHyDE: suppressed by fusion and by any graph mode, skipped on a cold embedder.
HydeSuppressed == query.fusion \/ query.mode # "none"
ResolveHyde ==
  /\ work.at = "hyde"
  /\ LET next == [work EXCEPT !.at = "pipeline"] IN
     \/ (~query.hyde \/ HydeSuppressed) /\ Go(next)
     \/ query.hyde /\ ~HydeSuppressed /\ Go([next EXCEPT !.warning = "hyde", !.embedded = ~query.fts])
     \/ query.hyde /\ ~HydeSuppressed /\ ~query.fts /\ Go([next EXCEPT !.vector = TRUE, !.embedded = TRUE])
     \/ query.hyde /\ ~HydeSuppressed /\ ~query.fts /\ \E class \in {"failed", "not_ready"} : Fail(class)

\* fts_only drops whatever would embed; a vector cancels it.
FtsOnly == query.fts /\ ~work.vector
Mode == IF FtsOnly THEN "none" ELSE query.mode
Fusion == query.fusion /\ ~FtsOnly
AfterExpansion == IF Fusion THEN "fusion" ELSE "standard"

\* search and explain: the branch of the request.
Dispatch ==
  /\ work.at = "pipeline"
  /\ Go([work EXCEPT !.at = CASE query.kind = "explain" /\ query.mode # "none" -> "explain"
                              [] Mode = "naive" -> "expand"
                              [] Mode \in {"local", "global", "ppr"} -> Mode
                              [] OTHER -> AfterExpansion])

\* GraphExpander.expand: any failure means no expansion.
Expand == /\ work.at = "expand"
          /\ \E applied \in BOOLEAN : Go([work EXCEPT !.at = AfterExpansion, !.expanded = applied])

\* RAG Fusion: the variants and their vectors; the original is one of the queries.
\* explain keeps the caller's vector when the collection has no vector index.
FusionVariants ==
  /\ work.at = "fusion"
  /\ LET single == [work EXCEPT !.at = "standard", !.attempted = TRUE, !.vector = FALSE] IN
     \/ Go([single EXCEPT !.vector = work.vector /\ query.kind = "explain"])   \* no vector index
     \/ Go([single EXCEPT !.warning = "fusion"])                               \* the generator raised
     \/ Go([single EXCEPT !.warning = "fusion", !.embedded = TRUE])            \* an embed failed
     \/ Go([work EXCEPT !.at = "variants", !.attempted = TRUE, !.embedded = TRUE, !.vector = FALSE])

\* The searches of the queries; a failed one is left out, unless all of them fail.
VariantSearches ==
  /\ work.at = "variants"
  /\ \/ Go([work EXCEPT !.at = "standard"])
     \/ \E applied \in BOOLEAN, found \in FusedRows :
          LET rows == Wildcarded(Globbed(found)) IN
          Go([work EXCEPT !.at = "rank", !.applied = applied, !.pool = Admitted(rows), !.hidden = Hides(rows)])

\* _search_standard and _explain_standard: the embed, then the table.
Embed ==
  /\ work.at = "standard"
  /\ \/ work.vector /\ Go([work EXCEPT !.at = "retrieve", !.used = TRUE])
     \/ ~work.vector /\ Go([work EXCEPT !.at = "retrieve", !.embedded = @ \/ ~FtsOnly])
     \/ ~work.vector /\ ~FtsOnly /\ \E class \in {"failed", "not_ready"} : Fail(class)
AdmittedAll(S) == Admitted(S)
Retrieve ==
  /\ work.at = "retrieve"
  /\ \/ \E found \in (IF FtsOnly THEN FtsRows ELSE HybridRows) :
          LET rows == Wildcarded(Globbed(found)) IN
          Go([work EXCEPT !.at = "rank", !.pool = AdmittedAll(rows), !.hidden = Hides(rows)])
     \/ Fail("failed")

\* _search_local_mode, steps 1 to 5: what the graph says.
LocalCommunities ==
  /\ work.at = "local"
  /\ \/ Go([work EXCEPT !.at = "standard"])                       \* nothing matched, or a read failed
     \/ Go([work EXCEPT !.at = "standard", !.expanded = TRUE])    \* isolated entities
     \/ Fail("not_built")
     \/ \E ids \in (SUBSET Chunks) \ {{}} : Go([work EXCEPT !.at = "fetch", !.ids = ids])
\* _search_graph_mode: the representatives of all communities.
GlobalCommunities ==
  /\ work.at = "global"
  /\ \/ Go([work EXCEPT !.at = "standard"]) \/ Fail("not_built") \/ Fail("failed")
     \/ \E ids \in SUBSET Chunks : Go([work EXCEPT !.at = "fetch", !.ids = ids])
\* _search_ppr_mode: PPRWalker.walk.
Walk ==
  /\ work.at = "ppr"
  /\ \/ Go([work EXCEPT !.at = "standard"])
     \/ \E ids \in SUBSET Chunks : Go([work EXCEPT !.at = "fetch", !.ids = ids])

\* The graph's chunks that are still stored, less those that the glob and the acl
\* exclude; the global mode knows no glob.  Without any the search is a standard one.
FetchGraphChunks ==
  /\ work.at = "fetch"
  /\ LET rows == IF query.mode = "global" THEN RowsById(work.ids) ELSE Globbed(RowsById(work.ids)) IN
     IF Admitted(rows) = {} THEN Go([work EXCEPT !.at = "standard"])
     ELSE Go([work EXCEPT !.at = IF query.mode = "global" THEN "rank" ELSE "merge", !.expanded = TRUE,
                          !.graph = Admitted(rows), !.pool = Admitted(rows), !.hidden = Hides(rows)])
MergeHybrid ==
  /\ work.at = "merge"
  /\ \/ \E found \in HybridRows : LET rows == Globbed(found) IN
        Go([work EXCEPT !.at = "rank", !.pool = Merged(work.graph, Admitted(rows)),
                        !.hidden = @ \/ Hides(rows), !.embedded = TRUE])
     \/ \E class \in {"failed", "not_ready"} : Fail(class)

\* explain in a graph mode: candidates with their provenance, unfiltered so far.
ExplainCandidates ==
  /\ work.at = "explain"
  /\ \/ Go([work EXCEPT !.at = "standard"])
     \/ query.mode \in {"local", "global"} /\ Fail("not_built")
     \/ query.mode # "naive" /\ \E ids \in SUBSET Chunks :
          Go(IF RowsById(ids) = {} THEN [work EXCEPT !.at = "standard"]
             ELSE [work EXCEPT !.at = "explained", !.graph = RowsById(ids)])
     \/ query.mode = "naive" /\ \E found \in HybridRows \ {{}} :
          Go([work EXCEPT !.at = "explained", !.graph = found, !.embedded = TRUE])
     \/ Fail("failed")
\* _explain_merge_and_rank: one acl filter over both.
ExplainMerge ==
  /\ work.at = "explained"
  /\ \/ \E found \in HybridRows : LET rows == Merged(work.graph, found) IN
        Go([work EXCEPT !.at = "rank", !.pool = Admitted(rows), !.hidden = Hides(rows), !.embedded = TRUE])
     \/ \E class \in {"failed", "not_ready"} : Fail(class)

\* The rerank and the cut; explain cuts to its pool first and then to its page.
Page == Ids(IF query.kind = "explain" THEN Top(Top(work.pool, PoolSize), PageSize) ELSE Top(work.pool, PageSize))
Found == [class |-> "ok", results |-> Page, hidden |-> work.hidden, expanded |-> work.expanded,
          attempted |-> work.attempted, applied |-> work.applied,
          hyde |-> query.hyde /\ ~HydeSuppressed /\ work.warning # "hyde", warning |-> work.warning]
Rank ==
  /\ work.at = "rank"
  /\ \/ query.kind # "context" /\ Reply(Found)
     \/ query.kind = "context" /\ Go([work EXCEPT !.at = "context"])
     \/ query.rerank /\ Fail("failed")
\* search_with_context: the neighbours of every result, through the acl again.
Neighbours == {r \in Rows(stored) : \E c \in Page : r.id \in {c - 1, c + 1}}
FetchContextUnfiltered ==
  work.at = "context" /\ Reply([Found EXCEPT !.results = @ \cup Ids(Neighbours)])
FetchContext ==
  /\ work.at = "context"
  /\ Reply([Found EXCEPT !.results = @ \cup Ids(Admitted(Neighbours))])

\* run_within_budget; explain and search_with_context have no budget.
BudgetExceeded ==
  /\ query.kind = "search" /\ work.at \notin {"arrived", "hyde", "done"}
  /\ Fail("timeout")

SearchNext ==
  \/ \E c \in Chunks : ChangeIndex(c)
  \/ LookUp \/ ResolveHyde \/ Dispatch \/ Expand \/ FusionVariants \/ VariantSearches \/ Embed \/ Retrieve
  \/ LocalCommunities \/ GlobalCommunities \/ Walk \/ FetchGraphChunks \/ MergeHybrid
  \/ ExplainCandidates \/ ExplainMerge \/ Rank \/ FetchContext \/ BudgetExceeded

SearchSpec == SearchInit /\ [][SearchNext]_searchVars

SearchTypeOK ==
  /\ stored \subseteq Chunks /\ open \subseteq Chunks /\ shut \subseteq Chunks /\ query \in Queries
  /\ answer.results \subseteq Chunks
  /\ answer.class \in {"none", "ok", "unavailable", "not_found", "not_ready", "not_built", "failed", "timeout"}

-----------------------------------------------------------------------------
\* No answer, on whatever path and however the index changes under it, holds a
\* chunk that the caller may not see, and its hits keep to the request's scope
\* and, but for the global mode, to its glob.
AnswerPermitted ==
  /\ answer.results \cap shut = {}
  /\ (answer.class = "ok" /\ query.kind # "context") =>
       /\ query.scope # "none" => answer.results \subseteq InScope
       /\ (query.glob /\ (query.mode # "global" \/ ~work.expanded)) => answer.results \subseteq Matching

\* What a search should find: the best visible chunks of the collection.
Eligible == {c \in open \cap stored : (query.glob => c \in Matching) /\ (query.scope # "none" => c \in InScope)}
Reference == {c \in Eligible : Cardinality({d \in Eligible : IF query.rerank THEN d > c ELSE d < c}) < PageSize}
\* A search without graph mode of a collection that its legs read to the end
\* returns exactly that, and an explain of the same request shows that same page,
\* unless it asks for more than the pool it keeps: chunks that the acl hides take
\* no place.  (Beyond the depth the filters may leave fewer: see the README.)
RightPage ==
  ( /\ answer.class = "ok" /\ changes = 0 /\ query.mode = "none" /\ query.kind # "context" /\ ~FtsOnly /\ WithinDepth
    /\ query.kind = "explain" => PageSize <= PoolSize )
  => answer.results = Reference

\* A page that is short although such a collection holds more says that the acl hid some.
HiddenTold ==
  ( /\ answer.class = "ok" /\ changes = 0 /\ query.kind # "context" /\ ~FtsOnly /\ WithinDepth
    /\ ~(query.mode = "global" /\ work.expanded)
    /\ Cardinality(answer.results) < PageSize
    /\ \E c \in stored \ open : (query.glob => c \in Matching) /\ (query.scope # "none" => c \in InScope) )
  => answer.hidden

\* hyde_applied: the hypothesis' vector is the one that was searched with.
HydeUsed == answer.hyde => work.used

\* fts_only: a request that found its embedder cold never embeds.
ColdNeverEmbeds == query.fts => ~work.embedded
=============================================================================
