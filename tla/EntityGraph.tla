----------------------------- MODULE EntityGraph -----------------------------
(***************************************************************************)
(* The entity graph of one collection (graph_store.py, the graph half of   *)
(* _ingest_text, the graph garbage collection of the maintenance loop).    *)
(* Documents have one chunk each.  A chunk mentions prose entities, which  *)
(* documents share, and a code file also its own symbol; the def/ref pass  *)
(* adds the file's module, its imports, and calls into another file.  The  *)
(* collection lock covers the prose write and the garbage collection; the  *)
(* def/ref pass and the clean-up after a deletion do not take it.          *)
(***************************************************************************)
EXTENDS Integers

CONSTANTS Docs, CodeDocs,   \* CodeDocs: files with a def/ref grammar
          GraphWriters,     \* ingests and deletions at the same time
          MaxGraphWrites,   \* bound: ingests, deletions and collections
          MaxGraphFaults    \* bound: failing store calls and extractions

VARIABLES live,        \* document -> the content of its chunk
          mentions,    \* {<<entity, document>>}
          nodes,       \* entity -> the document that wrote its row last
          edges,       \* edge -> the document that wrote its row last
          hand,        \* what each writer is at
          sweep,       \* what the garbage collection is at
          graphLock,   \* who holds lock_for(collection)
          works, mends,
          touched,     \* history: documents whose graph write failed or met another writer
          met,         \* history: a garbage collection ran while a def/ref pass or a clean-up did
          swept        \* history: nothing was written since a garbage collection

graphVars == <<live, mentions, nodes, edges, hand, sweep, graphLock, works, mends, touched, met, swept>>

None == 0
Prose == {<<"a", 0>>, <<"b", 0>>}
Modules == {<<"module", d>> : d \in CodeDocs}
Symbol(d) == <<"symbol", d>>
Import(d) == <<"import", d>>
Entities == Prose \cup Modules \cup {Symbol(d) : d \in CodeDocs} \cup {Import(d) : d \in CodeDocs}
Related == <<<<"a", 0>>, <<"b", 0>>>>
Defines(d) == <<<<"module", d>>, Symbol(d)>>
ImportEdge(d) == <<<<"module", d>>, Import(d)>>
Calls(d, e) == <<Symbol(d), Symbol(e)>>
Inferred == {Calls(d, e) : d, e \in CodeDocs}
\* _edge_is_defref.
DefRef == {Defines(d) : d \in CodeDocs} \cup {ImportEdge(d) : d \in CodeDocs} \cup Inferred
Edges == {Related} \cup DefRef

\* A chunk names one prose entity, or both and (refs) an import and a call.
Absent == [prose |-> {}, refs |-> FALSE]
Rich == [prose |-> Prose, refs |-> TRUE]
First(d) == \A e \in Docs : d <= e
Thin(d) == [prose |-> IF First(d) THEN {<<"a", 0>>} ELSE {<<"b", 0>>}, refs |-> FALSE]
Contents(d) == {Rich, Thin(d)}
Own(d) == IF d \in CodeDocs THEN {Symbol(d)} ELSE {}

\* GraphExtractor.extract: without its prose backend it is degraded to code symbols.
ProseNodes(d, c, degraded) == Own(d) \cup IF degraded THEN {} ELSE c.prose
ProseEdges(c, degraded) == IF ~degraded /\ c.prose = Prose THEN {Related} ELSE {}
\* DefRefExtractor.extract: nothing when the file does not parse; calls are resolved
\* against the symbols there are.
DefNodes(d, c, parsed) ==
  IF ~parsed THEN {} ELSE {<<"module", d>>, Symbol(d)} \cup IF c.refs THEN {Import(d)} ELSE {}
DefEdges(d, c, parsed) ==
  IF ~parsed THEN {}
  ELSE {Defines(d)} \cup IF c.refs THEN {ImportEdge(d)} \cup {Calls(d, e) : e \in {f \in CodeDocs \ {d} : nodes[Symbol(f)] # None}}
                    ELSE {}

Off == [at |-> "none", doc |-> None, content |-> Absent, removal |-> FALSE, degraded |-> FALSE,
        newNodes |-> {}, newEdges |-> {}, cut |-> {}]
NoSweep == [at |-> "none", chunks |-> {}, mentioned |-> {}, nodes |-> {}, orphans |-> {}, cut |-> {}]
\* Some documents were ingested, one after the other, the first with little in it.
LastOf(ds) == IF ds = {} THEN None ELSE CHOOSE d \in ds : \A e \in ds : e <= d
Told(ds, n) == {d \in ds : First(d) => n # <<"b", 0>>}
GraphInit ==
  /\ \E old \in SUBSET Docs :
       LET rich == {d \in old : ~First(d)} IN
       /\ live = [d \in Docs |-> IF d \in rich THEN Rich ELSE IF d \in old THEN Thin(d) ELSE Absent]
       /\ mentions = UNION {ProseNodes(d, live[d], FALSE) \X {d} : d \in old}
       /\ nodes = [n \in Entities |-> IF n \in Prose THEN LastOf(Told(old, n))
                                      ELSE IF n[2] \in (IF n[1] = "import" THEN rich ELSE old) THEN n[2] ELSE None]
       /\ edges = [e \in Edges |-> IF e = Related THEN LastOf(rich)
                                   ELSE IF e[1][2] \in (IF e \in Inferred \/ e[2][1] = "import" THEN rich ELSE old)
                                           /\ (e \in Inferred => e[2][2] \in {d \in old : d < e[1][2]})
                                        THEN e[1][2] ELSE None]
  /\ hand = [w \in GraphWriters |-> Off] /\ sweep = NoSweep
  /\ graphLock = "free" /\ works = 0 /\ mends = 0 /\ touched = {} /\ met = FALSE /\ swept = FALSE

Stays == UNCHANGED <<works, mends, touched>>
\* An unlocked write: a garbage collection under way did not count on it.
Unlocked == /\ met' = (met \/ sweep.at # "none") /\ swept' = FALSE
Step(w, at) == hand' = [hand EXCEPT ![w] = [@ EXCEPT !.at = at]]
At(w, at) == hand[w].at = at
Present == {d \in Docs : live[d] # Absent}
Written(rows, new, d) == [r \in DOMAIN rows |-> IF r \in new THEN d ELSE rows[r]]
Without(rows, old) == [r \in DOMAIN rows |-> IF r \in old THEN None ELSE rows[r]]
Rows(rows) == {r \in DOMAIN rows : rows[r] # None}

-----------------------------------------------------------------------------
\* An ingest, or a deletion (removal), of document d.
Begin(w, d, content) ==
  /\ At(w, "none") /\ works < MaxGraphWrites /\ works' = works + 1
  /\ content = Absent => live[d] # Absent
  /\ \E degraded \in BOOLEAN :
       /\ degraded => content # Absent
       /\ hand' = [hand EXCEPT ![w] = [Off EXCEPT !.at = "drop", !.doc = d, !.content = content,
                                                  !.removal = content = Absent, !.degraded = degraded]]
  /\ touched' = IF \E v \in GraphWriters : hand[v].doc = d THEN touched \cup {d} ELSE touched
  /\ UNCHANGED <<live, mentions, nodes, edges, sweep, graphLock, mends, met, swept>>
\* store.delete_document, then store.ingest_chunks, each under the lock.
DropChunks(w) ==
  /\ At(w, "drop") /\ graphLock = "free" /\ live' = [live EXCEPT ![hand[w].doc] = Absent]
  /\ Step(w, IF hand[w].removal THEN "mentions" ELSE "add") /\ swept' = FALSE
  /\ Stays /\ UNCHANGED <<mentions, nodes, edges, sweep, graphLock, met>>
AddChunks(w) ==
  /\ At(w, "add") /\ graphLock = "free" /\ live' = [live EXCEPT ![hand[w].doc] = hand[w].content]
  /\ Step(w, "lock") /\ swept' = FALSE
  /\ Stays /\ UNCHANGED <<mentions, nodes, edges, sweep, graphLock, met>>

\* The prose write, under the lock: a degraded one first deletes the document's rows.
LockGraph(w) ==
  /\ At(w, "lock") /\ graphLock = "free" /\ graphLock' = w
  /\ Step(w, IF hand[w].degraded THEN "cutEdges" ELSE "nodes") /\ swept' = FALSE
  /\ Stays /\ UNCHANGED <<live, mentions, nodes, edges, sweep, met>>
WriteNodes(w) ==
  /\ At(w, "nodes") /\ nodes' = Written(nodes, ProseNodes(hand[w].doc, hand[w].content, hand[w].degraded), hand[w].doc)
  /\ Step(w, "edges") /\ Stays /\ UNCHANGED <<live, mentions, edges, sweep, graphLock, met, swept>>
WriteEdges(w) ==
  /\ At(w, "edges") /\ edges' = Written(edges, ProseEdges(hand[w].content, hand[w].degraded), hand[w].doc)
  /\ Step(w, "mentions") /\ Stays /\ UNCHANGED <<live, mentions, nodes, sweep, graphLock, met, swept>>
OfOthers(d) == {m \in mentions : m[2] # d}
DeleteMentions(w) ==
  /\ At(w, "mentions") /\ mentions' = OfOthers(hand[w].doc)
  /\ Step(w, IF hand[w].removal THEN "cutEdges" ELSE "mention")
  /\ IF hand[w].removal THEN Unlocked ELSE UNCHANGED <<met, swept>>
  /\ Stays /\ UNCHANGED <<live, nodes, edges, sweep, graphLock>>
After(d) == IF d \in CodeDocs THEN "extract" ELSE "none"
WriteMentions(w) ==
  /\ At(w, "mention")
  /\ mentions' = mentions \cup (ProseNodes(hand[w].doc, hand[w].content, hand[w].degraded) \X {hand[w].doc})
  /\ graphLock' = "free" /\ hand' = [hand EXCEPT ![w] = IF After(@.doc) = "none" THEN Off ELSE [@ EXCEPT !.at = "extract"]]
  /\ Stays /\ UNCHANGED <<live, nodes, edges, sweep, met, swept>>

-----------------------------------------------------------------------------
\* The def/ref pass: extract, delete_defref_graph_by_doc, the new rows.
Extract(w) ==
  /\ At(w, "extract")
  /\ \E parsed \in BOOLEAN :
       /\ ~parsed => mends < MaxGraphFaults
       /\ mends' = IF parsed THEN mends ELSE mends + 1
       /\ touched' = IF parsed THEN touched ELSE touched \cup {hand[w].doc}
       /\ hand' = [hand EXCEPT ![w] = [@ EXCEPT !.at = "cutEdges", !.newNodes = DefNodes(hand[w].doc, hand[w].content, parsed),
                                              !.newEdges = DefEdges(hand[w].doc, hand[w].content, parsed)]]
  /\ UNCHANGED <<live, mentions, nodes, edges, sweep, graphLock, works, met, swept>>
\* The document's def/ref rows: its edges, and the nodes at their ends that are its own and
\* that the new rows do not keep; a module stays while another document's edge needs it.
OwnDefRef(d) == {e \in DefRef : edges[e] = d}
Shared(n, d) == \E e \in DefRef : edges[e] \notin {None, d} /\ n \in {e[1], e[2]}
Leaving(d, keep) ==
  {n \in Rows(nodes) : /\ nodes[n] = d /\ n \notin keep
                       /\ n \in Modules \/ \E e \in OwnDefRef(d) : n \in {e[1], e[2]}
                       /\ ~(n \in Modules /\ Shared(n, d))}
CutEdges(w) ==
  /\ At(w, "cutEdges")
  /\ LET going == Leaving(hand[w].doc, hand[w].newNodes) IN
     /\ edges' = Without(edges, OwnDefRef(hand[w].doc) \cup {e \in Edges : e[1] \in going \/ e[2] \in going})
     /\ hand' = [hand EXCEPT ![w] = [@ EXCEPT !.at = "cutNodes", !.cut = going]]
  /\ IF graphLock = w THEN UNCHANGED <<met, swept>> ELSE Unlocked
  /\ Stays /\ UNCHANGED <<live, mentions, nodes, sweep, graphLock>>
CutNodes(w) ==
  /\ At(w, "cutNodes") /\ nodes' = Without(nodes, hand[w].cut)
  /\ Step(w, IF hand[w].removal \/ graphLock = w THEN "cutProse" ELSE "defNodes")
  /\ IF graphLock = w THEN UNCHANGED <<met, swept>> ELSE Unlocked
  /\ Stays /\ UNCHANGED <<live, mentions, edges, sweep, graphLock>>
\* delete_graph_by_doc also deletes every edge that the document wrote last.
CutProse(w) ==
  /\ At(w, "cutProse") /\ edges' = Without(edges, {e \in Edges : edges[e] = hand[w].doc})
  /\ IF hand[w].removal THEN hand' = [hand EXCEPT ![w] = Off] /\ Unlocked
     ELSE Step(w, "nodes") /\ UNCHANGED <<met, swept>>
  /\ Stays /\ UNCHANGED <<live, mentions, nodes, sweep, graphLock>>
WriteDefNodes(w) ==
  /\ At(w, "defNodes") /\ nodes' = Written(nodes, hand[w].newNodes, hand[w].doc)
  /\ Step(w, "defEdges") /\ Unlocked /\ Stays /\ UNCHANGED <<live, mentions, edges, sweep, graphLock>>
WriteDefEdges(w) ==
  /\ At(w, "defEdges") /\ edges' = Written(edges, hand[w].newEdges, hand[w].doc)
  /\ hand' = [hand EXCEPT ![w] = Off] /\ Unlocked
  /\ Stays /\ UNCHANGED <<live, mentions, nodes, sweep, graphLock>>

\* A store call fails: an ingest gives up the pass it is in and goes on with the next, a
\* deletion goes on with its edges.
Fails(w) ==
  /\ hand[w].at \notin {"none", "drop", "add", "lock"} /\ mends < MaxGraphFaults /\ mends' = mends + 1
  /\ hand' = [hand EXCEPT ![w] =
       IF @.removal /\ @.at = "mentions" THEN [@ EXCEPT !.at = "cutEdges"]
       ELSE IF graphLock = w /\ After(@.doc) # "none" THEN [@ EXCEPT !.at = "extract"] ELSE Off]
  /\ graphLock' = IF graphLock = w THEN "free" ELSE graphLock
  /\ touched' = touched \cup {hand[w].doc}
  /\ UNCHANGED <<live, mentions, nodes, edges, sweep, works, met, swept>>

-----------------------------------------------------------------------------
\* _run_graph_gc: the lock, the live chunks, the stale mentions.
FreeForSweep == graphLock = "free"
AnyTime == TRUE   \* mutant: the garbage collection does not take the lock
MayCollect == FreeForSweep
BeginGc ==
  /\ sweep.at = "none" /\ MayCollect /\ works < MaxGraphWrites /\ works' = works + 1
  /\ graphLock' = IF graphLock = "free" THEN "gc" ELSE graphLock
  /\ sweep' = [NoSweep EXCEPT !.at = "prune", !.chunks = Present]
  /\ met' = (met \/ \E w \in GraphWriters : hand[w].at \notin {"none", "drop", "add", "lock"})
  /\ UNCHANGED <<live, mentions, nodes, edges, hand, mends, touched, swept>>
Prune ==
  /\ sweep.at = "prune" /\ mentions' = {m \in mentions : m[2] \in sweep.chunks}
  /\ sweep' = [sweep EXCEPT !.at = "nodes", !.mentioned = mentions']
  /\ Stays /\ UNCHANGED <<live, nodes, edges, hand, graphLock, met, swept>>
Done == sweep' = NoSweep /\ graphLock' = IF graphLock = "gc" THEN "free" ELSE graphLock
\* No mention and yet a chunk: the mentions were never written, and nothing is judged.
ReadNodes ==
  /\ sweep.at = "nodes"
  /\ IF sweep.mentioned = {} /\ sweep.chunks # {} THEN Done
     ELSE sweep' = [sweep EXCEPT !.at = "edges", !.nodes = Rows(nodes)] /\ UNCHANGED graphLock
  /\ Stays /\ UNCHANGED <<live, mentions, nodes, edges, hand, met, swept>>
\* delete_orphan_nodes_and_edges: a node without a mention goes, unless it is a module or at
\* the end of a def/ref edge; so do its edges, and the prose edges that no chunk supports.
MentionedIn(n) == {m[2] : m \in {x \in sweep.mentioned : x[1] = n}}
Exempt == Modules \cup UNION {{e[1], e[2]} : e \in Rows(edges) \cap DefRef}
Orphans == {n \in sweep.nodes : MentionedIn(n) = {}} \ Exempt
Unsupported(e) == MentionedIn(e[1]) \cap MentionedIn(e[2]) = {}
OrphanEdges(gone) == {e \in Rows(edges) \ DefRef : e[1] \in gone \/ e[2] \in gone \/ Unsupported(e)}
ReadEdges ==
  /\ sweep.at = "edges"
  /\ sweep' = [sweep EXCEPT !.at = "deleteEdges", !.orphans = Orphans, !.cut = OrphanEdges(Orphans)]
  /\ Stays /\ UNCHANGED <<live, mentions, nodes, edges, hand, graphLock, met, swept>>
DeleteOrphanEdges ==
  /\ sweep.at = "deleteEdges" /\ edges' = Without(edges, sweep.cut)
  /\ sweep' = [sweep EXCEPT !.at = "deleteNodes"]
  /\ Stays /\ UNCHANGED <<live, mentions, nodes, hand, graphLock, met, swept>>
DeleteOrphanNodes ==
  /\ sweep.at = "deleteNodes" /\ nodes' = Without(nodes, sweep.orphans) /\ Done
  /\ swept' = ~met
  /\ Stays /\ UNCHANGED <<live, mentions, edges, hand, met>>
\* list_chunks_raw or the store fails: the pass ends where it is.
GcFails ==
  /\ sweep.at # "none" /\ mends < MaxGraphFaults /\ mends' = mends + 1 /\ Done
  /\ UNCHANGED <<live, mentions, nodes, edges, hand, works, touched, met, swept>>

GraphNext ==
  \/ \E w \in GraphWriters :
       \/ \E d \in Docs : \E content \in Contents(d) \cup {Absent} : Begin(w, d, content)
       \/ DropChunks(w) \/ AddChunks(w) \/ LockGraph(w) \/ WriteNodes(w) \/ WriteEdges(w) \/ DeleteMentions(w)
       \/ WriteMentions(w) \/ Extract(w) \/ CutEdges(w) \/ CutNodes(w) \/ CutProse(w) \/ WriteDefNodes(w)
       \/ WriteDefEdges(w) \/ Fails(w)
  \/ BeginGc \/ Prune \/ ReadNodes \/ ReadEdges \/ DeleteOrphanEdges \/ DeleteOrphanNodes \/ GcFails
GraphSpec == GraphInit /\ [][GraphNext]_graphVars

GraphTypeOK == /\ mentions \subseteq Entities \X Docs /\ nodes \in [Entities -> Docs \cup {None}]
               /\ edges \in [Edges -> Docs \cup {None}] /\ graphLock \in {"free", "gc"} \cup GraphWriters

-----------------------------------------------------------------------------
\* A document that nobody is writing and whose graph rows were written without a fault.
Settled(d) == d \notin touched /\ \A w \in GraphWriters : hand[w].doc # d
MentionedBy(d) == {m[1] : m \in {x \in mentions : x[2] = d}}

\* _run_graph_gc holds the collection lock so that it does not delete the nodes of a document
\* whose mentions are still to be written: what a document mentions has its node.
MentionHasNode == \A m \in mentions : (Settled(m[2]) /\ live[m[2]] # Absent) => nodes[m[1]] # None

\* A document's mentions are those of its last ingest, or of that without the prose backend,
\* and a deleted document has none, whatever garbage was collected in between.
MentionsFollow ==
  \A d \in Docs : Settled(d) =>
    IF live[d] = Absent THEN MentionedBy(d) = {}
    ELSE \E degraded \in BOOLEAN : MentionedBy(d) = ProseNodes(d, live[d], degraded)

\* An edge between prose entities, which traversals follow without looking, has both its ends.
RelatedHasEnds == edges[Related] # None => \A n \in Prose : nodes[n] # None

\* The def/ref rows of a file, which have no mention, outlive every garbage collection that
\* did not run during a def/ref pass.
DefRefKept ==
  ~met => \A d \in CodeDocs : (Settled(d) /\ live[d] # Absent) =>
            /\ \A n \in DefNodes(d, live[d], TRUE) : nodes[n] # None
            /\ edges[Defines(d)] # None /\ (live[d].refs => edges[ImportEdge(d)] # None)

\* A garbage collection that nothing crossed leaves no prose entity without a chunk that
\* mentions it, and no relation without a chunk that mentions both its ends.
GcComplete ==
  swept => /\ \A n \in Prose : nodes[n] # None => \E d \in Present : <<n, d>> \in mentions
           /\ edges[Related] # None => \E d \in Present : Prose \subseteq MentionedBy(d)
=============================================================================
