------------------------- MODULE CommunityClusters -------------------------
(***************************************************************************)
(* One collection's communities: CommunityBuilder.build, from its locked   *)
(* snapshot of the entity graph over the split of oversized communities to *)
(* GraphStore.write_communities, whose delete and add are two steps.       *)
(* Builders (the REST task and the maintenance loop make one each) share   *)
(* the rebuild lock of the module; the ingests that change the graph do    *)
(* not take it.  Leiden is external: it may return any partition, so the   *)
(* edges it gets, read after the nodes, do not matter here.                *)
(***************************************************************************)
EXTENDS Integers, Sequences, FiniteSets

CONSTANTS Members,       \* entities
          MaxSize,       \* [graph].max_community_size
          MaxDepth,      \* _MAX_SPLIT_DEPTH
          Builders,
          MaxBuilds, MaxGraphs   \* bounds on builds and on the states of the graph

VARIABLES graphs,    \* the entities of the graph, one state after the other: the last one is its state
          builder,   \* each builder's place, snapshot (an index into graphs) and groups
          holder,    \* who holds the rebuild lock
          table,     \* the rows of the communities table
          builds,    \* builds begun
          newest     \* history: the newest snapshot that was ever written

clusterVars == <<graphs, builder, holder, table, builds, newest>>

Nobody == "nobody"
Off == [at |-> "off", seen |-> 0, todo |-> {}, kept |-> {}]
ClusterInit ==
  /\ graphs \in {<<g>> : g \in SUBSET Members} /\ builder = [b \in Builders |-> Off] /\ holder = Nobody
  /\ table = {} /\ builds = 0 /\ newest = 0

At(b, at) == builder[b].at = at
Go(b, at) == builder' = [builder EXCEPT ![b].at = at]
\* What ingests, deletions and the garbage collection (EntityGraph) do to the nodes meanwhile.
Change(g) ==
  /\ Len(graphs) < MaxGraphs /\ g # graphs[Len(graphs)] /\ graphs' = Append(graphs, g)
  /\ UNCHANGED <<builder, holder, table, builds, newest>>

-----------------------------------------------------------------------------
(* build and _build_locked. *)
Begin(b) ==
  /\ At(b, "off") /\ builds < MaxBuilds /\ builds' = builds + 1
  /\ Go(b, "waiting") /\ UNCHANGED <<graphs, holder, table, newest>>
LockFree(b) == holder = Nobody
Lock(b) ==
  /\ At(b, "waiting") /\ LockFree(b) /\ holder' = b
  /\ Go(b, "nodes") /\ UNCHANGED <<graphs, table, builds, newest>>
Released(b) == IF holder = b THEN Nobody ELSE holder
\* No nodes, a failed read of the stores, a failed write, or a cancel: the lock is let go, and the table is left as it is.
Fail(b) ==
  /\ ~At(b, "off") /\ holder' = Released(b) /\ builder' = [builder EXCEPT ![b] = Off]
  /\ UNCHANGED <<graphs, table, builds, newest>>
Group(members, depth) == [members |-> members, depth |-> depth, stuck |-> FALSE]
\* get_all_nodes.
Snapshot == graphs[Len(graphs)]
\* A single node is a community without a run of Leiden.
ReadNodes(b) ==
  LET seen == Snapshot IN
  /\ At(b, "nodes") /\ seen # {}
  /\ builder' = [builder EXCEPT ![b] =
       IF Cardinality(seen) < 2
       THEN [at |-> "single", seen |-> Len(graphs), todo |-> {}, kept |-> {Group(seen, 0)}]
       ELSE [at |-> "cluster", seen |-> Len(graphs), todo |-> {}, kept |-> {}]]
  /\ UNCHANGED <<graphs, holder, table, builds, newest>>

\* leidenalg.find_partition.
Partitions(S) == {{{y \in S : f[y] = f[x]} : x \in S} : f \in [S -> 1..Cardinality(S)]}
Oversized(members) == Cardinality(members) > MaxSize
NeedsSplit(P) == \E members \in P : Oversized(members)
\* _cluster_with_size_limit.
Cluster(b) ==
  /\ At(b, "cluster")
  /\ \E P \in Partitions(graphs[builder[b].seen]) :
     LET groups == {Group(members, 0) : members \in P} IN
     builder' = [builder EXCEPT ![b] = IF NeedsSplit(P) THEN [@ EXCEPT !.at = "split", !.todo = groups]
                                       ELSE [@ EXCEPT !.at = "describe", !.todo = groups]]
  /\ UNCHANGED <<graphs, holder, table, builds, newest>>
\* The next group of _split_oversized_communities: each is handled by itself, so the order does not matter.
NextGroup(b) == CHOOSE group \in builder[b].todo : TRUE
Accepted(group) == ~Oversized(group.members) \/ group.depth >= MaxDepth
Accept(b) ==
  /\ At(b, "split") /\ builder[b].todo # {} /\ Accepted(NextGroup(b))
  /\ builder' = [builder EXCEPT ![b].todo = @ \ {NextGroup(b)}, ![b].kept = @ \cup {NextGroup(b)}]
  /\ UNCHANGED <<graphs, holder, table, builds, newest>>
\* Mutant: what Leiden cannot split is dropped.
Unsplit(group) == {}
\* A group that Leiden cannot split is accepted.
Whole(group) == {[group EXCEPT !.stuck = TRUE]}
Split(b) ==
  LET group == NextGroup(b) IN
  /\ At(b, "split") /\ builder[b].todo # {} /\ ~Accepted(group)
  /\ \E P \in Partitions(group.members) : builder' = [builder EXCEPT ![b] =
       IF Cardinality(P) <= 1
       THEN [@ EXCEPT !.todo = builder[b].todo \ {group}, !.kept = builder[b].kept \cup Whole(group)]
       ELSE [@ EXCEPT !.todo = (builder[b].todo \ {group}) \cup {Group(members, group.depth + 1) : members \in P}]]
  /\ UNCHANGED <<graphs, holder, table, builds, newest>>
SplitEnd(b) ==
  /\ At(b, "split") /\ builder[b].todo = {}
  /\ builder' = [builder EXCEPT ![b].at = "describe", ![b].todo = builder[b].kept, ![b].kept = {}]
  /\ UNCHANGED <<graphs, holder, table, builds, newest>>
\* The representative chunks of the next group (a read of its documents' chunks that fails is Fail); those of a single
\* node's community, which gets no summary.
Represent(b) ==
  /\ \/ At(b, "describe") /\ builder[b].todo # {} /\ Go(b, "summarise")
     \/ At(b, "single") /\ Go(b, "clear")
  /\ UNCHANGED <<graphs, holder, table, builds, newest>>
\* Its summary: without a model none is asked for, and whatever fails, the community is kept without one.
Summarise(b) ==
  /\ At(b, "summarise")
  /\ builder' = [builder EXCEPT ![b].at = "describe", ![b].todo = @ \ {NextGroup(b)}, ![b].kept = @ \cup {NextGroup(b)}]
  /\ UNCHANGED <<graphs, holder, table, builds, newest>>
Described(b) ==
  /\ At(b, "describe") /\ builder[b].todo = {} /\ Go(b, "clear")
  /\ UNCHANGED <<graphs, holder, table, builds, newest>>

-----------------------------------------------------------------------------
(* GraphStore.write_communities. *)
Clear(b) ==
  /\ At(b, "clear") /\ table' = {}
  /\ Go(b, "add") /\ UNCHANGED <<graphs, holder, builds, newest>>
Add(b) ==
  /\ At(b, "add")
  /\ table' = table \cup {[group |-> group, seen |-> builder[b].seen] : group \in builder[b].kept}
  /\ newest' = builder[b].seen /\ holder' = Released(b) /\ builder' = [builder EXCEPT ![b] = Off]
  /\ UNCHANGED <<graphs, builds>>
\* get_communities_for_entities: what a local search for these entities finds.
CommunitiesOf(entities) == {r \in table : r.group.members \cap entities # {}}

ClusterNext ==
  \/ \E g \in SUBSET Members : Change(g)
  \/ \E b \in Builders :
       \/ Begin(b) \/ Lock(b) \/ Fail(b) \/ ReadNodes(b) \/ Cluster(b) \/ Accept(b) \/ Split(b) \/ SplitEnd(b)
       \/ Represent(b) \/ Summarise(b) \/ Described(b) \/ Clear(b) \/ Add(b)
ClusterSpec == ClusterInit /\ [][ClusterNext]_clusterVars

-----------------------------------------------------------------------------
Groups == [members : SUBSET Members, depth : 0..MaxDepth, stuck : BOOLEAN]
\* The types of the communities' state; a split is never deeper than _MAX_SPLIT_DEPTH.
ClusterTypeOK ==
  /\ \A b \in Builders : /\ builder[b].at \in {"off", "waiting", "nodes", "cluster", "split", "single", "describe",
                                               "summarise", "clear", "add"}
                         /\ builder[b].todo \subseteq Groups /\ builder[b].kept \subseteq Groups
                         /\ builder[b].seen \in 0..Len(graphs)
  /\ holder \in Builders \cup {Nobody} /\ table \subseteq [group : Groups, seen : 1..MaxGraphs]
  /\ builds \in 0..MaxBuilds /\ newest \in 0..MaxGraphs /\ graphs \in Seq(SUBSET Members)

Covers(groups, entities) ==
  /\ UNION {g.members : g \in groups} = entities
  /\ \A g, h \in groups : g # h => g.members \cap h.members = {}
\* Whatever Leiden returns, each entity of the snapshot is in exactly one community, however often its group was split.
EveryEntityPlaced ==
  \A b \in Builders : builder[b].at \in {"split", "single", "describe", "summarise", "clear", "add"} =>
    Covers(builder[b].todo \cup builder[b].kept, graphs[builder[b].seen])
\* A stored community is larger than max_community_size only if Leiden could not split it or the depth was used up.
SizeHeld == \A r \in table : Oversized(r.group.members) => (r.group.stuck \/ r.group.depth = MaxDepth)
\* A reader finds no communities (a build is writing, or its write failed) or those of one build: then each entity of
\* the graph as that build saw it is found in one community, never in rows of two builds.
OneBuildShown ==
  table # {} => \E v \in 1..Len(graphs) : /\ \A r \in table : r.seen = v
                                         /\ UNION {r.group.members : r \in table} = graphs[v]
                                         /\ \A e \in graphs[v] : Cardinality(CommunitiesOf({e})) = 1
\* A build never replaces the communities of a newer graph by those of an older one.
NeverOlder == [][table' \ table # {} => \A r \in table' : r.seen >= newest]_clusterVars
=============================================================================
