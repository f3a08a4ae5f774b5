---------------------------- MODULE MCCollection ----------------------------
(***************************************************************************)
(* CollectionLifecycle for TLC, in two scenarios that the first state      *)
(* chooses from: every operation of one tenant but expiry pruning, and two *)
(* tenants that compete for the name.  The coroutines differ only in what  *)
(* they do, so states that swap them are identified.                       *)
(***************************************************************************)
EXTENDS CollectionLifecycle, TLC

VARIABLE scenario

Competing == {"delete", "add", "ingest", "foreign", "import", "syncdrop", "patch", "erase", "prune"}

MCInit == Init /\ scenario \in {"one_tenant", "two_tenants"}

MCNext ==
    /\ Next /\ UNCHANGED scenario
    /\ scenario = "one_tenant" =>
         \A a \in Actors : act'[a].ns = Default /\ act'[a].op \notin {"foreign", "prune"}
    /\ scenario = "two_tenants" =>
         config' <= 1 /\ \A a \in Actors : act'[a].op \in Competing \cup {"none"}

MCSpec == MCInit /\ [][MCNext]_<<vars, scenario>>

Symmetry == Permutations(Actors)

\* Once a DELETE of the one tenant has succeeded, nothing that was under way brings the table
\* or the row back; pruning and a tenant's own claim may, and are in the other scenario.
DeletedStaysGone == scenario = "one_tenant" => GoneStaysGone
=============================================================================
