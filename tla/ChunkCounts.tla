----------------------------- MODULE ChunkCounts -----------------------------
(***************************************************************************)
(* What the meta row of one collection says of its chunks (store.py and    *)
(* the ingest half of pipeline.py).  Ingests, deletions and the pruning of *)
(* expired chunks change the table and keep the row's counts and centroid  *)
(* sum in step, but for the pruning, which leaves the row alone; a         *)
(* recompute scans the table without the collection lock and writes what   *)
(* it found under it.  Each document has two chunks, and each chunk is a   *)
(* batch of its own.                                                       *)
(***************************************************************************)
EXTENDS Integers, FiniteSets

CONSTANTS Documents, Writers,
          Kinds,         \* what writers do: "ingest", "delete", "prune"
          Describing,    \* which servers: TRUE has a description lifecycle, FALSE (the default) has none
          RecomputeAt,   \* centroid_recompute_threshold
          MaxWrites      \* bound: ingests, deletions and prunings

VARIABLES held,        \* document -> its rows in the table
          tally,       \* the meta row
          writer,      \* what each writer is at
          tableLock,   \* who holds lock_for(collection)
          writes,
          torn,        \* history: a writer ended between its rows and its counts,
          crossed,     \* a recompute wrote over what it could not notice,
          lagging,     \* or expired rows were pruned, since the last recompute that nothing crossed
          contested    \* history: two writers had one document at once

countVars == <<held, tally, writer, tableLock, writes, torn, crossed, lagging, contested>>

NoTally == [there |-> FALSE, chunks |-> 0, docs |-> 0, sum |-> FALSE, mutations |-> 0, needs |-> FALSE]
Resting == [at |-> "none", kind |-> "none", doc |-> 0, cut |-> 0, batch |-> 1, claimed |-> FALSE, needs |-> FALSE,
            seen |-> NoTally, chunks |-> 0, docs |-> 0, met |-> FALSE]
Free == 0
Rows == UNION {{d} \X (1..held[d]) : d \in Documents}
Total == Cardinality(Rows)
Stored == Cardinality({d \in Documents : held[d] > 0})
\* No collection yet, or one whose row was recomputed.
CountInit == /\ held \in [Documents -> {0, 2}]
             /\ \/ Total = 0 /\ tally = NoTally
                \/ tally = [NoTally EXCEPT !.there = TRUE, !.chunks = Total, !.docs = Stored, !.sum = Total > 0]
             /\ writer = [w \in Writers |-> Resting]
             /\ tableLock = Free /\ writes = 0 /\ torn = FALSE /\ crossed = FALSE /\ lagging = FALSE /\ contested = FALSE

Goes(w, to) == writer' = [writer EXCEPT ![w] = to]
Take(w) == tableLock = Free /\ tableLock' = w
At(w, at) == writer[w].at = at
\* History: the recomputes that are under way meet rows that come or go without a move of the
\* counter or the flag, or a write that resets both.
Scanning(v) == writer[v].at \in {"vectors", "documents", "write"}
Met(to) == [v \in Writers |-> [to[v] EXCEPT !.met = @ \/ Scanning(v)]]
Unnoticed == tally'.mutations = tally.mutations /\ tally'.needs = tally.needs
Doc(w) == writer[w].doc
Recomputing(w) == [Resting EXCEPT !.at = "read", !.kind = writer[w].kind]   \* done with its document

\* A write of the row without its counts: what is left is to recompute.
Stale(row, mutations) == [row EXCEPT !.sum = FALSE, !.needs = TRUE, !.mutations = mutations]

-----------------------------------------------------------------------------
\* _ingest_text, delete_document, prune_expired_chunks.
Begin(w, kind, d) ==
  /\ At(w, "none") /\ writes < MaxWrites /\ writes' = writes + 1
  /\ kind # "ingest" => tally.there
  /\ Goes(w, [Resting EXCEPT !.at = IF kind = "prune" THEN "prune" ELSE "delete", !.kind = kind, !.doc = d])
  /\ contested' = (contested \/ \E v \in Writers : writer[v].doc = d)
  /\ UNCHANGED <<held, tally, tableLock, torn, crossed, lagging>>

\* delete_document under the lock; an ingest calls it for what it replaces.
DeleteRows(w) ==
  /\ At(w, "delete")
  /\ IF held[Doc(w)] = 0
     THEN /\ tableLock = Free /\ UNCHANGED <<held, tableLock>>
          /\ Goes(w, IF writer[w].kind = "ingest" THEN [writer[w] EXCEPT !.at = "add"] ELSE Resting)
     ELSE /\ Take(w) /\ held' = [held EXCEPT ![Doc(w)] = 0]
          /\ Goes(w, [writer[w] EXCEPT !.at = "subtract", !.cut = held[Doc(w)]])
  /\ UNCHANGED <<tally, writes, torn, crossed, lagging, contested>>
\* _do_subtract_meta_on_delete; a collection that is emptied has no sum.
Subtracted(cut) ==
  IF ~tally.there THEN tally
  ELSE IF ~tally.sum THEN Stale(tally, tally.mutations + cut)
  ELSE LET left == tally.chunks - cut IN
       [tally EXCEPT !.mutations = @ + cut, !.chunks = IF left > 0 THEN left ELSE 0, !.sum = left > 0,
                     !.docs = IF left > 0 /\ @ > 0 THEN @ - 1 ELSE 0]
Subtract(w) ==
  /\ At(w, "subtract") /\ tally' = Subtracted(writer[w].cut) /\ tableLock' = Free
  /\ Goes(w, [writer[w] EXCEPT !.at = IF writer[w].kind = "ingest" THEN "add" ELSE "settle"])
  /\ UNCHANGED <<held, writes, torn, crossed, lagging, contested>>

\* ingest_chunks: access, the claim of a new collection, the rows.
AddRows(w) ==
  /\ At(w, "add") /\ Take(w) /\ held' = [held EXCEPT ![Doc(w)] = @ + 1]
  /\ tally' = IF tally.there THEN tally ELSE [NoTally EXCEPT !.there = TRUE, !.needs = TRUE]
  /\ Goes(w, [writer[w] EXCEPT !.at = "count", !.claimed = ~tally.there])
  /\ UNCHANGED <<writes, torn, crossed, lagging, contested>>
\* The rows do not land: the claim is released, and the ingest ends.
AddFails(w) ==
  /\ At(w, "add") /\ tableLock = Free /\ Goes(w, Resting)
  /\ UNCHANGED <<held, tally, tableLock, writes, torn, crossed, lagging, contested>>
\* _do_update_meta_on_add; vectors may be unusable (NaN).
Counted(w, usable) ==
  LET newDoc == IF writer[w].batch = 1 THEN 1 ELSE 0 IN
  IF writer[w].claimed
  THEN IF usable THEN [there |-> TRUE, chunks |-> 1, docs |-> newDoc, sum |-> TRUE, mutations |-> 1, needs |-> FALSE]
       ELSE [NoTally EXCEPT !.there = TRUE, !.needs = TRUE]
  ELSE IF ~usable THEN [tally EXCEPT !.needs = TRUE]
  ELSE IF ~tally.sum THEN Stale(tally, tally.mutations)
  ELSE [tally EXCEPT !.chunks = @ + 1, !.docs = @ + newDoc, !.mutations = @ + 1]
AsksRecompute(w) == /\ ~(writer[w].claimed /\ tally'.sum)
                    /\ tally'.needs \/ tally'.mutations >= RecomputeAt
Count(w) ==
  /\ At(w, "count") /\ \E usable \in BOOLEAN : tally' = Counted(w, usable)
  /\ tableLock' = Free
  /\ LET needs == writer[w].needs \/ AsksRecompute(w) IN
     LET row == IF writer[w].batch = 1 THEN [writer[w] EXCEPT !.at = "add", !.batch = 2, !.needs = needs]
                ELSE IF needs THEN Recomputing(w) ELSE Resting
     IN writer' = IF Unnoticed THEN Met([writer EXCEPT ![w] = row]) ELSE [writer EXCEPT ![w] = row]
  /\ UNCHANGED <<held, writes, torn, crossed, lagging, contested>>

\* finalize_after_removal: a server without a description lifecycle does nothing, and neither
\* does one that cannot read the row.
Settle(w) ==
  /\ At(w, "settle")
  /\ \/ TRUE \in Describing /\ tally.needs /\ Goes(w, Recomputing(w))
     \/ Goes(w, Resting)
  /\ UNCHANGED <<held, tally, tableLock, writes, torn, crossed, lagging, contested>>

\* prune_expired_chunks takes no lock and leaves the row alone; what is being written is not
\* expired, and of a document only some chunks may be.
\* _run_expired_chunk_pruning reports a document only when all its chunks are gone, and what it
\* reports to does nothing without a description lifecycle.
Reported(left) == left = 0
Prune(w) ==
  /\ At(w, "prune") /\ \A v \in Writers : v # w => (writer[v].doc # Doc(w) \/ writer[v].at \in {"none", "delete"})
  /\ \/ held[Doc(w)] = 0 /\ Goes(w, Resting) /\ UNCHANGED <<held, lagging>>
     \/ \E left \in 0..(held[Doc(w)] - 1), describing \in Describing :
          /\ held' = [held EXCEPT ![Doc(w)] = left] /\ lagging' = TRUE
          /\ writer' = [Met(writer) EXCEPT ![w] = IF Reported(left) /\ describing THEN Recomputing(w) ELSE Resting]
  /\ UNCHANGED <<tally, tableLock, writes, torn, crossed, contested>>

-----------------------------------------------------------------------------
\* recompute_collection_meta: the row, the vectors, the documents, and the row again.
Forced(w) == writer[w].kind = "prune"
ReadRow(w) ==
  /\ At(w, "read")
  /\ IF ~Forced(w) /\ tally.there /\ ~tally.needs /\ tally.mutations = 0
     THEN Goes(w, Resting)
     ELSE Goes(w, [writer[w] EXCEPT !.at = "vectors", !.seen = tally, !.met = FALSE])
  /\ UNCHANGED <<held, tally, tableLock, writes, torn, crossed, lagging, contested>>
ScanVectors(w) ==
  /\ At(w, "vectors") /\ Goes(w, [writer[w] EXCEPT !.at = "documents", !.chunks = Total])
  /\ UNCHANGED <<held, tally, tableLock, writes, torn, crossed, lagging, contested>>
ScanDocuments(w) ==
  /\ At(w, "documents") /\ Goes(w, [writer[w] EXCEPT !.at = "write", !.docs = Stored])
  /\ UNCHANGED <<held, tally, tableLock, writes, torn, crossed, lagging, contested>>
\* A batch that landed during the scan keeps the row.
AlwaysUnchanged(w) == TRUE   \* mutant: no second look at the row
UnchangedSince(w) == tally.mutations = writer[w].seen.mutations /\ tally.needs = writer[w].seen.needs
WriteRow(w) ==
  /\ At(w, "write") /\ tableLock = Free
  /\ IF UnchangedSince(w)
     THEN /\ tally' = [there |-> TRUE, chunks |-> writer[w].chunks, docs |-> writer[w].docs,
                       sum |-> writer[w].chunks > 0, mutations |-> 0, needs |-> FALSE]
          /\ crossed' = writer[w].met
          /\ torn' = (torn /\ writer[w].met) /\ lagging' = (lagging /\ writer[w].met)
          /\ writer' = [Met(writer) EXCEPT ![w] = Resting]
     ELSE Goes(w, Resting) /\ UNCHANGED <<tally, torn, crossed, lagging>>
  /\ UNCHANGED <<held, tableLock, writes, contested>>

\* A writer fails or is killed where it stands.
Dies(w) ==
  /\ ~At(w, "none")
  /\ IF tableLock = w
     THEN tableLock' = Free /\ torn' = TRUE /\ writer' = [Met(writer) EXCEPT ![w] = Resting]
     ELSE Goes(w, Resting) /\ UNCHANGED <<tableLock, torn>>
  /\ UNCHANGED <<held, tally, writes, crossed, lagging, contested>>

CountNext ==
  \E w \in Writers :
    \/ \E d \in Documents, kind \in Kinds : Begin(w, kind, d)
    \/ DeleteRows(w) \/ Subtract(w) \/ AddRows(w) \/ AddFails(w) \/ Count(w) \/ Settle(w) \/ Prune(w)
    \/ ReadRow(w) \/ ScanVectors(w) \/ ScanDocuments(w) \/ WriteRow(w) \/ Dies(w)
CountSpec == CountInit /\ [][CountNext]_countVars

CountTypeOK == /\ held \in [Documents -> Nat] /\ tableLock \in {Free} \cup Writers
               /\ tally.chunks \in Nat /\ tally.docs \in Nat /\ tally.mutations \in Nat

-----------------------------------------------------------------------------
Quiet == \A w \in Writers : At(w, "none")
Right == tally.chunks = Total /\ tally.docs = Stored

\* recompute_collection_meta skips its scan when the row says that it needs none and counts no
\* mutation: its counts are then the table's, whatever documents the writers shared, unless
\* since the last recompute that nothing crossed a writer died between its rows and its counts,
\* expired rows were pruned, or another recompute was crossed.
ShortCircuitSafe == (Quiet /\ ~torn /\ ~crossed /\ ~lagging /\ tally.there /\ ~tally.needs /\ tally.mutations = 0) => Right

\* The counts kept from batch to batch are the table's whenever nobody writes and the row does
\* not ask for a recompute, as long as writers had different documents and with the same
\* exceptions; one recompute that nothing crosses makes up for each of them.
CountsRight == (Quiet /\ ~torn /\ ~crossed /\ ~lagging /\ ~contested /\ tally.there /\ ~tally.needs) => Right

\* What recompute_collection_meta says of a batch that lands during its scan: the row keeps
\* the totals it maintained, so that it never speaks for fewer chunks than there are.
LandedBatchKept == (Quiet /\ ~torn /\ ~contested /\ tally.there /\ ~tally.needs) => tally.chunks = Total
=============================================================================
