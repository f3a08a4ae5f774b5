---------------------------- MODULE TelemetryLog ----------------------------
(***************************************************************************)
(* The query telemetry: the bounded queue of TelemetryWriter, whose one    *)
(* task appends entries to a file per day, the shutdown that drains it,    *)
(* the daily Pruner, and a read of the log.  From the queue's get to its   *)
(* task_done the task awaits nothing: an entry is written in one step.     *)
(***************************************************************************)
EXTENDS Integers, Sequences, FiniteSets

CONSTANTS QueueSize, RetentionDays,
          MaxEntries, LastDay, MaxFaults   \* bounds

VARIABLES buffer,     \* the queue
          unfinished, \* its count of entries without a task_done, which join waits for
          writer,     \* the drain task: runs, crashed or cancelled
          stopping,   \* drain_and_stop: no, draining, joined or timed out
          fd,         \* the descriptor: none, open, or closed but kept; and the day of its file
          logs,       \* the files: day -> the entries in it
          wrote,      \* history: the same, unpruned
          today,
          put,        \* the entries accepted so far
          shed,       \* those that were dropped or could not be written
          faulty,     \* counts the faults
          reading     \* a read: the files it listed, what was written in its window, what it showed, and the
                      \* oldest day of the window when it ended

logVars == <<buffer, unfinished, writer, stopping, fd, logs, wrote, today, put, shed, faulty, reading>>

NoReading == [at |-> "idle", files |-> {}, due |-> <<>>, shown |-> {}, since |-> 0]
LogInit ==
  /\ buffer = <<>> /\ unfinished = 0 /\ writer = "runs" /\ stopping = "no"
  /\ fd = [is |-> "none", day |-> 0]
  /\ logs = <<>> /\ wrote = <<>> /\ today = 1 /\ put = 0 /\ shed = {} /\ faulty = 0 /\ reading = NoReading

-----------------------------------------------------------------------------
\* Mutant: the dropped entry gets no task_done.
DropUnbalanced(e) ==
  buffer' = Append(Tail(buffer), e) /\ shed' = shed \cup {Head(buffer)} /\ unfinished' = unfinished + 1
\* A full queue drops its oldest entry, with its task_done.
DropOldest(e) == buffer' = Append(Tail(buffer), e) /\ shed' = shed \cup {Head(buffer)} /\ UNCHANGED unfinished
Enqueue ==
  /\ put < MaxEntries /\ put' = put + 1
  /\ IF stopping # "no" THEN shed' = shed \cup {put + 1} /\ UNCHANGED <<buffer, unfinished>>
     ELSE IF Len(buffer) < QueueSize
     THEN buffer' = Append(buffer, put + 1) /\ unfinished' = unfinished + 1 /\ UNCHANGED shed
     ELSE DropOldest(put + 1)
  /\ UNCHANGED <<writer, stopping, fd, logs, wrote, today, faulty, reading>>

Entry == Head(buffer)
Taken == writer = "runs" /\ buffer # <<>> /\ buffer' = Tail(buffer) /\ unfinished' = unfinished - 1
Fault == faulty < MaxFaults /\ faulty' = faulty + 1
Lost == shed' = shed \cup {Entry}
Of(f, d) == IF d \in DOMAIN f THEN f[d] ELSE {}
With(f, d, s) == [x \in DOMAIN f \cup {d} |-> IF x = d THEN s ELSE f[x]]
From(f, d) == [x \in {y \in DOMAIN f : y >= d} |-> f[x]]
\* _append: into the file of the day, which is opened when the day changed.  A kept descriptor whose number has
\* come to name another file is synced and closed like the old one.
Write ==
  /\ Taken
  /\ fd' = [is |-> "open", day |-> today] /\ logs' = With(logs, today, Of(logs, today) \cup {Entry})
  /\ wrote' = With(wrote, today, Of(wrote, today) \cup {Entry})
  /\ UNCHANGED <<writer, stopping, today, put, shed, faulty, reading>>
\* An entry that does not fit even without its results, or a failed write: the entry is dropped.
WriteFails ==
  /\ Taken /\ Fault /\ Lost
  /\ \/ UNCHANGED <<fd, logs>>
     \/ fd' = [is |-> "open", day |-> today] /\ logs' = With(logs, today, Of(logs, today))
  /\ UNCHANGED <<writer, stopping, wrote, today, put, reading>>
\* The fsync of a rotation fails: the descriptor is given up.
SyncFails ==
  /\ Taken /\ Fault /\ Lost /\ fd.is = "open" /\ fd.day # today
  /\ fd' = [is |-> "none", day |-> 0]
  /\ UNCHANGED <<writer, stopping, logs, wrote, today, put, reading>>
\* The new file cannot be opened: the old descriptor is closed already, and kept.
OpenFails ==
  /\ Taken /\ Fault /\ Lost /\ fd.day # today
  /\ fd' = IF fd.is = "open" THEN [fd EXCEPT !.is = "kept"] ELSE fd
  /\ UNCHANGED <<writer, stopping, logs, wrote, today, put, reading>>
\* The fsync of a closed descriptor fails.
KeptFails ==
  /\ Taken /\ Lost /\ fd.is = "kept"
  /\ fd' = [is |-> "none", day |-> 0]
  /\ UNCHANGED <<writer, stopping, logs, wrote, today, put, faulty, reading>>
\* Any other exception ends the task, after the task_done of its entry.
Crash ==
  /\ Taken /\ Fault /\ Lost /\ writer' = "crashed"
  /\ UNCHANGED <<stopping, fd, logs, wrote, today, put, reading>>

\* drain_and_stop; the lifespan cancels the background tasks after it.
DrainBegin ==
  /\ stopping = "no" /\ stopping' = "draining"
  /\ UNCHANGED <<buffer, unfinished, writer, fd, logs, wrote, today, put, shed, faulty, reading>>
Joinable == unfinished = 0
Stop(how) ==
  /\ stopping = "draining" /\ stopping' = how
  /\ writer' = IF writer = "runs" THEN "cancelled" ELSE writer
  /\ fd' = [fd EXCEPT !.is = "none"]
  /\ UNCHANGED <<buffer, unfinished, logs, wrote, today, put, shed, faulty, reading>>
Joined == Joinable /\ Stop("joined")
DrainTimesOut == unfinished > 0 /\ Stop("timed out")

\* prune_once: by the names of the files.
Pruned(d) == d < today - RetentionDays /\ d # today
Prune ==
  /\ \E d \in DOMAIN logs : Pruned(d)
  /\ logs' = [d \in {x \in DOMAIN logs : ~Pruned(x)} |-> logs[d]]
  /\ UNCHANGED <<buffer, unfinished, writer, stopping, fd, wrote, today, put, shed, faulty, reading>>
Tick == today < LastDay /\ today' = today + 1
        /\ UNCHANGED <<buffer, unfinished, writer, stopping, fd, logs, wrote, put, shed, faulty, reading>>

\* resolve_dates and files_in_range: the window that ends today, and the files in it.
ReadBegin ==
  /\ reading.at = "idle"
  /\ reading' = [at |-> "listed", files |-> DOMAIN From(logs, today - RetentionDays),
                 due |-> From(wrote, today - RetentionDays), shown |-> {}, since |-> 0]
  /\ UNCHANGED <<buffer, unfinished, writer, stopping, fd, logs, wrote, today, put, shed, faulty>>
\* read_entries: a file that the pruner took meanwhile is skipped.
ReadEnd ==
  /\ reading.at = "listed"
  /\ reading' = [reading EXCEPT !.at = "read", !.shown = UNION {Of(logs, d) : d \in reading.files},
                                !.since = today - RetentionDays]
  /\ UNCHANGED <<buffer, unfinished, writer, stopping, fd, logs, wrote, today, put, shed, faulty>>

LogNext == \/ Enqueue \/ Write \/ WriteFails \/ SyncFails \/ OpenFails \/ KeptFails \/ Crash
           \/ DrainBegin \/ Joined \/ DrainTimesOut \/ Prune \/ Tick \/ ReadBegin \/ ReadEnd
LogSpec == LogInit /\ [][LogNext]_logVars

-----------------------------------------------------------------------------
Entries == 1..MaxEntries
DayFiles(f) == DOMAIN f \subseteq 1..LastDay /\ \A d \in DOMAIN f : f[d] \subseteq Entries
\* The types of the telemetry's state; the descriptor is that of the current day or an earlier one.
LogTypeOK ==
  /\ Len(buffer) <= QueueSize /\ \A i \in DOMAIN buffer : buffer[i] \in Entries
  /\ unfinished \in 0..MaxEntries /\ writer \in {"runs", "crashed", "cancelled"}
  /\ stopping \in {"no", "draining", "joined", "timed out"}
  /\ fd \in [is : {"none", "open", "kept"}, day : 0..today]
  /\ DayFiles(logs) /\ DayFiles(wrote) /\ today \in 1..LastDay /\ put \in 0..MaxEntries
  /\ shed \subseteq Entries /\ faulty \in 0..MaxFaults
  /\ reading.at \in {"idle", "listed", "read"} /\ DayFiles(reading.due) /\ reading.shown \subseteq Entries

\* Nothing waits that the join does not count, and the join waits for nothing that no longer waits: a drain ends by
\* itself as soon as the queue is empty, however often the queue overflowed.
JoinBalanced == unfinished = Len(buffer)
\* A drain that did not time out left no accepted entry behind: each is in a file, or was dropped by a full queue,
\* by a failed write or after the stop.
DrainedAll == stopping = "joined" => 1..put = shed \cup UNION {wrote[d] : d \in DOMAIN wrote}
\* A read shows every entry that was written before it and is still within the retention when it ends, also when the
\* day changes and the pruner runs in between.
WindowRead ==
  reading.at = "read" =>
    \A d \in DOMAIN reading.due : d >= reading.since => reading.due[d] \subseteq reading.shown
=============================================================================
