--------------------------- MODULE RequestsProofs ---------------------------
(***************************************************************************)
(* Components of MCRequests, for every value of their constants: the       *)
(* telemetry log, the backup loop, the keys and the first key, the search  *)
(* over several collections and the one over one, the communities, and the *)
(* wizard's runs with its lock.  A step of another component leaves the    *)
(* variables of these alone.                                               *)
(***************************************************************************)
EXTENDS MCRequests, Sequences, FiniteSets, FiniteSetTheorems, SequenceTheorems, TLAPS

-----------------------------------------------------------------------------
(* TelemetryLog *)

Waits == {buffer[i] : i \in 1..Len(buffer)}
Written == UNION {wrote[d] : d \in DOMAIN wrote}

BufferTyped == buffer \in Seq(1..MaxEntries) /\ Len(buffer) <= QueueSize /\ Len(buffer) <= put
CountsTyped == /\ today \in 1..LastDay /\ put \in 0..MaxEntries /\ faulty \in 0..MaxFaults
               /\ shed \subseteq 1..MaxEntries
StatesTyped == /\ writer \in {"runs", "crashed", "cancelled"}
               /\ stopping \in {"no", "draining", "joined", "timed out"}
FdTyped == fd \in [is : {"none", "open", "kept"}, day : 0..today]
LogTyped == BufferTyped /\ CountsTyped /\ StatesTyped /\ FdTyped

FilesTyped ==
  /\ DOMAIN logs \subseteq 1..LastDay /\ logs \in [DOMAIN logs -> SUBSET (1..MaxEntries)]
  /\ DOMAIN wrote \subseteq 1..LastDay /\ wrote \in [DOMAIN wrote -> SUBSET (1..MaxEntries)]

ReadTyped ==
  /\ reading \in [at : {"idle", "listed", "read"}, files : SUBSET (1..LastDay),
                  due : {reading.due}, shown : SUBSET (1..MaxEntries), since : Int]
  /\ DOMAIN reading.due \subseteq 1..LastDay
  /\ reading.due \in [DOMAIN reading.due -> SUBSET (1..MaxEntries)]

\* The queue's count of unfinished entries is its length.
Balanced == unfinished = Len(buffer)

\* Every entry that was accepted waits, was written or was given up.
Accounted == 1..put = shed \cup Waits \cup Written

\* A drain that joined left no task and no entry.
JoinedIsOver == stopping = "joined" => buffer = <<>> /\ writer # "runs"

\* The pruner takes no file of the window that a read covers.
Kept(f, d) == d \in DOMAIN logs /\ f[d] \subseteq logs[d]
WindowKept == \A d \in DOMAIN wrote : d >= today - RetentionDays => Kept(wrote, d)
ListedKept ==
  reading.at = "listed" =>
    \A d \in DOMAIN reading.due :
      d >= today - RetentionDays => d \in reading.files /\ Kept(reading.due, d)
ShownKept ==
  reading.at = "read" =>
    \A d \in DOMAIN reading.due : d >= reading.since => reading.due[d] \subseteq reading.shown

LogInv == /\ LogTyped /\ FilesTyped /\ ReadTyped /\ Balanced /\ Accounted /\ JoinedIsOver
          /\ WindowKept /\ ListedKept /\ ShownKept

\* The queue's two ends.
LEMMA WaitsTail ==
  ASSUME NEW s \in Seq(1..MaxEntries), s # <<>>
  PROVE  /\ Head(s) \in 1..MaxEntries /\ Tail(s) \in Seq(1..MaxEntries)
         /\ Len(Tail(s)) = Len(s) - 1 /\ Len(s) > 0
         /\ {s[i] : i \in 1..Len(s)} = {Head(s)} \cup {Tail(s)[i] : i \in 1..Len(Tail(s))}
<1>1. /\ Head(s) \in 1..MaxEntries /\ Tail(s) \in Seq(1..MaxEntries)
      /\ Len(Tail(s)) = Len(s) - 1 /\ Len(s) > 0 /\ Head(s) = s[1]
      /\ \A i \in 1..Len(Tail(s)) : Tail(s)[i] = s[i + 1]
  <2> DEFINE S == 1..MaxEntries
  <2>1. /\ Head(s) \in S /\ Tail(s) \in Seq(S) /\ Len(Tail(s)) = Len(s) - 1
        /\ \A i \in 1..Len(Tail(s)) : Tail(s)[i] = s[i + 1]
    <3> HIDE DEF S
    <3> QED
      BY HeadTailProperties DEF S
  <2>2. Len(s) > 0
    BY EmptySeq
  <2>3. Head(s) = s[1]
    OBVIOUS
  <2> QED
    BY <2>1, <2>2, <2>3
<1>2. ASSUME NEW i \in 1..Len(s) PROVE s[i] \in {Head(s)} \cup {Tail(s)[j] : j \in 1..Len(Tail(s))}
  <2>1. CASE i = 1
    BY <2>1, <1>1
  <2>2. CASE i # 1
    <3>1. i - 1 \in 1..Len(Tail(s)) /\ Tail(s)[i - 1] = s[i]
      BY <2>2, <1>1
    <3> QED
      BY <3>1
  <2> QED
    BY <2>1, <2>2
<1>3. ASSUME NEW j \in 1..Len(Tail(s)) PROVE Tail(s)[j] \in {s[i] : i \in 1..Len(s)}
  <2>1. j + 1 \in 1..Len(s) /\ Tail(s)[j] = s[j + 1]
    BY <1>1
  <2> QED
    BY <2>1
<1>4. Head(s) \in {s[i] : i \in 1..Len(s)}
  <2>1. 1 \in 1..Len(s)
    BY <1>1
  <2> QED
    BY <2>1, <1>1
<1> QED
  BY <1>1, <1>2, <1>3, <1>4

LEMMA WaitsAppend ==
  ASSUME NEW s \in Seq(1..MaxEntries), NEW e \in 1..MaxEntries
  PROVE  /\ Append(s, e) \in Seq(1..MaxEntries) /\ Len(Append(s, e)) = Len(s) + 1
         /\ {Append(s, e)[i] : i \in 1..Len(Append(s, e))} = {s[i] : i \in 1..Len(s)} \cup {e}
<1>1. /\ Append(s, e) \in Seq(1..MaxEntries) /\ Len(Append(s, e)) = Len(s) + 1
      /\ \A i \in 1..Len(s) : Append(s, e)[i] = s[i]
      /\ Append(s, e)[Len(s) + 1] = e /\ Len(s) \in Nat
  OBVIOUS
<1>2. 1..(Len(s) + 1) = 1..Len(s) \cup {Len(s) + 1}
  BY <1>1
<1> QED
  BY <1>1, <1>2

\* What taking an entry does to the queue.
LEMMA TakenFacts ==
  ASSUME BufferTyped, Balanced, Log!Taken
  PROVE  /\ writer = "runs" /\ Log!Entry \in 1..MaxEntries
         /\ buffer' \in Seq(1..MaxEntries) /\ Len(buffer') = Len(buffer) - 1 /\ Len(buffer) > 0
         /\ Waits = {Log!Entry} \cup Waits' /\ Balanced'
<1>1. buffer \in Seq(1..MaxEntries) /\ buffer # <<>> /\ buffer' = Tail(buffer) /\ writer = "runs"
  BY DEF BufferTyped, Log!Taken
<1>2. /\ Head(buffer) \in 1..MaxEntries /\ Tail(buffer) \in Seq(1..MaxEntries)
      /\ Len(Tail(buffer)) = Len(buffer) - 1 /\ Len(buffer) > 0
      /\ {buffer[i] : i \in 1..Len(buffer)} =
           {Head(buffer)} \cup {Tail(buffer)[i] : i \in 1..Len(Tail(buffer))}
  BY <1>1, WaitsTail
<1>3. Waits = {Log!Entry} \cup Waits'
  BY <1>1, <1>2 DEF Waits, Log!Entry
<1>4. Balanced'
  BY <1>1, <1>2 DEF Balanced, Log!Taken
<1> QED
  BY <1>1, <1>2, <1>3, <1>4 DEF Log!Entry

\* A write of the day's file.
LEMMA WithFacts ==
  ASSUME NEW f, NEW d \in 1..LastDay, NEW S \in SUBSET (1..MaxEntries),
         DOMAIN f \subseteq 1..LastDay, f \in [DOMAIN f -> SUBSET (1..MaxEntries)]
  PROVE  /\ DOMAIN Log!With(f, d, S) = DOMAIN f \cup {d}
         /\ Log!With(f, d, S) \in [DOMAIN f \cup {d} -> SUBSET (1..MaxEntries)]
         /\ Log!With(f, d, S)[d] = S
         /\ \A x \in DOMAIN f : x # d => Log!With(f, d, S)[x] = f[x]
         /\ Log!Of(f, d) \in SUBSET (1..MaxEntries)
         /\ d \in DOMAIN f => Log!Of(f, d) = f[d]
BY DEF Log!With, Log!Of

\* The queue under every step.
QueueHolds == LogTyped /\ Balanced /\ Accounted /\ JoinedIsOver

LEMMA EnqueueQueue ==
  ASSUME LogInv, Log!Enqueue
  PROVE  QueueHolds'
<1> USE TelemetryFits
<1>a. BufferTyped /\ CountsTyped /\ StatesTyped /\ FdTyped /\ Balanced /\ Accounted /\ JoinedIsOver
  BY DEF LogInv, LogTyped
<1>b. put' = put + 1 /\ put < MaxEntries /\ UNCHANGED <<writer, stopping, fd, wrote, today, faulty>>
  BY DEF Log!Enqueue
<1>0. put \in Nat /\ put' \in 0..MaxEntries /\ put + 1 \in 1..MaxEntries
  BY <1>a, <1>b DEF CountsTyped
<1>1. 1..put' = 1..put \cup {put + 1}
  BY <1>0, <1>b
<1>2. Written' = Written /\ StatesTyped' /\ FdTyped'
  BY <1>a, <1>b DEF Written, StatesTyped, FdTyped
<1>3. CASE stopping # "no"
  <2>1. shed' = shed \cup {put + 1} /\ UNCHANGED <<buffer, unfinished>>
    BY <1>3 DEF Log!Enqueue
  <2>2. BufferTyped'
    BY <1>a, <1>b, <1>0, <2>1 DEF BufferTyped
  <2>3. CountsTyped'
    BY <1>a, <1>b, <1>0, <2>1 DEF CountsTyped
  <2>4. Waits' = Waits /\ Balanced' /\ JoinedIsOver'
    BY <1>a, <1>b, <2>1 DEF Waits, Balanced, JoinedIsOver
  <2>5. Accounted'
    BY <1>a, <1>1, <1>2, <2>1, <2>4 DEF Accounted
  <2> QED
    BY <1>2, <2>2, <2>3, <2>4, <2>5 DEF QueueHolds, LogTyped
<1>4. CASE stopping = "no" /\ Len(buffer) < QueueSize
  <2>1. buffer' = Append(buffer, put + 1) /\ unfinished' = unfinished + 1 /\ UNCHANGED shed
    BY <1>4 DEF Log!Enqueue
  <2>2. /\ buffer' \in Seq(1..MaxEntries) /\ Len(buffer') = Len(buffer) + 1
        /\ Waits' = Waits \cup {put + 1}
    BY <1>0, <1>a, <2>1, WaitsAppend DEF BufferTyped, Waits
  <2>3. BufferTyped'
    BY <1>a, <1>b, <1>0, <1>4, <2>1, <2>2 DEF BufferTyped
  <2>4. CountsTyped' /\ Balanced' /\ JoinedIsOver'
    BY <1>a, <1>b, <1>0, <1>4, <2>1, <2>2 DEF CountsTyped, Balanced, JoinedIsOver
  <2>5. Accounted'
    BY <1>a, <1>1, <1>2, <2>1, <2>2 DEF Accounted
  <2> QED
    BY <1>2, <2>3, <2>4, <2>5 DEF QueueHolds, LogTyped
<1>5. CASE stopping = "no" /\ ~(Len(buffer) < QueueSize)
  <2>1. buffer' = Append(Tail(buffer), put + 1) /\ shed' = shed \cup {Head(buffer)} /\ UNCHANGED unfinished
    BY <1>5 DEF Log!Enqueue, Log!DropOldest
  <2>2. buffer \in Seq(1..MaxEntries) /\ buffer # <<>> /\ Len(buffer) = QueueSize
    BY <1>5, <1>a DEF BufferTyped
  <2>3. /\ Head(buffer) \in 1..MaxEntries /\ Tail(buffer) \in Seq(1..MaxEntries)
        /\ Len(Tail(buffer)) = Len(buffer) - 1
        /\ Waits = {Head(buffer)} \cup {Tail(buffer)[i] : i \in 1..Len(Tail(buffer))}
    BY <2>2, WaitsTail DEF Waits
  <2>4. /\ buffer' \in Seq(1..MaxEntries) /\ Len(buffer') = Len(Tail(buffer)) + 1
        /\ Waits' = {Tail(buffer)[i] : i \in 1..Len(Tail(buffer))} \cup {put + 1}
    <3> DEFINE t == Tail(buffer)
    <3>1. t \in Seq(1..MaxEntries) /\ buffer' = Append(t, put + 1)
      BY <2>1, <2>3
    <3> HIDE DEF t
    <3>2. /\ Append(t, put + 1) \in Seq(1..MaxEntries) /\ Len(Append(t, put + 1)) = Len(t) + 1
          /\ {Append(t, put + 1)[i] : i \in 1..Len(Append(t, put + 1))} =
               {t[i] : i \in 1..Len(t)} \cup {put + 1}
      BY <1>0, <3>1, WaitsAppend
    <3>3. Waits' = {t[i] : i \in 1..Len(t)} \cup {put + 1}
      BY <3>1, <3>2 DEF Waits
    <3> QED
      BY <3>1, <3>2, <3>3 DEF t
  <2>5. Len(buffer') = Len(buffer) /\ Len(buffer) \in Nat
    BY <2>2, <2>3, <2>4
  <2>6. BufferTyped'
    BY <1>a, <1>b, <1>0, <2>4, <2>5 DEF BufferTyped
  <2>7. CountsTyped' /\ Balanced' /\ JoinedIsOver'
    BY <1>a, <1>b, <1>0, <1>5, <2>1, <2>3, <2>5 DEF CountsTyped, Balanced, JoinedIsOver
  <2>8. Accounted'
    BY <1>a, <1>1, <1>2, <2>1, <2>3, <2>4 DEF Accounted
  <2> QED
    BY <1>2, <2>6, <2>7, <2>8 DEF QueueHolds, LogTyped
<1> QED
  BY <1>3, <1>4, <1>5

\* An entry is taken, and written or given up.
LEMMA TakenQueue ==
  ASSUME LogInv, Log!Taken, UNCHANGED <<stopping, today, put>>,
         writer' \in {writer, "crashed"}, FdTyped',
         faulty' \in 0..MaxFaults, shed' = shed \cup {Log!Entry} \/ shed' = shed,
         shed' \cup Written' = shed \cup Written \cup {Log!Entry}
  PROVE  QueueHolds'
<1>1. /\ writer = "runs" /\ Log!Entry \in 1..MaxEntries
      /\ buffer' \in Seq(1..MaxEntries) /\ Len(buffer') = Len(buffer) - 1 /\ Len(buffer) > 0
      /\ Waits = {Log!Entry} \cup Waits' /\ Balanced'
  BY TakenFacts DEF LogInv, LogTyped
<1>a. BufferTyped /\ CountsTyped /\ StatesTyped /\ Accounted /\ JoinedIsOver
  BY DEF LogInv, LogTyped
<1>b. BufferTyped'
  BY <1>1, <1>a, TelemetryFits DEF BufferTyped, CountsTyped
<1>d. StatesTyped' /\ JoinedIsOver'
  BY <1>1, <1>a DEF StatesTyped, JoinedIsOver
<1>c. CountsTyped'
  BY <1>1, <1>a DEF CountsTyped
<1>2. LogTyped'
  BY <1>b, <1>c, <1>d DEF LogTyped
<1>3. Accounted'
  BY <1>1, <1>a DEF Accounted
<1>4. JoinedIsOver'
  BY <1>d
<1> QED
  BY <1>1, <1>2, <1>3, <1>4 DEF QueueHolds

LEMMA StepQueue ==
  ASSUME LogInv, Log!LogNext
  PROVE  QueueHolds'
<1> USE TelemetryFits
<1>0. BufferTyped /\ CountsTyped /\ StatesTyped /\ FdTyped /\ Balanced /\ FilesTyped
  BY DEF LogInv, LogTyped
<1>1. CASE Log!Enqueue
  BY <1>1, EnqueueQueue
<1>2. CASE Log!Write
  <2>1. Log!Entry \in 1..MaxEntries /\ today \in 1..LastDay
    BY <1>0, <1>2, TakenFacts DEF CountsTyped, Log!Write
  <2> DEFINE S == Log!Of(wrote, today) \cup {Log!Entry}
  <2>2. S \in SUBSET (1..MaxEntries) /\ (today \in DOMAIN wrote => Log!Of(wrote, today) = wrote[today])
    BY <1>0, <2>1, WithFacts DEF FilesTyped
  <2>3. /\ DOMAIN wrote' = DOMAIN wrote \cup {today} /\ wrote'[today] = S
        /\ \A x \in DOMAIN wrote : x # today => wrote'[x] = wrote[x]
    <3>1. wrote' = Log!With(wrote, today, S)
      BY <1>2 DEF Log!Write
    <3>2. /\ today \in 1..LastDay /\ S \in SUBSET (1..MaxEntries)
          /\ DOMAIN wrote \subseteq 1..LastDay /\ wrote \in [DOMAIN wrote -> SUBSET (1..MaxEntries)]
      BY <1>0, <2>1, <2>2 DEF FilesTyped
    <3> HIDE DEF S
    <3>3. /\ DOMAIN Log!With(wrote, today, S) = DOMAIN wrote \cup {today}
          /\ Log!With(wrote, today, S) \in [DOMAIN wrote \cup {today} -> SUBSET (1..MaxEntries)]
          /\ Log!With(wrote, today, S)[today] = S
          /\ \A x \in DOMAIN wrote : x # today => Log!With(wrote, today, S)[x] = wrote[x]
      BY <3>2 DEF Log!With
    <3> QED
      BY <3>1, <3>3
  <2>4. today \notin DOMAIN wrote => Log!Of(wrote, today) = {}
    BY DEF Log!Of
  <2>5. Written' = Written \cup {Log!Entry}
    <3> HIDE DEF S
    <3>1. \A x \in DOMAIN wrote : wrote[x] \subseteq wrote'[x]
      BY <2>2, <2>3 DEF S
    <3>2. \A x \in DOMAIN wrote' : wrote'[x] \subseteq Written \cup {Log!Entry}
      BY <2>2, <2>3, <2>4 DEF S, Written
    <3>3. Log!Entry \in wrote'[today] /\ today \in DOMAIN wrote' /\ DOMAIN wrote \subseteq DOMAIN wrote'
      BY <2>3 DEF S
    <3> QED
      BY <3>1, <3>2, <3>3 DEF Written
  <2> QED
    <3>1. /\ Log!Taken /\ UNCHANGED <<writer, stopping, today, put, shed, faulty>>
          /\ fd' = [is |-> "open", day |-> today]
      BY <1>2 DEF Log!Write
    <3>2. FdTyped' /\ faulty' \in 0..MaxFaults
      BY <1>0, <3>1 DEF FdTyped, CountsTyped
    <3> QED
      BY <2>5, <3>1, <3>2, TakenQueue
<1>3. CASE Log!WriteFails
  <2>1. /\ Log!Taken /\ shed' = shed \cup {Log!Entry} /\ UNCHANGED <<stopping, today, put, wrote>>
        /\ writer' \in {writer, "crashed"}
    BY <1>3 DEF Log!WriteFails, Log!Lost
  <2>2. FdTyped'
    BY <1>3, <1>0 DEF Log!WriteFails, FdTyped, CountsTyped
  <2>4. faulty' \in 0..MaxFaults
    BY <1>3, <1>0 DEF Log!WriteFails, Log!Fault, CountsTyped
  <2>3. Written' = Written
    BY <2>1 DEF Written
  <2> QED
    BY <2>1, <2>2, <2>3, <2>4, TakenQueue
<1>4. CASE Log!SyncFails
  <2>1. /\ Log!Taken /\ shed' = shed \cup {Log!Entry} /\ UNCHANGED <<stopping, today, put, wrote>>
        /\ writer' \in {writer, "crashed"}
    BY <1>4 DEF Log!SyncFails, Log!Lost
  <2>2. FdTyped'
    BY <1>4, <1>0 DEF Log!SyncFails, FdTyped, CountsTyped
  <2>4. faulty' \in 0..MaxFaults
    BY <1>4, <1>0 DEF Log!SyncFails, Log!Fault, CountsTyped
  <2>3. Written' = Written
    BY <2>1 DEF Written
  <2> QED
    BY <2>1, <2>2, <2>3, <2>4, TakenQueue
<1>5. CASE Log!OpenFails
  <2>1. /\ Log!Taken /\ shed' = shed \cup {Log!Entry} /\ UNCHANGED <<stopping, today, put, wrote>>
        /\ writer' \in {writer, "crashed"}
    BY <1>5 DEF Log!OpenFails, Log!Lost
  <2>2. FdTyped'
    BY <1>5, <1>0 DEF Log!OpenFails, FdTyped, CountsTyped
  <2>4. faulty' \in 0..MaxFaults
    BY <1>5, <1>0 DEF Log!OpenFails, Log!Fault, CountsTyped
  <2>3. Written' = Written
    BY <2>1 DEF Written
  <2> QED
    BY <2>1, <2>2, <2>3, <2>4, TakenQueue
<1>6. CASE Log!KeptFails
  <2>1. /\ Log!Taken /\ shed' = shed \cup {Log!Entry} /\ UNCHANGED <<stopping, today, put, wrote>>
        /\ writer' \in {writer, "crashed"}
    BY <1>6 DEF Log!KeptFails, Log!Lost
  <2>2. FdTyped'
    BY <1>6, <1>0 DEF Log!KeptFails, FdTyped, CountsTyped
  <2>4. faulty' \in 0..MaxFaults
    BY <1>6, <1>0 DEF Log!KeptFails, Log!Fault, CountsTyped
  <2>3. Written' = Written
    BY <2>1 DEF Written
  <2> QED
    BY <2>1, <2>2, <2>3, <2>4, TakenQueue
<1>7. CASE Log!Crash
  <2>1. /\ Log!Taken /\ shed' = shed \cup {Log!Entry} /\ UNCHANGED <<stopping, today, put, wrote>>
        /\ writer' \in {writer, "crashed"}
    BY <1>7 DEF Log!Crash, Log!Lost
  <2>2. FdTyped'
    BY <1>7, <1>0 DEF Log!Crash, FdTyped, CountsTyped
  <2>4. faulty' \in 0..MaxFaults
    BY <1>7, <1>0 DEF Log!Crash, Log!Fault, CountsTyped
  <2>3. Written' = Written
    BY <2>1 DEF Written
  <2> QED
    BY <2>1, <2>2, <2>3, <2>4, TakenQueue
<1>8. CASE Log!DrainBegin \/ Log!Joined \/ Log!DrainTimesOut
  <2>1. UNCHANGED <<buffer, unfinished, wrote, today, put, shed, faulty>>
    BY <1>8 DEF Log!DrainBegin, Log!Joined, Log!DrainTimesOut, Log!Stop
  <2>a. BufferTyped' /\ CountsTyped'
    BY <1>0, <2>1 DEF BufferTyped, CountsTyped
  <2>b. StatesTyped' /\ FdTyped'
    BY <1>0, <1>8, <2>1 DEF StatesTyped, FdTyped, Log!DrainBegin, Log!Joined, Log!DrainTimesOut, Log!Stop
  <2>2. LogTyped'
    BY <2>a, <2>b DEF LogTyped
  <2>3. Waits' = Waits /\ Written' = Written
    BY <2>1 DEF Waits, Written
  <2>4. JoinedIsOver'
    <3>1. unfinished = 0 => buffer = <<>>
      BY <1>0, EmptySeq DEF BufferTyped, Balanced
    <3> QED
      BY <1>8, <2>1, <3>1
         DEF LogInv, JoinedIsOver, Log!DrainBegin, Log!Joined, Log!DrainTimesOut, Log!Stop, Log!Joinable
  <2> QED
    BY <2>1, <2>2, <2>3, <2>4 DEF LogInv, QueueHolds, Balanced, Accounted
<1>9. CASE Log!Prune \/ Log!Tick \/ Log!ReadBegin \/ Log!ReadEnd
  <2>1. /\ UNCHANGED <<buffer, unfinished, writer, stopping, fd, wrote, put, shed, faulty>>
        /\ today' \in today..LastDay
    BY <1>9, <1>0 DEF Log!Prune, Log!Tick, Log!ReadBegin, Log!ReadEnd, CountsTyped
  <2>a. BufferTyped' /\ StatesTyped'
    BY <1>0, <2>1 DEF BufferTyped, StatesTyped
  <2>c. CountsTyped'
    <3>1. today' \in 1..LastDay
      BY <1>0, <2>1 DEF CountsTyped
    <3> QED
      BY <1>0, <2>1, <3>1 DEF CountsTyped
  <2>b. FdTyped'
    BY <1>0, <2>1 DEF FdTyped, CountsTyped
  <2>2. LogTyped'
    BY <2>a, <2>b, <2>c DEF LogTyped
  <2> QED
    BY <2>1, <2>2 DEF LogInv, QueueHolds, Balanced, Accounted, JoinedIsOver, Waits, Written
<1> QED
  BY <1>1, <1>2, <1>3, <1>4, <1>5, <1>6, <1>7, <1>8, <1>9 DEF Log!LogNext

-----------------------------------------------------------------------------
\* The files and a read under every step.
FilesHold == FilesTyped /\ ReadTyped /\ WindowKept /\ ListedKept /\ ShownKept

\* A file that only grows, and a clock that stands still.
LEMMA FilesGrow ==
  ASSUME LogInv, UNCHANGED <<today, reading>>, FilesTyped', WindowKept',
         \A d \in DOMAIN logs : d \in DOMAIN logs' /\ logs[d] \subseteq logs'[d]
  PROVE  FilesHold'
<1>1. ReadTyped' /\ ShownKept'
  BY DEF LogInv, ReadTyped, ShownKept
<1>2. ListedKept'
  BY DEF LogInv, ListedKept, Kept
<1> QED
  BY <1>1, <1>2 DEF FilesHold

LEMMA StepFiles ==
  ASSUME LogInv, Log!LogNext
  PROVE  FilesHold'
<1> USE TelemetryFits
<1>0. today \in 1..LastDay /\ FilesTyped /\ ReadTyped /\ WindowKept /\ ListedKept /\ ShownKept
  BY DEF LogInv, LogTyped, CountsTyped
<1>1. CASE Log!Write
  <2>0. Log!Entry \in 1..MaxEntries
    BY <1>1, TakenFacts DEF LogInv, LogTyped, Log!Write
  <2> DEFINE S == Log!Of(wrote, today) \cup {Log!Entry}
             T == Log!Of(logs, today) \cup {Log!Entry}
  <2>1. /\ S \in SUBSET (1..MaxEntries) /\ T \in SUBSET (1..MaxEntries)
        /\ today \in DOMAIN logs => Log!Of(logs, today) = logs[today]
        /\ today \in DOMAIN wrote => Log!Of(wrote, today) = wrote[today]
    BY <1>0, <2>0, WithFacts DEF LogInv, FilesTyped
  <2>2. /\ DOMAIN wrote' = DOMAIN wrote \cup {today} /\ wrote'[today] = S
        /\ wrote' \in [DOMAIN wrote \cup {today} -> SUBSET (1..MaxEntries)]
        /\ \A x \in DOMAIN wrote : x # today => wrote'[x] = wrote[x]
    <3>1. wrote' = Log!With(wrote, today, S)
      BY <1>1 DEF Log!Write
    <3>2. /\ today \in 1..LastDay /\ S \in SUBSET (1..MaxEntries)
          /\ DOMAIN wrote \subseteq 1..LastDay /\ wrote \in [DOMAIN wrote -> SUBSET (1..MaxEntries)]
      BY <1>0, <2>1 DEF FilesTyped
    <3> HIDE DEF S, T
    <3>3. /\ DOMAIN Log!With(wrote, today, S) = DOMAIN wrote \cup {today}
          /\ Log!With(wrote, today, S) \in [DOMAIN wrote \cup {today} -> SUBSET (1..MaxEntries)]
          /\ Log!With(wrote, today, S)[today] = S
          /\ \A x \in DOMAIN wrote : x # today => Log!With(wrote, today, S)[x] = wrote[x]
      BY <3>2 DEF Log!With
    <3> QED
      BY <3>1, <3>3
  <2>3. /\ DOMAIN logs' = DOMAIN logs \cup {today} /\ logs'[today] = T
        /\ logs' \in [DOMAIN logs \cup {today} -> SUBSET (1..MaxEntries)]
        /\ \A x \in DOMAIN logs : x # today => logs'[x] = logs[x]
    <3>1. logs' = Log!With(logs, today, T)
      BY <1>1 DEF Log!Write
    <3>2. /\ today \in 1..LastDay /\ T \in SUBSET (1..MaxEntries)
          /\ DOMAIN logs \subseteq 1..LastDay /\ logs \in [DOMAIN logs -> SUBSET (1..MaxEntries)]
      BY <1>0, <2>1 DEF FilesTyped
    <3> HIDE DEF S, T
    <3>3. /\ DOMAIN Log!With(logs, today, T) = DOMAIN logs \cup {today}
          /\ Log!With(logs, today, T) \in [DOMAIN logs \cup {today} -> SUBSET (1..MaxEntries)]
          /\ Log!With(logs, today, T)[today] = T
          /\ \A x \in DOMAIN logs : x # today => Log!With(logs, today, T)[x] = logs[x]
      BY <3>2 DEF Log!With
    <3> QED
      BY <3>1, <3>3
  <2>4. S \subseteq T
    <3>1. CASE today \in DOMAIN wrote
      BY <3>1, <1>0, <2>1 DEF LogInv, WindowKept, Kept
    <3>2. CASE today \notin DOMAIN wrote
      BY <3>2 DEF Log!Of
    <3> QED
      BY <3>1, <3>2
  <2> HIDE DEF S, T
  <2>5. FilesTyped'
    BY <1>0, <2>2, <2>3 DEF LogInv, FilesTyped
  <2>6. UNCHANGED <<today, reading>>
    BY <1>1 DEF Log!Write
  <2>7. WindowKept'
    BY <2>2, <2>3, <2>4, <2>6 DEF LogInv, WindowKept, Kept
  <2>8. \A d \in DOMAIN logs : d \in DOMAIN logs' /\ logs[d] \subseteq logs'[d]
    BY <2>1, <2>3 DEF T
  <2> QED
    BY <2>5, <2>6, <2>7, <2>8, FilesGrow
<1>2. CASE Log!WriteFails /\ UNCHANGED logs
  BY <1>2, FilesGrow DEF Log!WriteFails, LogInv, FilesTyped, WindowKept, Kept
<1>3. CASE Log!WriteFails /\ logs' = Log!With(logs, today, Log!Of(logs, today))
  <2> DEFINE T == Log!Of(logs, today)
  <2>1. T \in SUBSET (1..MaxEntries) /\ (today \in DOMAIN logs => T = logs[today])
    BY <1>0, WithFacts DEF LogInv, FilesTyped
  <2>2. /\ DOMAIN logs' = DOMAIN logs \cup {today} /\ logs'[today] = T
        /\ logs' \in [DOMAIN logs \cup {today} -> SUBSET (1..MaxEntries)]
        /\ \A x \in DOMAIN logs : x # today => logs'[x] = logs[x]
    <3>1. logs' = Log!With(logs, today, T)
      BY <1>3
    <3>2. /\ today \in 1..LastDay /\ T \in SUBSET (1..MaxEntries)
          /\ DOMAIN logs \subseteq 1..LastDay /\ logs \in [DOMAIN logs -> SUBSET (1..MaxEntries)]
      BY <1>0, <2>1 DEF FilesTyped
    <3> HIDE DEF T
    <3>3. /\ DOMAIN Log!With(logs, today, T) = DOMAIN logs \cup {today}
          /\ Log!With(logs, today, T) \in [DOMAIN logs \cup {today} -> SUBSET (1..MaxEntries)]
          /\ Log!With(logs, today, T)[today] = T
          /\ \A x \in DOMAIN logs : x # today => Log!With(logs, today, T)[x] = logs[x]
      BY <3>2 DEF Log!With
    <3> QED
      BY <3>1, <3>3
  <2> HIDE DEF T
  <2>3. UNCHANGED <<today, reading, wrote>>
    BY <1>3 DEF Log!WriteFails
  <2>4. FilesTyped'
    BY <1>0, <2>2, <2>3 DEF LogInv, FilesTyped
  <2>5. \A d \in DOMAIN logs : d \in DOMAIN logs' /\ logs[d] \subseteq logs'[d]
    BY <2>1, <2>2
  <2>6. WindowKept'
    BY <2>3, <2>5 DEF LogInv, WindowKept, Kept
  <2> QED
    BY <2>3, <2>4, <2>5, <2>6, FilesGrow
<1>4. CASE \/ Log!Enqueue \/ Log!SyncFails \/ Log!OpenFails \/ Log!KeptFails \/ Log!Crash
           \/ Log!DrainBegin \/ Log!Joined \/ Log!DrainTimesOut
  <2>1. UNCHANGED <<logs, wrote, today, reading>>
    BY <1>4 DEF Log!Enqueue, Log!SyncFails, Log!OpenFails, Log!KeptFails, Log!Crash, Log!DrainBegin,
                Log!Joined, Log!DrainTimesOut, Log!Stop
  <2> QED
    BY <2>1, FilesGrow DEF LogInv, FilesTyped, WindowKept, Kept
<1>5. CASE Log!Prune
  <2>1. /\ UNCHANGED <<wrote, today, reading>> /\ DOMAIN logs' \subseteq DOMAIN logs
        /\ logs' = [d \in DOMAIN logs' |-> logs[d]]
        /\ \A d \in DOMAIN logs : d >= today - RetentionDays => d \in DOMAIN logs'
    BY <1>0, <1>5 DEF Log!Prune, Log!Pruned, LogInv, FilesTyped
  <2>2. FilesTyped'
    BY <2>1 DEF LogInv, FilesTyped
  <2>3. WindowKept' /\ ListedKept'
    BY <2>1 DEF LogInv, WindowKept, ListedKept, Kept
  <2>4. ReadTyped' /\ ShownKept'
    BY <2>1 DEF LogInv, ReadTyped, ShownKept
  <2> QED
    BY <2>2, <2>3, <2>4 DEF FilesHold
<1>6. CASE Log!Tick
  <2>1. UNCHANGED <<logs, wrote, reading>> /\ today' = today + 1
    BY <1>6 DEF Log!Tick
  <2>2. FilesTyped' /\ ReadTyped' /\ ShownKept'
    BY <2>1 DEF LogInv, FilesTyped, ReadTyped, ShownKept
  <2>3. \A d \in 1..LastDay : d >= today' - RetentionDays => d >= today - RetentionDays
    BY <1>0, <2>1
  <2>4. WindowKept'
    BY <1>0, <2>1, <2>3 DEF FilesTyped, WindowKept, Kept
  <2>5. ListedKept'
    BY <1>0, <2>1, <2>3 DEF ReadTyped, ListedKept, Kept
  <2> QED
    BY <2>2, <2>4, <2>5 DEF FilesHold
<1>7. CASE Log!ReadBegin
  <2> DEFINE due == [x \in {y \in DOMAIN wrote : y >= today - RetentionDays} |-> wrote[x]]
             files == {y \in DOMAIN logs : y >= today - RetentionDays}
  <2>1. /\ UNCHANGED <<logs, wrote, today>>
        /\ reading' = [at |-> "listed", files |-> files, due |-> due, shown |-> {}, since |-> 0]
    BY <1>7 DEF Log!ReadBegin, Log!From
  <2>2. FilesTyped' /\ WindowKept'
    BY <2>1 DEF LogInv, FilesTyped, WindowKept, Kept
  <2>3. DOMAIN due \subseteq DOMAIN wrote /\ (\A d \in DOMAIN due : due[d] = wrote[d])
    OBVIOUS
  <2>4. DOMAIN due \subseteq 1..LastDay /\ due \in [DOMAIN due -> SUBSET (1..MaxEntries)]
    BY DEF LogInv, FilesTyped
  <2>5. \A d \in DOMAIN due : d \in files /\ d \in DOMAIN logs /\ due[d] \subseteq logs[d]
    BY DEF LogInv, WindowKept, Kept
  <2>6. files \subseteq 1..LastDay
    BY DEF LogInv, FilesTyped
  <2> HIDE DEF due, files
  <2>7. ReadTyped'
    BY <2>1, <2>4, <2>6 DEF ReadTyped
  <2>8. ListedKept' /\ ShownKept'
    BY <2>1, <2>5 DEF ListedKept, ShownKept, Kept
  <2> QED
    BY <2>2, <2>7, <2>8 DEF FilesHold
<1>8. CASE Log!ReadEnd
  <2> DEFINE shown == UNION {Log!Of(logs, d) : d \in reading.files}
  <2>1. /\ UNCHANGED <<logs, wrote, today>> /\ reading.at = "listed"
        /\ reading' = [reading EXCEPT !.at = "read", !.shown = shown, !.since = today - RetentionDays]
    BY <1>8 DEF Log!ReadEnd
  <2>2. FilesTyped' /\ WindowKept'
    BY <2>1 DEF LogInv, FilesTyped, WindowKept, Kept
  <2>3. shown \subseteq 1..MaxEntries
    BY DEF LogInv, FilesTyped, Log!Of
  <2>4. \A d \in reading.files : d \in DOMAIN logs => logs[d] \subseteq shown
    BY DEF Log!Of
  <2> HIDE DEF shown
  <2>5. /\ reading'.at = "read" /\ reading'.shown = shown /\ reading'.since = today - RetentionDays
        /\ reading'.due = reading.due /\ reading'.files = reading.files
        /\ reading' \in [at : {"idle", "listed", "read"}, files : SUBSET (1..LastDay),
                         due : {reading.due}, shown : SUBSET (1..MaxEntries), since : Int]
    <3>1. today - RetentionDays \in Int
      BY <1>0
    <3> QED
      BY <1>0, <2>1, <2>3, <3>1 DEF ReadTyped
  <2>6. ReadTyped'
    BY <1>0, <2>5 DEF ReadTyped
  <2>7. ListedKept' /\ ShownKept'
    BY <2>1, <2>4, <2>5 DEF LogInv, ListedKept, ShownKept, Kept
  <2> QED
    BY <2>2, <2>6, <2>7 DEF FilesHold
<1> QED
  BY <1>1, <1>2, <1>3, <1>4, <1>5, <1>6, <1>7, <1>8 DEF Log!LogNext, Log!WriteFails

LEMMA LogInitInv ==
  ASSUME Log!LogInit
  PROVE  LogInv
<1> USE TelemetryFits DEF Log!LogInit
<1>1. Waits = {} /\ Written = {} /\ 1..put = {}
  BY DEF Waits, Written
<1>2. LogTyped
  BY EmptySeq DEF LogTyped, BufferTyped, CountsTyped, StatesTyped, FdTyped
<1>3. FilesTyped /\ ReadTyped
  BY DEF FilesTyped, ReadTyped, Log!NoReading
<1> QED
  BY <1>1, <1>2, <1>3
     DEF LogInv, Balanced, Accounted, JoinedIsOver, WindowKept, ListedKept, ShownKept, Log!NoReading

LEMMA LogStill ==
  ASSUME LogInv, UNCHANGED logVars
  PROVE  LogInv'
<1>1. LogTyped'
  BY DEF LogInv, logVars, LogTyped, BufferTyped, CountsTyped, StatesTyped, FdTyped
<1>2. Balanced' /\ JoinedIsOver' /\ Accounted'
  BY DEF LogInv, logVars, Balanced, JoinedIsOver, Accounted, Waits, Written
<1>3. FilesTyped' /\ ReadTyped'
  BY DEF LogInv, logVars, FilesTyped, ReadTyped
<1>4. WindowKept' /\ ListedKept' /\ ShownKept'
  BY DEF LogInv, logVars, WindowKept, ListedKept, ShownKept, Kept
<1> QED
  BY <1>1, <1>2, <1>3, <1>4 DEF LogInv

LEMMA LogInvariant == RequestsSpec => [](part = "telemetry" => LogInv)
<1>1. RequestsInit => (part = "telemetry" => LogInv)
  BY LogInitInv DEF RequestsInit
<1>2. ASSUME part = "telemetry" => LogInv, [RequestsNext]_allVars
      PROVE  (part = "telemetry" => LogInv)'
  <2>1. SUFFICES ASSUME part' = "telemetry" PROVE LogInv'
    OBVIOUS
  <2>2. part' = part
    BY <1>2 DEF RequestsNext, allVars
  <2>3. Log!LogNext \/ UNCHANGED logVars
    BY <1>2, <2>1, <2>2 DEF RequestsNext, allVars
  <2> QED
    BY <1>2, <2>1, <2>2, <2>3, StepQueue, StepFiles, LogStill DEF LogInv, QueueHolds, FilesHold
<1> QED
  BY <1>1, <1>2, PTL DEF RequestsSpec

\* The telemetry (TelemetryWriter, Pruner, read_entries), for any queue size, retention and number
\* of entries: the drain waits for what is queued and for nothing else, leaves no entry behind, and
\* a read shows what was written within the retention.
THEOREM LogIsWhole == RequestsSpec => []LogWhole
<1>1. (part = "telemetry" => LogInv) => LogWhole
  <2> SUFFICES ASSUME LogInv
               PROVE  Log!LogTypeOK /\ Log!JoinBalanced /\ Log!DrainedAll /\ Log!WindowRead
    BY DEF LogWhole
  <2>2. Log!LogTypeOK
    <3>1. /\ Len(buffer) <= QueueSize /\ (\A i \in DOMAIN buffer : buffer[i] \in 1..MaxEntries)
          /\ unfinished \in 0..MaxEntries
      BY TelemetryFits DEF LogInv, LogTyped, BufferTyped, CountsTyped, Balanced
    <3>2. StatesTyped /\ CountsTyped /\ FdTyped
      BY DEF LogInv, LogTyped
    <3>3. /\ Log!DayFiles(logs) /\ Log!DayFiles(wrote) /\ Log!DayFiles(reading.due)
          /\ reading.at \in {"idle", "listed", "read"} /\ reading.shown \subseteq 1..MaxEntries
      BY DEF LogInv, FilesTyped, ReadTyped, Log!DayFiles, Log!Entries
    <3> QED
      BY <3>1, <3>2, <3>3 DEF Log!LogTypeOK, Log!Entries, StatesTyped, CountsTyped, FdTyped
  <2>3. Log!JoinBalanced
    BY DEF LogInv, Balanced, Log!JoinBalanced
  <2>4. Log!DrainedAll
    <3>1. stopping = "joined" => Waits = {}
      BY DEF LogInv, JoinedIsOver, Waits
    <3> QED
      BY <3>1 DEF LogInv, Accounted, Written, Log!DrainedAll
  <2>5. Log!WindowRead
    BY DEF LogInv, ShownKept, Log!WindowRead
  <2> QED
    BY <2>2, <2>3, <2>4, <2>5
<1> QED
  BY <1>1, LogInvariant, PTL

-----------------------------------------------------------------------------
(* BackupLoop *)

BackupStates == {"none", "QUEUED", "RUNNING", "CANCELLING", "CANCELLED", "FAILED", "DONE"}
BackupRecords == [status : BackupStates, at : {"none", "claimed", "reading", "writing"}, ts : 0..LastSecond,
                  lines : 0..LineCount, begun : BOOLEAN, own : BOOLEAN]
BackupTyped == /\ backup \in [Backups -> BackupRecords] /\ second \in 1..LastSecond
               /\ tracked \in {0} \cup Backups /\ recorded \in {0} \cup Backups /\ draining \in BOOLEAN
TapesTyped == tmpLines \in [1..LastSecond -> Nat \cup {-1}] /\ archives \in [1..LastSecond -> Int]

\* A job that exists is named after a second of the past, and a task works on a running one.
JobsFit ==
  \A k \in Backups : /\ backup[k].ts <= second /\ (backup[k].status = "none" <=> backup[k].ts = 0)
                     /\ backup[k].at # "none" <=> backup[k].status \in {"RUNNING", "CANCELLING"}
                     /\ backup[k].at \in {"claimed", "reading"} => backup[k].lines = 0

\* Two exports of one second, and so of one name, are known to be mixed.
NamesApart ==
  \A i, j \in Backups : (i # j /\ backup[i].ts # 0 /\ backup[i].ts = backup[j].ts) => backup[i].ts \in mixed

\* An archive is some job's, and the tracked job has the newest name.
ArchiveIsOwned == \A t \in 1..LastSecond : archives[t] # -1 => \E k \in Backups : backup[k].ts = t
TrackedIsNewest ==
  tracked # 0 => backup[tracked].ts # 0 /\ \A k \in Backups : backup[k].ts <= backup[tracked].ts

\* The temp file of an export under way holds the lines that it wrote.
LinesLanded ==
  \A k \in Backups : (backup[k].at = "writing" /\ backup[k].ts \notin mixed) =>
                        tmpLines[backup[k].ts] = backup[k].lines

\* The archive of a DONE job that the loop tracks, or has on record, is there.
Whole(k) == backup[k].ts \notin mixed => archives[backup[k].ts] = LineCount
TrackedWhole == (tracked # 0 /\ backup[tracked].status = "DONE") => Whole(tracked)
RecordedWhole == recorded # 0 => backup[recorded].status = "DONE" /\ Whole(recorded)

OwnIsTracked == \A k \in Backups : (Backed!Active(k) /\ backup[k].own) => k = tracked

BackupInv == /\ BackupTyped /\ TapesTyped /\ JobsFit /\ NamesApart /\ ArchiveIsOwned /\ TrackedIsNewest
             /\ LinesLanded /\ Backed!DoneIsWhole /\ TrackedWhole /\ RecordedWhole /\ OwnIsTracked

\* A step that writes b into the one job k, and nothing but k's temp file and archive.
Writes(k, b) ==
  /\ backup' = [backup EXCEPT ![k] = b] /\ second' = second /\ recorded' = recorded
  /\ b.status # "none" /\ b.ts # 0 /\ b.ts <= second /\ backup[k].status # "DONE"
  /\ b.at # "none" <=> b.status \in {"RUNNING", "CANCELLING"}
  /\ b.at \in {"claimed", "reading"} => b.lines = 0
  /\ \A t \in 1..LastSecond : t # b.ts => tmpLines'[t] = tmpLines[t] /\ archives'[t] = archives[t]
MixesKnown(k, b) ==
  /\ mixed \subseteq mixed'
  /\ \A i \in Backups : (i # k /\ backup[i].ts = b.ts) => b.ts \in mixed'
WritesWhole(b) ==
  /\ (b.at = "writing" /\ b.ts \notin mixed') => tmpLines'[b.ts] = b.lines
  /\ (b.status = "DONE" /\ b.ts \notin mixed') => archives'[b.ts] = LineCount
Tracks(k, b) ==
  \/ /\ tracked' = tracked /\ b.ts = backup[k].ts
     /\ (b.status \in {"QUEUED", "RUNNING", "CANCELLING"} /\ b.own) => Backed!Active(k) /\ backup[k].own
  \/ tracked = 0 /\ tracked' = k /\ b.ts = second /\ b.status = "QUEUED" /\ backup[k].ts = 0

LEMMA PutStep ==
  ASSUME BackupInv, NEW k \in Backups, NEW b \in BackupRecords, TapesTyped', draining' \in BOOLEAN,
         Writes(k, b), MixesKnown(k, b), WritesWhole(b), Tracks(k, b)
  PROVE  BackupInv'
<1> USE BackupsFit DEF Writes, MixesKnown, WritesWhole, Tracks
<1>1. /\ BackupTyped' /\ backup'[k] = b /\ \A i \in Backups : i # k => backup'[i] = backup[i]
  BY DEF BackupInv, BackupTyped
<1>2. \A i \in Backups : backup[i] \in BackupRecords /\ backup'[i] \in BackupRecords
  BY <1>1 DEF BackupInv, BackupTyped
<1>3. \A i \in Backups : backup[i].ts # 0 => backup'[i].ts = backup[i].ts
  BY <1>1
<1>4. JobsFit'
  BY <1>1 DEF BackupInv, JobsFit
<1>5. NamesApart'
  <2> SUFFICES ASSUME NEW i \in Backups, NEW j \in Backups, i # j, backup'[i].ts # 0,
                      backup'[i].ts = backup'[j].ts
               PROVE  backup'[i].ts \in mixed'
    BY DEF NamesApart
  <2>1. CASE i = k
    BY <1>1, <2>1
  <2>2. CASE j = k
    BY <1>1, <2>2
  <2>3. CASE i # k /\ j # k
    BY <1>1, <2>3 DEF BackupInv, NamesApart
  <2> QED
    BY <2>1, <2>2, <2>3
<1>6. ArchiveIsOwned'
  <2> SUFFICES ASSUME NEW t \in 1..LastSecond, archives'[t] # -1
               PROVE  \E i \in Backups : backup'[i].ts = t
    BY DEF ArchiveIsOwned
  <2>1. CASE t = b.ts
    BY <1>1, <2>1
  <2>2. CASE t # b.ts
    <3>1. PICK i \in Backups : backup[i].ts = t
      BY <2>2 DEF BackupInv, ArchiveIsOwned
    <3> QED
      BY <1>3, <3>1
  <2> QED
    BY <2>1, <2>2
<1>7. TrackedIsNewest'
  <2>1. \A i \in Backups : backup[i].ts <= second
    BY DEF BackupInv, JobsFit
  <2>2. tracked # 0 => tracked \in Backups
    BY DEF BackupInv, BackupTyped
  <2>3. CASE tracked' = tracked /\ b.ts = backup[k].ts
    <3>1. \A i \in Backups : backup'[i].ts = backup[i].ts
      BY <1>1, <2>3
    <3> QED
      BY <2>2, <2>3, <3>1 DEF BackupInv, TrackedIsNewest
  <2>4. CASE tracked' = k /\ b.ts = second
    BY <1>1, <2>1, <2>4 DEF TrackedIsNewest, BackupInv, BackupTyped
  <2> QED
    BY <2>3, <2>4
<1>8. \A i \in Backups : (i # k /\ backup[i].ts \notin mixed' /\ backup[i].ts # 0) =>
                            /\ backup[i].ts \notin mixed /\ backup'[i] = backup[i]
                            /\ backup[i].ts \in 1..LastSecond
                            /\ tmpLines'[backup[i].ts] = tmpLines[backup[i].ts]
                            /\ archives'[backup[i].ts] = archives[backup[i].ts]
  <2> SUFFICES ASSUME NEW i \in Backups, i # k, backup[i].ts \notin mixed', backup[i].ts # 0
               PROVE  /\ backup[i].ts \notin mixed /\ backup'[i] = backup[i]
                      /\ backup[i].ts \in 1..LastSecond
                      /\ tmpLines'[backup[i].ts] = tmpLines[backup[i].ts]
                      /\ archives'[backup[i].ts] = archives[backup[i].ts]
    OBVIOUS
  <2>1. backup[i].ts \in 1..LastSecond
    BY <1>2 DEF BackupRecords
  <2>2. backup[i].ts # b.ts
    OBVIOUS
  <2> QED
    BY <1>1, <2>1, <2>2
<1>9. \A i \in Backups : backup[i].status # "none" <=> backup[i].ts # 0
  BY DEF BackupInv, JobsFit
<1>10. LinesLanded'
  <2> SUFFICES ASSUME NEW i \in Backups, backup'[i].at = "writing", backup'[i].ts \notin mixed'
               PROVE  tmpLines'[backup'[i].ts] = backup'[i].lines
    BY DEF LinesLanded
  <2>1. CASE i = k
    BY <1>1, <2>1
  <2>2. CASE i # k
    <3>1. backup[i].ts # 0
      BY <1>1, <1>9, <2>2 DEF BackupInv, JobsFit
    <3> QED
      BY <1>1, <1>8, <2>2, <3>1 DEF BackupInv, LinesLanded
  <2> QED
    BY <2>1, <2>2
<1>11. Backed!DoneIsWhole'
  <2> SUFFICES ASSUME NEW i \in Backups, backup'[i].status = "DONE", backup'[i].ts \notin mixed'
               PROVE  archives'[backup'[i].ts] \in {LineCount, -1}
    BY DEF Backed!DoneIsWhole
  <2>1. CASE i = k
    BY <1>1, <2>1
  <2>2. CASE i # k
    BY <1>1, <1>8, <1>9, <2>2 DEF BackupInv, Backed!DoneIsWhole
  <2> QED
    BY <2>1, <2>2
<1>12. \A i \in Backups : (i # k /\ backup[i].status = "DONE" /\ Whole(i)) => Whole(i)'
  BY <1>1, <1>8, <1>9 DEF Whole
<1>13. TrackedWhole'
  <2> SUFFICES ASSUME tracked' # 0, backup'[tracked'].status = "DONE"
               PROVE  Whole(tracked)'
    BY DEF TrackedWhole
  <2>1. CASE tracked' = k
    BY <1>1, <2>1 DEF Whole
  <2>2. CASE tracked' # k
    BY <1>1, <1>12, <2>2 DEF BackupInv, BackupTyped, TrackedWhole, Whole
  <2> QED
    BY <2>1, <2>2
<1>14. RecordedWhole'
  BY <1>1, <1>12 DEF BackupInv, BackupTyped, RecordedWhole, Whole
<1>15. OwnIsTracked'
  BY <1>1 DEF BackupInv, BackupTyped, OwnIsTracked, Backed!Active
<1> QED
  BY <1>1, <1>4, <1>5, <1>6, <1>7, <1>10, <1>11, <1>13, <1>14, <1>15 DEF BackupInv


LEMMA BackupInitInv ==
  ASSUME Backed!BackupInit
  PROVE  BackupInv
<1> USE BackupsFit DEF Backed!BackupInit, Backed!NoBackup, Backed!Seconds
<1>1. \A k \in Backups : /\ backup[k].ts = 0 /\ backup[k].status = "none" /\ backup[k].at = "none"
                         /\ backup[k].lines = 0 /\ backup[k] \in BackupRecords
  BY DEF BackupRecords, BackupStates
<1>2. BackupTyped
  <2>1. backup \in [Backups -> BackupRecords]
    BY <1>1
  <2>2. second \in 1..LastSecond /\ tracked = 0 /\ recorded = 0
    OBVIOUS
  <2>3. draining \in BOOLEAN
    BY Zenon
  <2> HIDE DEF Backed!BackupInit
  <2> QED
    BY <2>1, <2>2, <2>3 DEF BackupTyped
<1>3. TapesTyped
  <2>1. -1 \in Int
    OBVIOUS
  <2> QED
    BY <2>1 DEF TapesTyped
<1> QED
  BY <1>1, <1>2, <1>3 DEF BackupInv, JobsFit, NamesApart, ArchiveIsOwned, TrackedIsNewest, LinesLanded,
     Backed!DoneIsWhole, TrackedWhole, RecordedWhole, OwnIsTracked, Backed!Active

LEMMA BackupStill ==
  ASSUME BackupInv, UNCHANGED bakVars
  PROVE  BackupInv'
<1> USE DEF BackupInv, bakVars
<1>1. BackupTyped' /\ TapesTyped' /\ JobsFit' /\ NamesApart' /\ ArchiveIsOwned'
  BY DEF BackupTyped, TapesTyped, JobsFit, NamesApart, ArchiveIsOwned
<1>2. TrackedIsNewest' /\ LinesLanded' /\ Backed!DoneIsWhole'
  BY DEF TrackedIsNewest, LinesLanded, Backed!DoneIsWhole
<1>3. TrackedWhole' /\ RecordedWhole' /\ OwnIsTracked'
  BY DEF TrackedWhole, RecordedWhole, OwnIsTracked, Whole, Backed!Active
<1> QED
  BY <1>1, <1>2, <1>3

LEMMA ClockStep ==
  ASSUME BackupInv, Backed!Clock
  PROVE  BackupInv'
<1> USE BackupsFit DEF BackupInv, Backed!Clock
<1>1. BackupTyped' /\ TapesTyped' /\ NamesApart' /\ ArchiveIsOwned'
  BY DEF BackupTyped, TapesTyped, NamesApart, ArchiveIsOwned
<1>2. JobsFit'
  <2>1. \A k \in Backups : backup[k].ts \in Int
    BY DEF BackupTyped, BackupRecords
  <2> QED
    BY <2>1 DEF JobsFit, BackupTyped
<1>3. TrackedIsNewest' /\ LinesLanded' /\ Backed!DoneIsWhole'
  BY DEF TrackedIsNewest, LinesLanded, Backed!DoneIsWhole
<1>4. TrackedWhole' /\ RecordedWhole' /\ OwnIsTracked'
  BY DEF TrackedWhole, RecordedWhole, OwnIsTracked, Whole, Backed!Active
<1> QED
  BY <1>1, <1>2, <1>3, <1>4

LEMMA SameCount == ASSUME NEW S PROVE Backed!Cardinality(S) = Cardinality(S)
BY Zenon DEF Backed!Cardinality, Cardinality

\* What rotation leaves: nothing new, and the archive of the newest name.
LEMMA RotationKeepsNewest ==
  ASSUME BackupInv, tracked # 0, Backed!Rotate
  PROVE  /\ \A t \in 1..LastSecond : archives'[t] \in {-1, archives[t]}
         /\ archives' \in [1..LastSecond -> Int]
         /\ archives'[backup[tracked].ts] = archives[backup[tracked].ts]
<1> USE BackupsFit
<1> DEFINE last == backup[tracked].ts
           newer(t) == {u \in 1..LastSecond : u > t /\ archives[u] # -1}
<1>1. tracked \in Backups /\ last \in 1..LastSecond
  BY DEF BackupInv, BackupTyped, TrackedIsNewest, BackupRecords
<1>2. newer(last) = {}
  <2> SUFFICES ASSUME NEW u \in 1..LastSecond, u > last, archives[u] # -1
               PROVE  FALSE
    OBVIOUS
  <2>1. PICK i \in Backups : backup[i].ts = u
    BY DEF BackupInv, ArchiveIsOwned
  <2> QED
    BY <1>1, <2>1 DEF BackupInv, TrackedIsNewest
<1>3. Backed!Cardinality(newer(last)) = 0
  BY <1>2, FS_EmptySet, SameCount
<1>4. \A t \in Backed!ToDelete : Keep # 0 /\ Backed!Cardinality(newer(t)) >= Keep
  BY Zenon DEF Backed!ToDelete, Backed!Seconds
<1>5. last \notin Backed!ToDelete
  <2> HIDE DEF last, newer
  <2> QED
    BY <1>3, <1>4
<1>6. PICK dropped \in SUBSET Backed!ToDelete :
        archives' = [t \in 1..LastSecond |-> IF t \in dropped THEN -1 ELSE archives[t]]
  BY Zenon DEF Backed!Rotate, Backed!Seconds
<1> HIDE DEF last
<1>7. archives'[last] = archives[last]
  BY <1>1, <1>5, <1>6
<1>8. /\ \A t \in 1..LastSecond : archives'[t] \in {-1, archives[t]}
      /\ archives' \in [1..LastSecond -> Int]
  BY <1>6 DEF BackupInv, TapesTyped
<1> QED
  BY <1>7, <1>8 DEF last

LEMMA DrainStep ==
  ASSUME BackupInv, Backed!DrainCompleted
  PROVE  BackupInv'
<1> USE BackupsFit
<1>1. /\ draining' = FALSE /\ UNCHANGED <<second, backup, tmpLines, mixed>>
      /\ \/ UNCHANGED <<archives, tracked, recorded>>
         \/ /\ tracked # 0 /\ backup[tracked].status = "DONE" /\ recorded' = tracked
            /\ Backed!Rotate /\ tracked' = 0
         \/ tracked # 0 /\ ~Backed!Active(tracked) /\ tracked' = 0 /\ UNCHANGED <<archives, recorded>>
  BY DEF Backed!DrainCompleted, Backed!SaveState
<1>2. JobsFit' /\ NamesApart' /\ LinesLanded'
  BY <1>1 DEF BackupInv, JobsFit, NamesApart, LinesLanded
<1>3. OwnIsTracked'
  BY <1>1 DEF BackupInv, OwnIsTracked, Backed!Active
<1>4. TrackedIsNewest'
  BY <1>1 DEF BackupInv, TrackedIsNewest
<1>5. CASE UNCHANGED archives
  <2>1. BackupTyped' /\ TapesTyped' /\ ArchiveIsOwned'
    BY <1>1, <1>5 DEF BackupInv, BackupTyped, TapesTyped, ArchiveIsOwned
  <2>2. Backed!DoneIsWhole'
    BY <1>1, <1>5 DEF BackupInv, Backed!DoneIsWhole
  <2>3. TrackedWhole' /\ RecordedWhole'
    BY <1>1, <1>5 DEF BackupInv, TrackedWhole, RecordedWhole, Whole
  <2> QED
    BY <1>2, <1>3, <1>4, <2>1, <2>2, <2>3 DEF BackupInv
<1>6. CASE /\ tracked # 0 /\ backup[tracked].status = "DONE" /\ recorded' = tracked
           /\ Backed!Rotate /\ tracked' = 0
  <2>1. /\ \A t \in 1..LastSecond : archives'[t] \in {-1, archives[t]}
        /\ archives' \in [1..LastSecond -> Int]
        /\ archives'[backup[tracked].ts] = archives[backup[tracked].ts]
    BY <1>6, RotationKeepsNewest
  <2>2. BackupTyped' /\ TapesTyped'
    BY <1>1, <1>6, <2>1 DEF BackupInv, BackupTyped, TapesTyped
  <2>3. ArchiveIsOwned'
    BY <1>1, <2>1 DEF BackupInv, ArchiveIsOwned
  <2>4. Backed!DoneIsWhole'
    <3> SUFFICES ASSUME NEW i \in Backups, backup[i].status = "DONE", backup[i].ts \notin mixed
                 PROVE  archives'[backup[i].ts] \in {LineCount, -1}
      BY <1>1 DEF Backed!DoneIsWhole
    <3>1. backup[i].ts \in 1..LastSecond
      BY DEF BackupInv, JobsFit, BackupTyped, BackupRecords
    <3> QED
      BY <2>1, <3>1 DEF BackupInv, Backed!DoneIsWhole
  <2>5. TrackedWhole' /\ RecordedWhole'
    BY <1>1, <1>6, <2>1 DEF BackupInv, TrackedWhole, RecordedWhole, Whole
  <2> QED
    BY <1>2, <1>3, <1>4, <2>2, <2>3, <2>4, <2>5 DEF BackupInv
<1> QED
  BY <1>1, <1>5, <1>6

LEMMA RestartStep ==
  ASSUME BackupInv, Backed!Restart
  PROVE  BackupInv'
<1> USE BackupsFit
<1> DEFINE stopped == {k \in Backups : backup[k].status \in {"RUNNING", "CANCELLING"}}
<1> DEFINE after(k) == [backup[k] EXCEPT !.status = IF k \in stopped THEN "FAILED" ELSE @,
                                         !.at = "none", !.own = FALSE]
<1>1. tracked' = 0 /\ draining' = FALSE /\ UNCHANGED <<second, recorded, mixed>>
  BY Zenon DEF Backed!Restart
<1>b. \/ tmpLines' = [t \in 1..LastSecond |->
                        IF \E k \in stopped : backup[k].ts = t /\ backup[k].at = "writing"
                        THEN -1 ELSE tmpLines[t]]
      \/ UNCHANGED tmpLines
  BY Zenon DEF Backed!Restart, Backed!Seconds
<1>c. \/ UNCHANGED archives
      \/ \E k \in stopped : \E n \in {-2, Backed!Tmp(k)} : archives' = [archives EXCEPT ![backup[k].ts] = n]
  BY Zenon DEF Backed!Restart
<1>e. \A k \in stopped : Backed!Tmp(k) \in Int
  <2> SUFFICES ASSUME NEW k \in stopped
               PROVE  Backed!Tmp(k) \in Int
    OBVIOUS
  <2>1. backup[k].ts \in 1..LastSecond
    BY DEF BackupInv, BackupTyped, BackupRecords, JobsFit
  <2> QED
    BY <2>1 DEF BackupInv, TapesTyped, Backed!Tmp
<1>2. \A i \in Backups : backup[i] \in BackupRecords
  BY DEF BackupInv, BackupTyped
<1>a. backup' = [k \in Backups |-> after(k)]
  BY Zenon DEF Backed!Restart
<1>d. \A i \in Backups :
        /\ after(i) \in BackupRecords
        /\ after(i).ts = backup[i].ts /\ after(i).lines = backup[i].lines
        /\ after(i).at = "none" /\ after(i).own = FALSE
        /\ after(i).status = IF i \in stopped THEN "FAILED" ELSE backup[i].status
  BY <1>2 DEF BackupRecords, BackupStates
<1> HIDE DEF after
<1>3. /\ backup' \in [Backups -> BackupRecords]
      /\ \A i \in Backups :
           /\ backup'[i].ts = backup[i].ts /\ backup'[i].lines = backup[i].lines
           /\ backup'[i].at = "none" /\ backup'[i].own = FALSE
           /\ backup'[i].status = IF i \in stopped THEN "FAILED" ELSE backup[i].status
  BY <1>a, <1>d
<1>5. BackupTyped'
  BY <1>1, <1>3 DEF BackupInv, BackupTyped
<1>6. TapesTyped'
  <2>1. tmpLines' \in [1..LastSecond -> Nat \cup {-1}]
    BY <1>b DEF BackupInv, TapesTyped
  <2>2. archives' \in [1..LastSecond -> Int]
    <3>1. archives \in [1..LastSecond -> Int]
      BY DEF BackupInv, TapesTyped
    <3>2. CASE UNCHANGED archives
      BY <3>1, <3>2
    <3>3. CASE \E k \in stopped : \E n \in {-2, Backed!Tmp(k)} :
                 archives' = [archives EXCEPT ![backup[k].ts] = n]
      <4>1. PICK k \in stopped, n \in Int : archives' = [archives EXCEPT ![backup[k].ts] = n]
        <5>1. -2 \in Int
          OBVIOUS
        <5> HIDE DEF stopped
        <5> QED
          BY <1>e, <3>3, <5>1
      <4> QED
        BY <3>1, <4>1
    <3> QED
      BY <1>c, <3>2, <3>3
  <2> QED
    BY <2>1, <2>2 DEF TapesTyped
<1>7. \A t \in 1..LastSecond :
        archives'[t] # archives[t] => \E k \in stopped : backup[k].ts = t
  BY <1>c DEF BackupInv, TapesTyped
<1>8. JobsFit'
  BY <1>1, <1>3 DEF BackupInv, JobsFit
<1>9. NamesApart'
  BY <1>1, <1>3 DEF BackupInv, NamesApart
<1>10. ArchiveIsOwned'
  <2> SUFFICES ASSUME NEW t \in 1..LastSecond, archives'[t] # -1
               PROVE  \E k \in Backups : backup'[k].ts = t
    BY DEF ArchiveIsOwned
  <2>1. CASE archives'[t] # archives[t]
    BY <1>3, <1>7, <2>1
  <2>2. CASE archives'[t] = archives[t]
    BY <1>3, <2>2 DEF BackupInv, ArchiveIsOwned
  <2> QED
    BY <2>1, <2>2
<1>11. LinesLanded' /\ TrackedIsNewest' /\ TrackedWhole' /\ OwnIsTracked'
  BY <1>1, <1>3 DEF LinesLanded, TrackedIsNewest, TrackedWhole, OwnIsTracked
<1>12. \A i \in Backups : (backup[i].status = "DONE" /\ backup[i].ts \notin mixed) =>
                             archives'[backup[i].ts] = archives[backup[i].ts]
  <2> SUFFICES ASSUME NEW i \in Backups, backup[i].status = "DONE", backup[i].ts \notin mixed,
                      archives'[backup[i].ts] # archives[backup[i].ts]
               PROVE  FALSE
    OBVIOUS
  <2>1. backup[i].ts \in 1..LastSecond /\ backup[i].ts # 0
    BY <1>2 DEF BackupInv, JobsFit, BackupRecords
  <2>2. PICK k \in stopped : backup[k].ts = backup[i].ts
    BY <1>7, <2>1
  <2> QED
    BY <2>1, <2>2 DEF BackupInv, NamesApart
<1>13. Backed!DoneIsWhole'
  BY <1>1, <1>3, <1>12 DEF BackupInv, Backed!DoneIsWhole
<1>14. RecordedWhole'
  <2>1. recorded # 0 => recorded \in Backups
    BY DEF BackupInv, BackupTyped
  <2> QED
    BY <1>1, <1>3, <1>12, <2>1 DEF BackupInv, RecordedWhole, Whole
<1> QED
  BY <1>5, <1>6, <1>8, <1>9, <1>10, <1>11, <1>13, <1>14 DEF BackupInv

\* One step per operation on a job.
LEMMA JobStep ==
  ASSUME BackupInv, NEW k \in Backups,
         \/ Backed!RunOneTick(k) \/ Backed!TriggerBackup(k) \/ Backed!Dispatch(k)
         \/ Backed!CountChunks(k) \/ Backed!OpenTmp(k) \/ Backed!WriteDoc(k) \/ Backed!Finalize(k)
         \/ Backed!ExportFails(k) \/ Backed!ResumeBackup(k) \/ Backed!CancelBackup(k)
  PROVE  BackupInv'
<1> USE BackupsFit
<1>1. /\ backup \in [Backups -> BackupRecords] /\ backup[k] \in BackupRecords /\ draining \in BOOLEAN
      /\ second \in 1..LastSecond /\ (tracked = 0 \/ tracked \in Backups)
  BY DEF BackupInv, BackupTyped
<1>2. /\ backup[k].ts <= second /\ (backup[k].status = "none" <=> backup[k].ts = 0)
      /\ backup[k].at # "none" <=> backup[k].status \in {"RUNNING", "CANCELLING"}
      /\ backup[k].at \in {"claimed", "reading"} => backup[k].lines = 0
      /\ (backup[k].at = "writing" /\ backup[k].ts \notin mixed) =>
           tmpLines[backup[k].ts] = backup[k].lines
  BY DEF BackupInv, JobsFit, LinesLanded
<1>3. \A i \in Backups : (i # k /\ backup[i].ts = backup[k].ts /\ backup[k].ts # 0) =>
                            backup[k].ts \in mixed
  BY DEF BackupInv, NamesApart
<1>4. backup[k].status # "none" => backup[k].ts \in 1..LastSecond
  BY <1>1, <1>2 DEF BackupRecords
<1>5. tmpLines \in [1..LastSecond -> Nat \cup {-1}] /\ archives \in [1..LastSecond -> Int]
  BY DEF BackupInv, TapesTyped
<1>6. CASE Backed!Enqueue(k)
  <2> DEFINE b == [Backed!NoBackup EXCEPT !.status = "QUEUED", !.ts = second, !.own = TRUE]
  <2>1. /\ backup' = [backup EXCEPT ![k] = b] /\ tracked = 0 /\ tracked' = k
        /\ backup[k].status = "none"
        /\ UNCHANGED <<second, tmpLines, archives, draining, recorded>>
    BY <1>6 DEF Backed!Enqueue, Backed!Put, Backed!MayEnqueue
  <2>2. mixed' = mixed \cup (IF \E i \in Backups : backup[i].ts = second THEN {second} ELSE {})
    BY <1>6 DEF Backed!Enqueue
  <2>3. b \in BackupRecords /\ b.status = "QUEUED" /\ b.at = "none" /\ b.ts = second /\ b.lines = 0
    <3>1. Backed!NoBackup \in BackupRecords /\ Backed!NoBackup.at = "none" /\ Backed!NoBackup.lines = 0
      <4>1. 0 \in 0..LineCount /\ 0 \in 0..LastSecond
        OBVIOUS
      <4> QED
        BY <4>1 DEF BackupRecords, BackupStates, Backed!NoBackup
    <3>2. second \in 0..LastSecond
      BY <1>1
    <3> QED
      BY <3>1, <3>2 DEF BackupRecords, BackupStates
  <2> HIDE DEF b
  <2>4. TapesTyped'
    BY <1>5, <2>1 DEF TapesTyped
  <2>w. Writes(k, b)
    BY <1>1, <2>1, <2>3 DEF Writes
  <2>m. MixesKnown(k, b)
    BY <2>2, <2>3 DEF MixesKnown
  <2>h. WritesWhole(b)
    BY <2>3 DEF WritesWhole
  <2>t. Tracks(k, b)
    BY <1>2, <2>1, <2>3 DEF Tracks, Backed!Active
  <2> QED
    BY <1>1, <2>1, <2>3, <2>4, <2>w, <2>m, <2>h, <2>t, PutStep
<1>7. CASE Backed!Dispatch(k)
  <2> DEFINE b == [backup[k] EXCEPT !.status = "RUNNING", !.at = "claimed", !.lines = 0]
  <2>1. /\ backup' = [backup EXCEPT ![k] = b] /\ backup[k].status = "QUEUED"
        /\ UNCHANGED <<second, tmpLines, archives, tracked, draining, recorded, mixed>>
    BY <1>7 DEF Backed!Dispatch, Backed!Put
  <2>2. /\ b \in BackupRecords /\ b.status = "RUNNING" /\ b.at = "claimed" /\ b.lines = 0
        /\ b.ts = backup[k].ts /\ b.own = backup[k].own
    <3>1. 0 \in 0..LineCount
      OBVIOUS
    <3> QED
      BY <1>1, <3>1 DEF BackupRecords, BackupStates
  <2> HIDE DEF b
  <2>3. TapesTyped'
    BY <1>5, <2>1 DEF TapesTyped
  <2>w. Writes(k, b)
    BY <1>2, <2>1, <2>2 DEF Writes
  <2>m. MixesKnown(k, b)
    BY <1>2, <1>3, <2>1, <2>2 DEF MixesKnown
  <2>h. WritesWhole(b)
    BY <2>2 DEF WritesWhole
  <2>t. Tracks(k, b)
    BY <2>1, <2>2 DEF Tracks, Backed!Active
  <2> QED
    BY <1>1, <2>1, <2>2, <2>3, <2>w, <2>m, <2>h, <2>t, PutStep
<1>a. CASE Backed!CountChunks(k)
  <2> DEFINE b == [backup[k] EXCEPT !.at = "reading", !.begun = TRUE]
  <2>1. /\ backup' = [backup EXCEPT ![k] = b] /\ backup[k].at = "claimed"
        /\ UNCHANGED <<second, tmpLines, archives, tracked, draining, recorded, mixed>>
    BY <1>a DEF Backed!CountChunks, Backed!Put
  <2>2. /\ b \in BackupRecords /\ b.status = backup[k].status /\ b.at = "reading"
        /\ b.lines = backup[k].lines /\ b.ts = backup[k].ts /\ b.own = backup[k].own
    BY <1>1 DEF BackupRecords, BackupStates
  <2> HIDE DEF b
  <2>3. TapesTyped'
    BY <1>5, <2>1 DEF TapesTyped
  <2>w. Writes(k, b)
    BY <1>2, <2>1, <2>2 DEF Writes
  <2>m. MixesKnown(k, b)
    BY <1>2, <1>3, <2>1, <2>2 DEF MixesKnown
  <2>h. WritesWhole(b)
    BY <1>2, <2>1, <2>2 DEF WritesWhole
  <2>t. Tracks(k, b)
    BY <2>1, <2>2 DEF Tracks, Backed!Active
  <2> QED
    BY <1>1, <2>1, <2>2, <2>3, <2>w, <2>m, <2>h, <2>t, PutStep
<1>8. CASE Backed!OpenTmp(k)
  <2> DEFINE b == [backup[k] EXCEPT !.at = "writing"]
             now == tmpLines[backup[k].ts]
  <2>1. /\ backup' = [backup EXCEPT ![k] = b] /\ backup[k].at = "reading"
        /\ tmpLines' = [tmpLines EXCEPT ![backup[k].ts] = IF now = -1 THEN 0 ELSE now]
        /\ UNCHANGED <<second, archives, tracked, draining, recorded>>
    BY <1>8, Zenon DEF Backed!OpenTmp, Backed!Put
  <2>2. mixed' = mixed \cup (IF tmpLines[backup[k].ts] > 0 THEN {backup[k].ts} ELSE {})
    BY <1>8 DEF Backed!OpenTmp, Backed!Tmp
  <2>3. /\ b \in BackupRecords /\ b.status = backup[k].status /\ b.at = "writing"
        /\ b.lines = backup[k].lines /\ b.ts = backup[k].ts /\ b.own = backup[k].own
    BY <1>1 DEF BackupRecords, BackupStates
  <2> HIDE DEF b
  <2>4. TapesTyped'
    <3>1. backup[k].ts \in 1..LastSecond /\ now \in Nat \cup {-1}
      BY <1>2, <1>4, <1>5, <2>1
    <3> HIDE DEF now
    <3> QED
      BY <1>5, <2>1, <3>1 DEF TapesTyped
  <2>5. /\ b.ts \in 1..LastSecond /\ b.ts # 0 /\ b.status \in {"RUNNING", "CANCELLING"}
    BY <1>2, <1>4, <2>1, <2>3
  <2>6. /\ \A t \in 1..LastSecond : t # b.ts => tmpLines'[t] = tmpLines[t] /\ archives'[t] = archives[t]
        /\ b.ts \notin mixed' => tmpLines'[b.ts] = b.lines
    BY <1>2, <1>5, <2>1, <2>2, <2>3, <2>5
  <2>w. Writes(k, b)
    BY <1>2, <2>1, <2>3, <2>5, <2>6 DEF Writes
  <2>m. MixesKnown(k, b)
    BY <1>2, <1>3, <2>1, <2>2, <2>3, <2>5 DEF MixesKnown
  <2>h. WritesWhole(b)
    BY <2>3, <2>5, <2>6 DEF WritesWhole
  <2>t. Tracks(k, b)
    BY <2>1, <2>3, <2>5 DEF Tracks, Backed!Active
  <2> QED
    BY <1>1, <2>1, <2>3, <2>4, <2>w, <2>m, <2>h, <2>t, PutStep
<1>9. ASSUME NEW b \in BackupRecords, backup' = [backup EXCEPT ![k] = b],
             backup[k].status \in {"QUEUED", "RUNNING", "CANCELLING", "FAILED"},
             b.ts = backup[k].ts, b.at = "none",
             b.status \in {"QUEUED", "CANCELLED", "FAILED", "DONE"}, b.status = "QUEUED" => ~b.own,
             UNCHANGED <<second, tracked, recorded, mixed>>, draining' \in BOOLEAN, TapesTyped',
             \A t \in 1..LastSecond : t # b.ts => tmpLines'[t] = tmpLines[t] /\ archives'[t] = archives[t],
             (b.status = "DONE" /\ b.ts \notin mixed) => archives'[b.ts] = LineCount
      PROVE  BackupInv'
  <2>w. Writes(k, b)
    BY <1>2, <1>9 DEF Writes
  <2>m. MixesKnown(k, b)
    BY <1>2, <1>3, <1>9 DEF MixesKnown
  <2>h. WritesWhole(b)
    BY <1>9 DEF WritesWhole
  <2>t. Tracks(k, b)
    BY <1>9 DEF Tracks
  <2> QED
    BY <1>9, <2>w, <2>m, <2>h, <2>t, PutStep
<1>10. CASE Backed!WriteDoc(k) /\ backup[k].status # "CANCELLING"
  <2> DEFINE b == [backup[k] EXCEPT !.lines = @ + 1]
             now == tmpLines[backup[k].ts]
  <2>1. /\ backup' = [backup EXCEPT ![k] = b] /\ backup[k].at = "writing" /\ backup[k].lines < LineCount
        /\ tmpLines' = [tmpLines EXCEPT ![backup[k].ts] = IF now = -1 THEN now ELSE now + 1]
        /\ UNCHANGED <<second, archives, tracked, draining, recorded, mixed>>
    BY <1>10, Zenon DEF Backed!WriteDoc, Backed!Put
  <2>2. /\ b \in BackupRecords /\ b.status = backup[k].status /\ b.at = "writing"
        /\ b.lines = backup[k].lines + 1 /\ b.ts = backup[k].ts /\ b.own = backup[k].own
    BY <1>1, <2>1 DEF BackupRecords, BackupStates
  <2>3. backup[k].lines \in Nat
    BY <1>1 DEF BackupRecords
  <2> HIDE DEF b
  <2>4. TapesTyped'
    <3>1. backup[k].ts \in 1..LastSecond /\ now \in Nat \cup {-1}
      BY <1>2, <1>4, <1>5, <2>1
    <3> HIDE DEF now
    <3> QED
      BY <1>5, <2>1, <3>1 DEF TapesTyped
  <2>5. /\ b.ts \in 1..LastSecond /\ b.ts # 0 /\ b.status \in {"RUNNING", "CANCELLING"}
    BY <1>2, <1>4, <2>1, <2>2
  <2>6. /\ \A t \in 1..LastSecond : t # b.ts => tmpLines'[t] = tmpLines[t] /\ archives'[t] = archives[t]
        /\ b.ts \notin mixed' => tmpLines'[b.ts] = b.lines
    BY <1>2, <1>5, <2>1, <2>2, <2>3, <2>5
  <2>w. Writes(k, b)
    BY <1>2, <2>1, <2>2, <2>5, <2>6 DEF Writes
  <2>m. MixesKnown(k, b)
    BY <1>3, <2>1, <2>2, <2>5 DEF MixesKnown
  <2>h. WritesWhole(b)
    BY <2>2, <2>5, <2>6 DEF WritesWhole
  <2>t. Tracks(k, b)
    BY <2>1, <2>2, <2>5 DEF Tracks, Backed!Active
  <2> QED
    BY <1>1, <2>1, <2>2, <2>4, <2>w, <2>m, <2>h, <2>t, PutStep
<1>11. ASSUME NEW status \in {"CANCELLED", "FAILED", "DONE"}, Backed!Over(k, status),
              backup[k].at # "none",
              tmpLines' \in {tmpLines, Backed!WithoutTmp(k)},
              archives' = archives \/ \E n \in Int : archives' = [archives EXCEPT ![backup[k].ts] = n],
              (status = "DONE" /\ backup[k].ts \notin mixed) => archives'[backup[k].ts] = LineCount,
              UNCHANGED <<second, tracked, recorded, mixed>>
       PROVE  BackupInv'
  <2> DEFINE b == [backup[k] EXCEPT !.status = status, !.at = "none"]
  <2>1. backup' = [backup EXCEPT ![k] = b] /\ draining' \in BOOLEAN
    BY <1>11, Zenon DEF Backed!Over, Backed!Put
  <2>2. b \in BackupRecords /\ b.status = status /\ b.at = "none" /\ b.ts = backup[k].ts
    BY <1>1, <1>11 DEF BackupRecords, BackupStates
  <2> HIDE DEF b
  <2>3. backup[k].status \in {"RUNNING", "CANCELLING"} /\ b.ts \in 1..LastSecond
    BY <1>2, <1>4, <1>11, <2>2
  <2>4. TapesTyped'
    <3>1. tmpLines' \in [1..LastSecond -> Nat \cup {-1}]
      <4>1. -1 \in Nat \cup {-1} /\ backup[k].ts \in 1..LastSecond
        BY <2>2, <2>3
      <4>2. Backed!WithoutTmp(k) = [tmpLines EXCEPT ![backup[k].ts] = -1]
        BY DEF Backed!WithoutTmp
      <4> QED
        BY <1>5, <1>11, <4>1, <4>2
    <3>2. archives' \in [1..LastSecond -> Int]
      BY <1>5, <1>11
    <3> QED
      BY <3>1, <3>2 DEF TapesTyped
  <2>5. \A t \in 1..LastSecond : t # b.ts => tmpLines'[t] = tmpLines[t] /\ archives'[t] = archives[t]
    BY <1>5, <1>11, <2>2, <2>3 DEF Backed!WithoutTmp
  <2> QED
    BY <1>9, <1>11, <2>1, <2>2, <2>3, <2>4, <2>5
<1>12. CASE Backed!WriteDoc(k) /\ backup[k].status = "CANCELLING"
  BY <1>11, <1>12 DEF Backed!WriteDoc
<1>13. CASE Backed!Finalize(k)
  <2>1. /\ backup[k].at = "writing" /\ backup[k].lines = LineCount
        /\ tmpLines' = Backed!WithoutTmp(k) /\ UNCHANGED <<second, tracked, recorded, mixed>>
    BY <1>13 DEF Backed!Finalize
  <2>2. backup[k].ts \in 1..LastSecond /\ Backed!Tmp(k) \in Int
    BY <1>2, <1>4, <1>5, <2>1 DEF Backed!Tmp
  <2>3. CASE /\ archives' = [archives EXCEPT ![backup[k].ts] = Backed!Tmp(k)]
             /\ Backed!Over(k, "DONE")
    <3>1. backup[k].ts \notin mixed => archives'[backup[k].ts] = LineCount
      BY <1>2, <1>5, <2>1, <2>2, <2>3 DEF Backed!Tmp
    <3> QED
      BY <1>11, <2>1, <2>2, <2>3, <3>1
  <2>4. CASE /\ archives' = [archives EXCEPT ![backup[k].ts] = Backed!Tmp(k)]
             /\ Backed!Over(k, "FAILED")
    BY <1>11, <2>1, <2>2, <2>4
  <2>5. CASE archives' = [archives EXCEPT ![backup[k].ts] = -2] /\ Backed!Over(k, "FAILED")
    <3>1. -2 \in Int
      OBVIOUS
    <3> QED
      BY <1>11, <2>1, <2>5, <3>1
  <2> QED
    BY <1>13, <2>3, <2>4, <2>5 DEF Backed!Finalize
<1>14. CASE Backed!ExportFails(k)
  BY <1>11, <1>14 DEF Backed!ExportFails
<1>15. CASE Backed!ResumeBackup(k)
  <2> DEFINE b == [backup[k] EXCEPT !.status = "QUEUED", !.own = FALSE]
  <2>1. /\ backup' = [backup EXCEPT ![k] = b] /\ backup[k].status = "FAILED"
        /\ UNCHANGED <<second, tmpLines, archives, tracked, draining, recorded, mixed>>
    BY <1>15 DEF Backed!ResumeBackup, Backed!Put
  <2>2. /\ b \in BackupRecords /\ b.status = "QUEUED" /\ b.at = backup[k].at /\ ~b.own
        /\ b.ts = backup[k].ts
    BY <1>1 DEF BackupRecords, BackupStates
  <2> HIDE DEF b
  <2>3. TapesTyped' /\ draining' \in BOOLEAN
    BY <1>1, <1>5, <2>1 DEF TapesTyped
  <2> QED
    BY <1>2, <1>9, <2>1, <2>2, <2>3
<1>17. CASE Backed!CancelBackup(k)
  <2> DEFINE b == [backup[k] EXCEPT !.status = "CANCELLING"]
  <2>1. /\ backup' = [backup EXCEPT ![k] = b] /\ backup[k].status = "RUNNING"
        /\ UNCHANGED <<second, tmpLines, archives, tracked, draining, recorded, mixed>>
    BY <1>17 DEF Backed!CancelBackup, Backed!Put
  <2>2. /\ b \in BackupRecords /\ b.status = "CANCELLING" /\ b.at = backup[k].at
        /\ b.ts = backup[k].ts /\ b.lines = backup[k].lines /\ b.own = backup[k].own
    BY <1>1 DEF BackupRecords, BackupStates
  <2> HIDE DEF b
  <2>3. TapesTyped' /\ draining' \in BOOLEAN
    BY <1>1, <1>5, <2>1 DEF TapesTyped
  <2>w. Writes(k, b)
    BY <1>2, <2>1, <2>2 DEF Writes
  <2>m. MixesKnown(k, b)
    BY <1>2, <1>3, <2>1, <2>2 DEF MixesKnown
  <2>h. WritesWhole(b)
    BY <1>2, <2>1, <2>2 DEF WritesWhole
  <2>t. Tracks(k, b)
    BY <2>1, <2>2 DEF Tracks, Backed!Active
  <2> QED
    BY <1>1, <2>1, <2>2, <2>3, <2>w, <2>m, <2>h, <2>t, PutStep
<1> QED
  BY <1>6, <1>7, <1>a, <1>8, <1>10, <1>12, <1>13, <1>14, <1>15, <1>17
     DEF Backed!RunOneTick, Backed!TriggerBackup

LEMMA BackupInvariant == RequestsSpec => []BackupInv
<1>1. RequestsInit => BackupInv
  BY BackupInitInv DEF RequestsInit
<1>2. ASSUME BackupInv, [RequestsNext]_allVars
      PROVE  BackupInv'
  <2>1. Backed!BackupNext \/ UNCHANGED bakVars
    BY <1>2 DEF RequestsNext, allVars
  <2> QED
    BY <1>2, <2>1, ClockStep, DrainStep, RestartStep, JobStep, BackupStill DEF Backed!BackupNext
<1> QED
  BY <1>1, <1>2, PTL DEF RequestsSpec

\* The backups (_run_one_tick, run_export_task, _drain_completed, _rotate), for any number of them,
\* of archives kept and of lines: one that is DONE is whole, the one on record can be restored
\* whatever failed after it, and a process has one of its own on its way.
THEOREM BackupsAreKept == RequestsSpec => []BackupsKept
<1>1. BackupInv => BackupsKept
  <2> SUFFICES ASSUME BackupInv
               PROVE  Backed!BackupTypeOK /\ Backed!DoneIsWhole /\ Backed!RecordedIsKept /\
                      Backed!OneOnItsWay
    BY DEF BackupsKept
  <2>1. Backed!BackupTypeOK
    BY DEF BackupInv, BackupTyped, BackupRecords, BackupStates, Backed!BackupTypeOK, Backed!Seconds
  <2>2. Backed!DoneIsWhole
    BY DEF BackupInv
  <2>3. Backed!RecordedIsKept
    BY DEF BackupInv, RecordedWhole, Whole, Backed!RecordedIsKept
  <2>4. Backed!OneOnItsWay
    <3> DEFINE way == {k \in Backups : Backed!Active(k) /\ backup[k].own}
    <3>1. way \subseteq {tracked}
      BY DEF BackupInv, OwnIsTracked
    <3>2. IsFiniteSet({tracked}) /\ Cardinality({tracked}) = 1
      BY FS_Singleton
    <3>3. Cardinality(way) <= 1
      BY <3>1, <3>2, FS_Subset
    <3> QED
      BY <3>3, SameCount DEF Backed!OneOnItsWay
  <2> QED
    BY <2>1, <2>2, <2>3, <2>4
<1> QED
  BY <1>1, BackupInvariant, PTL

-----------------------------------------------------------------------------
(* KeyFile: the processes that start together. *)

StartPlaces == {"start", "open", "publish", "linked", "refused", "wait", "keyless", "remove", "ready", "failed", "dead"}
StartRow == [at : StartPlaces, given : BOOLEAN, attempt : {1, 2}, replace : BOOLEAN, leftover : BOOLEAN, key : Int]
FileTyped == /\ envFile \in Starters \cup {0, -1, -2} /\ tmpFile \in Starters \cup {0} /\ starter \in [Starters -> StartRow]
             /\ fresh \in BOOLEAN /\ meddled \in BOOLEAN
\* In a new data directory nobody replaces a key, and the first one is linked once.
NewDirectory == /\ envFile \in Starters \cup {0}
                /\ \A p \in Starters : ~starter[p].given /\ ~starter[p].replace /\ ~starter[p].leftover
\* As long as nobody took a live writer's temp file away, it is the writer's own, and its link is its key.
Publishing == {"publish", "linked", "refused"}
OwnTmp(p) == /\ starter[p].at \in Publishing => tmpFile = p
             /\ starter[p].at = "linked" => envFile = p
             /\ starter[p].at = "ready" => envFile # 0 /\ starter[p].key = envFile
FileInv == FileTyped /\ (fresh => NewDirectory) /\ (fresh /\ ~meddled => \A p \in Starters : OwnTmp(p))

LEMMA FileStarts == FirstKey!FileInit \/ FirstKeyRests => FileInv
<1>1. FirstKey!Beginning \in StartRow /\ [FirstKey!Beginning EXCEPT !.given = TRUE] \in StartRow
  <2>1. FirstKey!Beginning \in StartRow
    BY DEF FirstKey!Beginning, StartRow, StartPlaces
  <2>2. \A e \in StartRow : [e EXCEPT !.given = TRUE] \in StartRow
    BY DEF StartRow
  <2> QED
    BY <2>1, <2>2
<1>2. /\ FirstKey!Beginning.at = "start" /\ [FirstKey!Beginning EXCEPT !.given = TRUE].at = "start"
      /\ ~FirstKey!Beginning.replace /\ ~FirstKey!Beginning.leftover /\ ~FirstKey!Beginning.given
      /\ ~[FirstKey!Beginning EXCEPT !.given = TRUE].replace /\ ~[FirstKey!Beginning EXCEPT !.given = TRUE].leftover
  BY DEF FirstKey!Beginning
<1>3. ASSUME FirstKeyRests PROVE FirstKey!FileInit
  BY <1>2, <1>3 DEF FirstKeyRests, FirstKey!FileInit
<1>4. ASSUME FirstKey!FileInit PROVE FileInv
  <2>1. /\ envFile \in {0, -1, -2} /\ tmpFile = 0 /\ starter \in [Starters -> {FirstKey!Beginning, [FirstKey!Beginning EXCEPT !.given = TRUE]}]
        /\ fresh = (envFile = 0 /\ \A p \in Starters : ~starter[p].given) /\ meddled = FALSE
    BY <1>4 DEF FirstKey!FileInit
  <2>2. starter \in [Starters -> StartRow] /\ \A p \in Starters : starter[p].at = "start" /\ ~starter[p].replace /\ ~starter[p].leftover
    BY <1>1, <1>2, <2>1
  <2>3. FileTyped
    BY <2>1, <2>2 DEF FileTyped
  <2> QED
    BY <2>1, <2>2, <2>3 DEF FileInv, NewDirectory, OwnTmp, Publishing
<1> QED
  BY <1>3, <1>4

\* A step of one process: what it must keep for the others.
LEMMA StarterStep ==
  ASSUME FileInv, NEW p \in Starters, NEW s \in StartRow, starter' = [starter EXCEPT ![p] = s], fresh' = fresh,
         envFile' \in Starters \cup {0, -1, -2}, tmpFile' \in Starters \cup {0}, meddled' \in BOOLEAN,
         meddled => meddled',
         fresh => /\ envFile' \in Starters \cup {0} /\ ~s.given /\ ~s.replace /\ ~s.leftover
                  /\ envFile # 0 => envFile' = envFile,
         fresh /\ ~meddled' =>
            /\ s.at \in Publishing => tmpFile' = p
            /\ s.at = "linked" => envFile' = p
            /\ s.at = "ready" => envFile' # 0 /\ s.key = envFile'
            /\ \A q \in Starters : q # p /\ starter[q].at \in Publishing => tmpFile' = tmpFile
  PROVE  FileInv'
<1>1. /\ starter \in [Starters -> StartRow] /\ starter' \in [Starters -> StartRow] /\ starter'[p] = s
      /\ \A q \in Starters : q # p => starter'[q] = starter[q]
  BY DEF FileInv, FileTyped
<1>2. FileTyped'
  BY <1>1 DEF FileInv, FileTyped
<1>3. fresh => NewDirectory'
  BY <1>1 DEF FileInv, NewDirectory
<1>4. ASSUME fresh, ~meddled', NEW q \in Starters PROVE OwnTmp(q)'
  <2>1. CASE q = p
    BY <1>1, <1>4, <2>1 DEF OwnTmp
  <2>2. CASE q # p
    <3>1. OwnTmp(q) /\ starter'[q] = starter[q] /\ 0 \notin Starters
      BY <1>1, <1>4, <2>2, KeysFit DEF FileInv
    <3> QED
      BY <1>4, <2>2, <3>1 DEF OwnTmp, Publishing
  <2> QED
    BY <2>1, <2>2
<1> QED
  BY <1>2, <1>3, <1>4 DEF FileInv

LEMMA MovedRow ==
  ASSUME NEW e \in StartRow, NEW at \in StartPlaces
  PROVE  LET s == [e EXCEPT !.at = at]
         IN s \in StartRow /\ s.at = at /\ s.given = e.given /\ s.replace = e.replace /\ s.leftover = e.leftover /\ s.key = e.key
BY DEF StartRow

LEMMA ReadyRow ==
  ASSUME NEW e \in StartRow, NEW key \in Int
  PROVE  LET s == [e EXCEPT !.at = "ready", !.key = key]
         IN s \in StartRow /\ s.at = "ready" /\ s.given = e.given /\ s.replace = e.replace /\ s.leftover = e.leftover /\ s.key = key
BY DEF StartRow, StartPlaces

\* What a process that gives up, or has a key of its own, does to its row.
LEMMA FailsRow ==
  ASSUME FileInv, NEW p \in Starters, FirstKey!Fails(p)
  PROVE  \E s \in StartRow : /\ starter' = [starter EXCEPT ![p] = s] /\ UNCHANGED <<fresh, meddled>>
                             /\ s.replace = starter[p].replace /\ s.leftover = starter[p].leftover
                             /\ s.given = starter[p].given /\ s.at \in {"ready", "failed"}
                             /\ s.at = "ready" => s.given
<1>1. starter[p] \in StartRow /\ p \in Int /\ "failed" \in StartPlaces
  BY KeysFit DEF FileInv, FileTyped, StartPlaces
<1>2. CASE starter[p].given
  <2> DEFINE s == [starter[p] EXCEPT !.at = "ready", !.key = p]
  <2>1. starter' = [starter EXCEPT ![p] = s] /\ UNCHANGED <<fresh, meddled>>
    BY <1>2 DEF FirstKey!Fails, FirstKey!With, FirstKey!Go
  <2>2. s \in StartRow /\ s.at = "ready" /\ s.given = starter[p].given /\ s.replace = starter[p].replace /\ s.leftover = starter[p].leftover
    BY <1>1, ReadyRow
  <2> HIDE DEF s
  <2> QED
    BY <1>2, <2>1, <2>2
<1>3. CASE ~starter[p].given
  BY <1>1, <1>3, MovedRow DEF FirstKey!Fails, FirstKey!At, FirstKey!Go
<1> QED
  BY <1>2, <1>3

LEMMA FileStep == FileInv /\ FirstKey!FileNext => FileInv'
<1> SUFFICES ASSUME FileInv, NEW p \in Starters,
                    \/ FirstKey!Look(p) \/ FirstKey!OpenTmp(p) \/ FirstKey!Publish(p) \/ FirstKey!UnlinkTmp(p)
                    \/ FirstKey!WriteFails(p) \/ FirstKey!Await(p) \/ FirstKey!AwaitTmp(p) \/ FirstKey!RemoveTmp(p)
                    \/ FirstKey!Die(p)
             PROVE  FileInv'
  BY DEF FirstKey!FileNext
<1> DEFINE e == starter[p]
<1>0. /\ e \in StartRow /\ starter \in [Starters -> StartRow] /\ envFile \in Starters \cup {0, -1, -2} /\ envFile \in Int
      /\ tmpFile \in Starters \cup {0} /\ meddled \in BOOLEAN /\ fresh \in BOOLEAN /\ p \in Int /\ p # 0 /\ p > 0
      /\ fresh => envFile \in Starters \cup {0} /\ ~e.given /\ ~e.replace /\ ~e.leftover
      /\ e.given \in BOOLEAN /\ e.replace \in BOOLEAN
  BY KeysFit DEF FileInv, FileTyped, NewDirectory, StartRow
<1>o. fresh /\ ~meddled => OwnTmp(p) /\ \A q \in Starters : q # p /\ starter[q].at \in Publishing => tmpFile = q
  BY DEF FileInv, OwnTmp
<1>p. \A q \in Starters : q > 0
  BY KeysFit
\* A step that only moves the process on, and not to a place where it writes.
<1>m. ASSUME NEW s \in StartRow, starter' = [starter EXCEPT ![p] = s], UNCHANGED <<fresh, meddled, envFile, tmpFile>>,
             fresh => ~s.given /\ ~s.replace /\ ~s.leftover, s.at \notin Publishing,
             fresh /\ s.at = "ready" => envFile # 0 /\ s.key = envFile
      PROVE  FileInv'
  BY <1>0, <1>m, StarterStep DEF Publishing
<1>1. CASE FirstKey!Look(p)
  <2>1. UNCHANGED <<envFile, tmpFile>> /\ e.at = "start"
    BY <1>1 DEF FirstKey!Look
  <2>2. CASE e.given
    <3> DEFINE s == [e EXCEPT !.at = "open", !.replace = TRUE]
    <3>1. starter' = [starter EXCEPT ![p] = s] /\ UNCHANGED <<fresh, meddled>>
      BY <1>1, <2>2 DEF FirstKey!Look, FirstKey!Go
    <3>2. s \in StartRow /\ s.at = "open"
      BY <1>0 DEF StartRow, StartPlaces
    <3>3. ~fresh
      BY <1>0, <2>2
    <3> HIDE DEF s
    <3> QED
      BY <1>m, <2>1, <3>1, <3>2, <3>3 DEF Publishing
  <2>3. CASE ~e.given /\ envFile > 0
    <3> DEFINE s == [e EXCEPT !.at = "ready", !.key = envFile]
    <3>1. starter' = [starter EXCEPT ![p] = s] /\ UNCHANGED <<fresh, meddled>>
      BY <1>1, <2>3 DEF FirstKey!Look, FirstKey!With, FirstKey!Go
    <3>2. s \in StartRow /\ s.at = "ready" /\ s.key = envFile /\ s.given = e.given /\ s.replace = e.replace /\ s.leftover = e.leftover
      BY <1>0, ReadyRow
    <3>3. envFile # 0
      BY <2>3
    <3> HIDE DEF s
    <3> QED
      BY <1>0, <1>m, <2>1, <3>1, <3>2, <3>3 DEF Publishing
  <2>4. CASE ~e.given /\ ~(envFile > 0)
    <3>1. PICK at \in {"failed", "open"} : starter' = [starter EXCEPT ![p] = [e EXCEPT !.at = at]] /\ UNCHANGED <<fresh, meddled>>
      BY <1>1, <2>4 DEF FirstKey!Look, FirstKey!At, FirstKey!Go
    <3>2. at \in StartPlaces
      BY DEF StartPlaces
    <3> QED
      BY <1>0, <1>m, <2>1, <3>1, <3>2, MovedRow DEF Publishing
  <2> QED
    BY <2>2, <2>3, <2>4
<1>2. CASE FirstKey!OpenTmp(p)
  <2>1. CASE tmpFile = 0
    <3>1. tmpFile' = p /\ envFile' = envFile /\ starter' = [starter EXCEPT ![p] = [e EXCEPT !.at = "publish"]] /\ UNCHANGED <<fresh, meddled>>
      BY <1>2, <2>1 DEF FirstKey!OpenTmp, FirstKey!At, FirstKey!Go
    <3>2. "publish" \in StartPlaces
      BY DEF StartPlaces
    <3>3. fresh /\ ~meddled => \A q \in Starters : ~(q # p /\ starter[q].at \in Publishing)
      BY <1>o, <1>p, <2>1
    <3> QED
      BY <1>0, <3>1, <3>2, <3>3, MovedRow, StarterStep
  <2>2. CASE tmpFile # 0
    <3> DEFINE s == [e EXCEPT !.at = "wait"]
    <3>1. UNCHANGED <<envFile, tmpFile, fresh, meddled>> /\ starter' = [starter EXCEPT ![p] = s]
      BY <1>2, <2>2 DEF FirstKey!OpenTmp, FirstKey!At, FirstKey!Go
    <3>2. s \in StartRow /\ s.at = "wait" /\ s.given = e.given /\ s.replace = e.replace /\ s.leftover = e.leftover
      BY <1>0, MovedRow DEF StartPlaces
    <3> HIDE DEF s
    <3> QED
      BY <1>0, <1>m, <3>1, <3>2 DEF Publishing
  <2> QED
    BY <2>1, <2>2
<1>3. CASE FirstKey!Publish(p)
  <2>0. e.at = "publish" /\ tmpFile # 0
    BY <1>3 DEF FirstKey!Publish
  <2>1. CASE e.replace
    <3>1. envFile' = tmpFile /\ tmpFile' = 0 /\ (FirstKey!With(p, p) \/ FirstKey!Fails(p))
      BY <1>3, <2>1 DEF FirstKey!Publish
    <3>2. \E s \in StartRow : starter' = [starter EXCEPT ![p] = s] /\ UNCHANGED <<fresh, meddled>>
      BY <1>0, <3>1, FailsRow, ReadyRow DEF FirstKey!With, FirstKey!Go
    <3>3. ~fresh
      BY <1>0, <2>1
    <3>4. tmpFile \in Starters /\ 0 \in Starters \cup {0} /\ envFile' \in Starters \cup {0, -1, -2} /\ meddled' \in BOOLEAN
      BY <1>0, <2>0, <3>1, <3>2
    <3>5. PICK s \in StartRow : starter' = [starter EXCEPT ![p] = s] /\ UNCHANGED <<fresh, meddled>>
      BY <3>2
    <3> QED
      BY <3>1, <3>3, <3>4, <3>5, StarterStep
  <2>2. CASE ~e.replace /\ envFile = 0
    <3>1. envFile' = tmpFile /\ tmpFile' = tmpFile /\ starter' = [starter EXCEPT ![p] = [e EXCEPT !.at = "linked"]] /\ UNCHANGED <<fresh, meddled>>
      BY <1>3, <2>2 DEF FirstKey!Publish, FirstKey!At, FirstKey!Go
    <3>2. "linked" \in StartPlaces
      BY DEF StartPlaces
    <3>3. fresh /\ ~meddled => tmpFile = p
      BY <1>o, <2>0 DEF OwnTmp, Publishing
    <3> QED
      BY <1>0, <2>2, <3>1, <3>2, <3>3, MovedRow, StarterStep
  <2>3. CASE ~e.replace /\ envFile # 0
    <3>1. UNCHANGED <<envFile, tmpFile, fresh, meddled>> /\ starter' = [starter EXCEPT ![p] = [e EXCEPT !.at = "refused"]]
      BY <1>3, <2>3 DEF FirstKey!Publish, FirstKey!At, FirstKey!Go
    <3> DEFINE s == [e EXCEPT !.at = "refused"]
    <3>2. s \in StartRow /\ s.at = "refused" /\ s.given = e.given /\ s.replace = e.replace /\ s.leftover = e.leftover
      BY <1>0, MovedRow DEF StartPlaces
    <3>3. fresh /\ ~meddled => tmpFile = p
      BY <1>o, <2>0 DEF OwnTmp, Publishing
    <3> QED
      <4>1. starter' = [starter EXCEPT ![p] = s] /\ s.at # "linked" /\ s.at # "ready"
        BY <3>1, <3>2
      <4> HIDE DEF s
      <4> QED
        BY <1>0, <3>1, <3>2, <3>3, <4>1, StarterStep
  <2> QED
    BY <2>1, <2>2, <2>3
<1>f. ASSUME e.at \in Publishing, tmpFile' = 0, envFile' = envFile, NEW s \in StartRow, starter' = [starter EXCEPT ![p] = s],
             UNCHANGED <<fresh, meddled>>, fresh => ~s.given /\ ~s.replace /\ ~s.leftover, s.at \notin Publishing,
             fresh /\ ~meddled /\ s.at = "ready" => envFile # 0 /\ s.key = envFile
      PROVE  FileInv'
  <2>1. fresh /\ ~meddled => tmpFile = p /\ \A q \in Starters : ~(q # p /\ starter[q].at \in Publishing)
    BY <1>o, <1>f DEF OwnTmp
  <2>2. s.at # "linked"
    BY <1>f DEF Publishing
  <2> QED
    BY <1>0, <1>f, <2>1, <2>2, StarterStep
<1>4. CASE FirstKey!UnlinkTmp(p)
  <2>0. e.at \in {"linked", "refused"} /\ tmpFile' = 0 /\ envFile' = envFile
    BY <1>4 DEF FirstKey!UnlinkTmp
  <2>1. CASE e.at = "linked" /\ FirstKey!With(p, p)
    <3> DEFINE s == [e EXCEPT !.at = "ready", !.key = p]
    <3>1. starter' = [starter EXCEPT ![p] = s] /\ UNCHANGED <<fresh, meddled>>
      BY <2>1 DEF FirstKey!With, FirstKey!Go
    <3>2. fresh /\ ~meddled => envFile = p
      BY <1>o, <2>1 DEF OwnTmp
    <3>3. s \in StartRow /\ s.at = "ready" /\ s.key = p /\ s.given = e.given /\ s.replace = e.replace /\ s.leftover = e.leftover
      BY <1>0, ReadyRow
    <3> HIDE DEF s
    <3> QED
      BY <1>0, <1>f, <2>0, <3>1, <3>2, <3>3 DEF Publishing
  <2>2. CASE e.at = "linked" /\ FirstKey!Fails(p)
    BY <1>0, <1>f, <2>0, <2>2, FailsRow DEF Publishing
  <2>3. CASE e.at = "refused"
    <3>1. starter' = [starter EXCEPT ![p] = [e EXCEPT !.at = "wait"]] /\ UNCHANGED <<fresh, meddled>>
      BY <1>4, <2>3 DEF FirstKey!UnlinkTmp, FirstKey!At, FirstKey!Go
    <3>2. "wait" \in StartPlaces
      BY DEF StartPlaces
    <3> QED
      BY <1>0, <1>f, <2>0, <3>1, <3>2, MovedRow DEF Publishing
  <2> QED
    BY <1>4, <2>0, <2>1, <2>2, <2>3 DEF FirstKey!UnlinkTmp
<1>5. CASE FirstKey!WriteFails(p)
  <2>1. e.at = "publish" /\ tmpFile' = 0 /\ envFile' = envFile /\ FirstKey!Fails(p)
    BY <1>5 DEF FirstKey!WriteFails
  <2> QED
    BY <1>0, <1>f, <2>1, FailsRow DEF Publishing
<1>6. CASE FirstKey!Await(p)
  <2>0. UNCHANGED <<envFile, tmpFile>>
    BY <1>6 DEF FirstKey!Await
  <2>1. CASE envFile > 0
    <3> DEFINE key == IF e.given THEN p ELSE envFile
    <3>1. starter' = [starter EXCEPT ![p] = [e EXCEPT !.at = "ready", !.key = key]] /\ UNCHANGED <<fresh, meddled>>
      BY <1>6, <2>1 DEF FirstKey!Await, FirstKey!With, FirstKey!Go
    <3>2. key \in Int /\ (fresh => key = envFile) /\ envFile # 0
      BY <1>0, <2>1
    <3> HIDE DEF key
    <3> QED
      BY <1>0, <1>m, <2>0, <3>1, <3>2, ReadyRow DEF Publishing
  <2>2. CASE ~(envFile > 0)
    <3> DEFINE s == [e EXCEPT !.at = "keyless", !.leftover = (envFile # 0)]
    <3>1. starter' = [starter EXCEPT ![p] = s] /\ UNCHANGED <<fresh, meddled>>
      BY <1>6, <2>2 DEF FirstKey!Await, FirstKey!Go
    <3>2. s \in StartRow /\ s.at = "keyless" /\ s.leftover = (envFile # 0) /\ s.given = e.given /\ s.replace = e.replace
      <4>1. ASSUME NEW x \in StartRow, NEW b \in BOOLEAN PROVE
              LET y == [x EXCEPT !.at = "keyless", !.leftover = b]
              IN y \in StartRow /\ y.at = "keyless" /\ y.leftover = b /\ y.given = x.given /\ y.replace = x.replace
        BY DEF StartRow, StartPlaces
      <4> DEFINE b == (envFile # 0)
      <4>2. b \in BOOLEAN
        OBVIOUS
      <4>3. s = [e EXCEPT !.at = "keyless", !.leftover = b]
        OBVIOUS
      <4> HIDE DEF b, s, e
      <4> QED
        BY <1>0, <4>1, <4>2, <4>3 DEF b
    <3>3. fresh => envFile = 0
      BY <1>0, <1>p, <2>2
    <3> HIDE DEF s
    <3> QED
      BY <1>0, <1>m, <2>0, <3>1, <3>2, <3>3 DEF Publishing
  <2> QED
    BY <2>1, <2>2
<1>7. CASE FirstKey!AwaitTmp(p) \/ FirstKey!Die(p)
  <2>1. PICK at \in {"remove", "wait", "dead"} : UNCHANGED <<envFile, tmpFile, fresh, meddled>> /\ starter' = [starter EXCEPT ![p] = [e EXCEPT !.at = at]]
    BY <1>7 DEF FirstKey!AwaitTmp, FirstKey!Die, FirstKey!At, FirstKey!Go
  <2>2. at \in StartPlaces
    BY DEF StartPlaces
  <2> QED
    BY <1>0, <1>m, <2>1, <2>2, MovedRow DEF Publishing
<1>8. CASE FirstKey!RemoveTmp(p)
  <2> DEFINE again == [e EXCEPT !.at = "open", !.attempt = 2, !.replace = @ \/ e.leftover]
             over == [e EXCEPT !.at = IF e.given THEN "ready" ELSE "failed", !.key = IF e.given THEN p ELSE @]
  <2>1. /\ e.at = "remove" /\ tmpFile' = 0 /\ UNCHANGED <<envFile, fresh>> /\ meddled' = (meddled \/ (tmpFile # 0 /\ ~FirstKey!Orphan))
        /\ starter' = [starter EXCEPT ![p] = IF e.attempt = 1 THEN again ELSE over]
    BY <1>8 DEF FirstKey!RemoveTmp
  <2>2. ASSUME NEW x \in StartRow PROVE
          LET y == [x EXCEPT !.at = "open", !.attempt = 2, !.replace = @ \/ x.leftover]
          IN y \in StartRow /\ y.at = "open" /\ y.given = x.given /\ y.leftover = x.leftover /\ y.replace = (x.replace \/ x.leftover)
    BY DEF StartRow, StartPlaces
  <2>4. PICK s \in StartRow : /\ starter' = [starter EXCEPT ![p] = s] /\ s.at \in {"open", "ready", "failed"} /\ (s.at = "ready" => s.given)
                              /\ s.given = e.given /\ (fresh => ~s.replace /\ ~s.leftover)
    <3>1. CASE e.attempt = 1
      <4>1. /\ again \in StartRow /\ again.at = "open" /\ again.given = e.given /\ again.leftover = e.leftover
            /\ again.replace = (e.replace \/ e.leftover)
        BY <1>0, <2>2
      <4>2. starter' = [starter EXCEPT ![p] = again]
        BY <2>1, <3>1
      <4> HIDE DEF again
      <4>3. fresh => ~again.replace /\ ~again.leftover
        BY <1>0, <4>1
      <4> QED
        BY <4>1, <4>2, <4>3
    <3>2. CASE e.attempt # 1
      <4>1. e.key \in Int
        BY <1>0 DEF StartRow
      <4> DEFINE at == IF e.given THEN "ready" ELSE "failed"
                 key == IF e.given THEN p ELSE e.key
                 y == [e EXCEPT !.at = at, !.key = key]
      <4>2. at \in {"ready", "failed"} /\ key \in Int /\ (at = "ready" => e.given)
        BY <1>0, <4>1
      <4>3. starter' = [starter EXCEPT ![p] = y]
        BY <2>1, <3>2
      <4> HIDE DEF at, key, e
      <4>4. y \in StartRow /\ y.at = at /\ y.given = e.given /\ y.leftover = e.leftover /\ y.replace = e.replace
        BY <1>0, <4>2 DEF StartRow, StartPlaces
      <4> HIDE DEF y
      <4> QED
        BY <1>0, <4>2, <4>3, <4>4
    <3> QED
      BY <3>1, <3>2
  <2>5. fresh /\ ~meddled' => \A q \in Starters : ~(q # p /\ starter[q].at \in Publishing)
    <3> SUFFICES ASSUME fresh, ~meddled', NEW q \in Starters, q # p, starter[q].at \in Publishing PROVE FALSE
      OBVIOUS
    <3>1. ~meddled /\ (tmpFile = 0 \/ FirstKey!Orphan)
      BY <2>1
    <3>2. tmpFile = q /\ q # 0
      BY <1>o, <1>p, <3>1
    <3> QED
      BY <3>1, <3>2 DEF FirstKey!Orphan, Publishing
  <2>6. meddled' \in BOOLEAN /\ (meddled => meddled')
    BY <1>0, <2>1
  <2>7. s.at \notin Publishing /\ s.at # "linked" /\ (fresh => s.at # "ready" /\ ~s.given)
    BY <1>0, <2>4 DEF Publishing
  <2>8. 0 \in Starters \cup {0} /\ envFile' = envFile /\ fresh' = fresh /\ tmpFile' = 0
    BY <2>1
  <2> HIDE DEF e
  <2> QED
    BY <1>0, <2>4, <2>5, <2>6, <2>7, <2>8, StarterStep
<1> QED
  BY <1>1, <1>2, <1>3, <1>4, <1>5, <1>6, <1>7, <1>8

LEMMA FileStill == FileInv /\ UNCHANGED fileVars => FileInv'
BY DEF FileInv, FileTyped, NewDirectory, OwnTmp, fileVars

-----------------------------------------------------------------------------
(* KeyStore: the default key, the records and the rotations. *)

KeyRow == [status : {"none", "active", "revoked"}, expiry : {"never", "pending", "past"}, admin : BOOLEAN]
RotationRow == [at : {"idle", "commit", "written"}, old : 0..MaxToken, new : 0..MaxToken, grace : BOOLEAN, cancelled : BOOLEAN]
ViewTyped(v) == v.fresh \in BOOLEAN /\ v = [fresh |-> v.fresh, keys |-> v.keys]
KeysTyped == /\ keyfile \in 1..lastToken /\ api \in 0..lastToken /\ lastToken \in Keys!Tokens /\ readable \in BOOLEAN
             /\ keys \in [Keys!Tokens -> KeyRow] /\ rotation \in [Rotators -> RotationRow] /\ gone \subseteq 1..lastToken
             /\ ViewTyped(view) /\ ViewTyped(loadingView)
Rotating(r) == rotation[r].at # "idle"
\* A token that is not issued has no record.
NotIssued == \A t \in Keys!Tokens : t > lastToken => keys[t] = Keys!NoRecord
\* The default key's record, of the running server or of the next one, never expires and is an admin's; only an
\* operator revokes it.
DefaultFit(t) == /\ keys[t].expiry = "never" /\ (keys[t].status = "active" => keys[t].admin)
                 /\ (keys[t].status = "revoked" => t \in byHand)
\* One rotation at a time, of the key that the server runs with, to a key that nobody has seen yet.
RotationFit(r) ==
  Rotating(r) =>
    /\ api # 0 /\ rotation[r].old = api /\ rotation[r].new \in 1..lastToken /\ rotation[r].new # api
    /\ keys[rotation[r].new] = Keys!NoRecord /\ rotation[r].new \notin gone
    /\ IF rotation[r].at = "written" THEN keyfile = rotation[r].new
       ELSE rotation[r].new # keyfile /\ (keyfile = api \/ incomplete)
OneRotation == \A r, s \in Rotators : Rotating(r) /\ Rotating(s) => r = s
\* A retired token has a record that says so, or it never had one and is no default key any more.
GoneFit(t) == \/ Keys!RetiredByRecord(keys[t])
              \/ /\ keys[t].status = "none" /\ t # api /\ t # keyfile
                 /\ \A r \in Rotators : Rotating(r) => t # rotation[r].new
Followed == api # 0 /\ (\A r \in Rotators : ~Rotating(r)) => keyfile = api \/ incomplete
KeyInv == /\ KeysTyped /\ NotIssued /\ DefaultFit(keyfile) /\ (api # 0 => DefaultFit(api))
          /\ OneRotation /\ (\A r \in Rotators : RotationFit(r)) /\ (\A t \in gone : GoneFit(t))
          /\ Followed /\ Keys!ViewIsFile

LEMMA NoRecordFits == Keys!NoRecord \in KeyRow /\ Keys!NoRecord.status = "none" /\ Keys!NoRecord.expiry = "never"
BY DEF Keys!NoRecord, KeyRow

LEMMA KeysStart == Keys!KeyInit => KeyInv
<1> SUFFICES ASSUME Keys!KeyInit PROVE KeyInv
  OBVIOUS
<1>1. /\ keyfile = 1 /\ keys = [t \in Keys!Tokens |-> Keys!NoRecord] /\ readable = TRUE /\ api = 1
      /\ view = Keys!NoView /\ loadingView = Keys!NoView /\ rotation = [r \in Rotators |-> Keys!NoRotation]
      /\ lastToken = 1 /\ gone = {}
  BY DEF Keys!KeyInit
<1>2. 1 \in Keys!Tokens /\ lastToken \in Keys!Tokens
  BY <1>1, KeysFit DEF Keys!Tokens
<1>3. Keys!NoRotation \in RotationRow /\ Keys!NoRotation.at = "idle"
  BY KeysFit DEF Keys!NoRotation, RotationRow
<1>4. ViewTyped(Keys!NoView) /\ Keys!NoView.fresh = FALSE
  BY DEF ViewTyped, Keys!NoView
<1>5. KeysTyped
  BY <1>1, <1>2, <1>3, <1>4, NoRecordFits DEF KeysTyped
<1>6. \A t \in Keys!Tokens : keys[t] = Keys!NoRecord
  BY <1>1
<1>7. \A r \in Rotators : ~Rotating(r)
  BY <1>1, <1>3 DEF Rotating
<1>8. Keys!ViewIsFile
  BY <1>1, <1>4 DEF Keys!ViewIsFile
<1> QED
  BY <1>1, <1>2, <1>5, <1>6, <1>7, <1>8, NoRecordFits
  DEF KeyInv, NotIssued, DefaultFit, OneRotation, RotationFit, Followed

\* A cached view is never under the signature of another file.
LEMMA ViewStep ==
  ASSUME KeyInv, Keys!KeyNext
  PROVE  ViewTyped(view)' /\ ViewTyped(loadingView)' /\ Keys!ViewIsFile'
<1>0. ViewTyped(view) /\ ViewTyped(loadingView) /\ Keys!ViewIsFile /\ keys \in [Keys!Tokens -> KeyRow] /\ readable \in BOOLEAN
  BY DEF KeyInv, KeysTyped
<1>1. ViewTyped(Keys!NoView) /\ Keys!NoView.fresh = FALSE
  BY DEF ViewTyped, Keys!NoView
<1>2. ASSUME NEW v, ViewTyped(v) PROVE ViewTyped(Keys!Replaced(v)) /\ Keys!Replaced(v).fresh = FALSE
  <2>1. v = [fresh |-> v.fresh, keys |-> v.keys]
    BY <1>2 DEF ViewTyped
  <2>2. Keys!Replaced(v) = [fresh |-> FALSE, keys |-> v.keys]
    <3>1. ASSUME NEW K, NEW w \in [fresh : BOOLEAN, keys : K] PROVE [w EXCEPT !.fresh = FALSE] = [fresh |-> FALSE, keys |-> w.keys]
      <4> DEFINE u == [w EXCEPT !.fresh = FALSE]
      <4>1. u \in [fresh : BOOLEAN, keys : K] /\ u.fresh = FALSE /\ u.keys = w.keys
        OBVIOUS
      <4> HIDE DEF u
      <4>2. u = [fresh |-> u.fresh, keys |-> u.keys]
        BY <4>1
      <4> QED
        BY <4>1, <4>2 DEF u
    <3>2. v \in [fresh : BOOLEAN, keys : {v.keys}]
      BY <1>2, <2>1 DEF ViewTyped
    <3> QED
      BY <3>1, <3>2 DEF Keys!Replaced
  <2> QED
    BY <2>2 DEF ViewTyped
<1>3. CASE /\ view' \in {Keys!NoView, Keys!Replaced(view)} /\ loadingView' \in {Keys!NoView, Keys!Replaced(loadingView)}
  <2>1. ViewTyped(view') /\ ViewTyped(loadingView') /\ view'.fresh = FALSE
    BY <1>0, <1>1, <1>2, <1>3
  <2> QED
    BY <2>1 DEF ViewTyped, Keys!ViewIsFile
<1>4. CASE UNCHANGED <<keys, readable, view, loadingView>>
  BY <1>0, <1>4 DEF ViewTyped, Keys!ViewIsFile, Keys!Records
<1>5. CASE Keys!LoadBegins
  <2>1. loadingView' = [fresh |-> TRUE, keys |-> <<>>] /\ UNCHANGED <<keys, readable, view>>
    BY <1>5 DEF Keys!LoadBegins
  <2>2. ViewTyped(loadingView')
    BY <2>1 DEF ViewTyped
  <2> QED
    BY <1>0, <2>1, <2>2 DEF ViewTyped, Keys!ViewIsFile, Keys!Records
<1>6. CASE Keys!LoadEnds
  <2>1. view' = [fresh |-> loadingView.fresh, keys |-> Keys!Records] /\ loadingView' = Keys!NoView /\ UNCHANGED <<keys, readable>>
    BY <1>6 DEF Keys!LoadEnds
  <2>2. ViewTyped(view') /\ ViewTyped(loadingView') /\ view'.keys = Keys!Records /\ Keys!Records' = Keys!Records
    BY <1>0, <1>1, <2>1 DEF ViewTyped, Keys!Records
  <2> QED
    BY <2>2 DEF ViewTyped, Keys!ViewIsFile
<1>7. ASSUME NEW t \in Keys!Tokens, Keys!GraceEnds(t) PROVE ViewTyped(view)' /\ ViewTyped(loadingView)' /\ Keys!ViewIsFile'
  <2> DEFINE past == [view.keys EXCEPT ![t].expiry = "past"]
             seen == view.keys # <<>> /\ view.keys[t].expiry = "pending"
  <2>1. /\ keys[t].expiry = "pending" /\ keys' = [keys EXCEPT ![t].expiry = "past"] /\ UNCHANGED <<readable, loadingView>>
        /\ view' = IF seen THEN [view EXCEPT !.keys[t].expiry = "past"] ELSE view
    BY <1>7 DEF Keys!GraceEnds
  <2>2. view = [fresh |-> view.fresh, keys |-> view.keys] /\ view.fresh \in BOOLEAN
    BY <1>0 DEF ViewTyped
  <2>3. CASE seen
    <3>1. view' = [fresh |-> view.fresh, keys |-> past]
      <4>1. view' = [view EXCEPT !.keys[t].expiry = "past"]
        BY <2>1, <2>3
      <4>2. ASSUME NEW f, NEW k PROVE [[fresh |-> f, keys |-> k] EXCEPT !.keys[t].expiry = "past"] = [fresh |-> f, keys |-> [k EXCEPT ![t].expiry = "past"]]
        OBVIOUS
      <4> QED
        BY <2>2, <4>1, <4>2
    <3> HIDE DEF past
    <3>2. ViewTyped(view') /\ view'.fresh = view.fresh /\ view'.keys = past
      BY <2>2, <3>1 DEF ViewTyped
    <3>3. ASSUME view.fresh PROVE past = Keys!Records'
      <4>1. view.keys = Keys!Records
        BY <1>0, <3>3 DEF Keys!ViewIsFile
      <4>2. readable
        <5> SUFFICES ASSUME ~readable PROVE FALSE
          BY <1>0
        <5>1. view.keys = [x \in Keys!Tokens |-> Keys!NoRecord]
          BY <4>1 DEF Keys!Records
        <5>2. view.keys[t].expiry = "never"
          BY <5>1, NoRecordFits
        <5> QED
          BY <2>3, <5>2
      <4>3. view.keys = keys /\ Keys!Records' = keys'
        BY <2>1, <4>1, <4>2 DEF Keys!Records
      <4> QED
        BY <2>1, <4>3 DEF past
    <3> QED
      BY <1>0, <2>1, <3>2, <3>3 DEF ViewTyped, Keys!ViewIsFile
  <2>4. CASE ~seen
    <3>1. view' = view
      BY <2>1, <2>4
    <3>2. ASSUME view.fresh PROVE view.keys = Keys!Records'
      <4>1. view.keys = Keys!Records
        BY <1>0, <3>2 DEF Keys!ViewIsFile
      <4>2. ~readable
        <5> SUFFICES ASSUME readable PROVE FALSE
          BY <1>0
        <5>1. view.keys = keys
          BY <4>1 DEF Keys!Records
        <5>2. keys # <<>>
          BY <1>0
        <5> QED
          BY <2>1, <2>4, <5>1, <5>2
      <4>3. Keys!Records' = Keys!Records
        BY <2>1, <4>2 DEF Keys!Records
      <4> QED
        BY <4>1, <4>3
    <3> QED
      BY <1>0, <2>1, <3>1, <3>2 DEF ViewTyped, Keys!ViewIsFile
  <2> QED
    BY <2>3, <2>4
<1>8. CASE \/ Keys!Create \/ Keys!Crash \/ Keys!Damage \/ Keys!Restore \/ Keys!Start \/ (\E t \in Keys!Tokens : Keys!Revoke(t))
           \/ \E r \in Rotators : (\E grace \in BOOLEAN : Keys!RotateBegin(r, grace)) \/ Keys!Cancel(r) \/ Keys!WriteKeyFile(r) \/ Keys!RecordRotation(r)
  <2>1. \/ /\ view' \in {Keys!NoView, Keys!Replaced(view)} /\ loadingView' \in {Keys!NoView, Keys!Replaced(loadingView)}
        \/ UNCHANGED <<keys, readable, view, loadingView>>
    BY <1>8 DEF Keys!Create, Keys!Crash, Keys!Damage, Keys!Restore, Keys!Start, Keys!Revoke, Keys!RotateBegin, Keys!Cancel,
                Keys!WriteKeyFile, Keys!RecordRotation, Keys!Write
  <2> QED
    BY <1>3, <1>4, <2>1
<1> QED
  BY <1>5, <1>6, <1>7, <1>8 DEF Keys!KeyNext

\* What a step must keep besides the cached view.
KeyCore == /\ keyfile \in 1..lastToken /\ api \in 0..lastToken /\ lastToken \in Keys!Tokens /\ readable \in BOOLEAN
           /\ keys \in [Keys!Tokens -> KeyRow] /\ rotation \in [Rotators -> RotationRow] /\ gone \subseteq 1..lastToken
           /\ NotIssued /\ DefaultFit(keyfile) /\ (api # 0 => DefaultFit(api))
           /\ OneRotation /\ (\A r \in Rotators : RotationFit(r)) /\ (\A t \in gone : GoneFit(t)) /\ Followed
LEMMA CoreOfKeys == KeyInv <=> KeyCore /\ ViewTyped(view) /\ ViewTyped(loadingView) /\ Keys!ViewIsFile
BY DEF KeyInv, KeyCore, KeysTyped

\* A change of one record that is neither a default key's nor a new key's.
LEMMA RecordStep ==
  ASSUME KeyCore, NEW t \in Keys!Tokens, NEW k \in KeyRow, keys' = [keys EXCEPT ![t] = k],
         UNCHANGED <<keyfile, api, rotation, incomplete>>, readable' \in BOOLEAN,
         lastToken' \in Keys!Tokens, lastToken <= lastToken', t <= lastToken', t > lastToken \/ keys[t] # Keys!NoRecord,
         byHand \subseteq byHand', gone' \subseteq gone \cup {t},
         t \in gone' => Keys!RetiredByRecord(k),
         t \in {api, keyfile} => k.expiry = "never" /\ (k.status = "active" => k.admin) /\ (k.status = "revoked" => t \in byHand')
  PROVE  KeyCore'
<1>1. /\ keys \in [Keys!Tokens -> KeyRow] /\ keys' \in [Keys!Tokens -> KeyRow] /\ keys'[t] = k
      /\ \A u \in Keys!Tokens : u # t => keys'[u] = keys[u]
  BY DEF KeyCore
<1>2. lastToken \in Nat /\ lastToken' \in Nat /\ t \in Nat /\ 1..lastToken \subseteq Keys!Tokens /\ 1..lastToken \subseteq 1..lastToken'
      /\ 0..lastToken \subseteq 0..lastToken' /\ \A u \in Keys!Tokens : u \in Nat
  BY KeysFit DEF KeyCore, Keys!Tokens
<1>3. NotIssued'
  BY <1>1, <1>2 DEF KeyCore, NotIssued
<1>4. DefaultFit(keyfile)' /\ (api' # 0 => DefaultFit(api)')
  <2>1. keyfile \in Keys!Tokens /\ (api # 0 => api \in Keys!Tokens)
    BY <1>2 DEF KeyCore
  <2>2. DefaultFit(keyfile) /\ (api # 0 => DefaultFit(api))
    BY DEF KeyCore
  <2> QED
    BY <1>1, <2>1, <2>2 DEF DefaultFit
<1>5. ASSUME NEW r \in Rotators PROVE RotationFit(r)'
  <2>1. RotationFit(r) /\ rotation'[r] = rotation[r]
    BY DEF KeyCore
  <2>2. Rotating(r) => rotation[r].new # t
    BY <1>2, <2>1 DEF RotationFit
  <2> QED
    BY <1>1, <1>2, <2>1, <2>2 DEF RotationFit, Rotating
<1>6. OneRotation' /\ Followed'
  BY DEF KeyCore, OneRotation, Followed, Rotating
<1>7. ASSUME NEW u \in gone' PROVE GoneFit(u)'
  <2>1. CASE u = t
    BY <1>1, <1>7, <2>1 DEF GoneFit, Keys!RetiredByRecord, Keys!Expired
  <2>2. CASE u # t
    <3>1. u \in gone /\ u \in Keys!Tokens
      BY <1>2, <1>7, <2>2 DEF KeyCore
    <3>2. GoneFit(u) /\ keys'[u] = keys[u]
      BY <1>1, <2>2, <3>1 DEF KeyCore
    <3> QED
      BY <3>2 DEF GoneFit, Rotating, Keys!RetiredByRecord, Keys!Expired
  <2> QED
    BY <2>1, <2>2
<1>8. gone' \subseteq 1..lastToken'
  BY <1>2 DEF KeyCore, Keys!Tokens
<1> QED
  BY <1>1, <1>2, <1>3, <1>4, <1>5, <1>6, <1>7, <1>8 DEF KeyCore

\* Create, revoke and the end of a grace period.
LEMMA RecordSteps ==
  ASSUME KeyCore, Keys!Create \/ \E t \in Keys!Tokens : Keys!Revoke(t) \/ Keys!GraceEnds(t)
  PROVE  KeyCore'
<1>0. /\ keys \in [Keys!Tokens -> KeyRow] /\ lastToken \in Keys!Tokens /\ lastToken \in Nat /\ gone \subseteq 1..lastToken
      /\ readable \in BOOLEAN /\ NotIssued /\ DefaultFit(keyfile) /\ (api # 0 => DefaultFit(api)) /\ \A t \in Keys!Tokens : t \in Nat /\ t # 0
  BY KeysFit DEF KeyCore, Keys!Tokens
<1>1. CASE Keys!Create
  <2>1. PICK expiry \in {"never", "pending"}, admin \in BOOLEAN :
          /\ readable /\ lastToken < MaxToken /\ lastToken' = lastToken + 1
          /\ keys' = [Keys!Base EXCEPT ![lastToken'] = Keys!Active(expiry, admin)] /\ readable' = TRUE
          /\ UNCHANGED <<keyfile, api, rotation, gone, byHand, incomplete>>
    BY <1>1 DEF Keys!Create, Keys!Write, Keys!Usable
  <2> DEFINE k == Keys!Active(expiry, admin)
             t == lastToken + 1
  <2>2. Keys!Base = keys
    BY <2>1 DEF Keys!Base
  <2>3. k \in KeyRow
    BY DEF Keys!Active, KeyRow
  <2>4. t \in Keys!Tokens /\ lastToken' = t /\ t > lastToken /\ t \notin gone /\ t \notin {api, keyfile}
    BY <1>0, <2>1, KeysFit DEF Keys!Tokens, KeyCore
  <2>5. keys' = [keys EXCEPT ![t] = k]
    BY <2>1, <2>2, <2>4
  <2> HIDE DEF t, k
  <2>6. byHand \subseteq byHand' /\ gone' \subseteq gone \cup {t} /\ t \notin gone' /\ readable' \in BOOLEAN
    BY <2>1, <2>4
  <2>7. lastToken' \in Keys!Tokens /\ lastToken <= lastToken' /\ t <= lastToken'
    BY <1>0, <2>4
  <2> QED
    BY <2>1, <2>3, <2>4, <2>5, <2>6, <2>7, RecordStep
<1>2. ASSUME NEW t \in Keys!Tokens, Keys!Revoke(t) PROVE KeyCore'
  <2> DEFINE k == [keys[t] EXCEPT !.status = "revoked"]
  <2>1. /\ readable /\ keys[t].status = "active" /\ keys' = [keys EXCEPT ![t] = k] /\ readable' = TRUE
        /\ gone' = gone \cup {t} /\ byHand' = byHand \cup {t} /\ UNCHANGED <<keyfile, api, rotation, lastToken, incomplete>>
    BY <1>2 DEF Keys!Revoke, Keys!Usable, Keys!Base, Keys!Revoked, Keys!Write
  <2>2. k \in KeyRow /\ k.status = "revoked" /\ k.expiry = keys[t].expiry
    BY <1>0 DEF KeyRow
  <2>3. t <= lastToken /\ keys[t] # Keys!NoRecord
    BY <1>0, <2>1, NoRecordFits DEF NotIssued
  <2>4. t \in {api, keyfile} => keys[t].expiry = "never"
    BY <1>0 DEF DefaultFit
  <2>5. Keys!RetiredByRecord(k)
    BY <2>2 DEF Keys!RetiredByRecord
  <2> HIDE DEF k
  <2>6. byHand \subseteq byHand' /\ gone' \subseteq gone \cup {t} /\ readable' \in BOOLEAN
    BY <1>0, <2>1
  <2>7. lastToken' \in Keys!Tokens /\ lastToken <= lastToken' /\ t <= lastToken'
    BY <1>0, <2>1, <2>3
  <2>8. t \in {api, keyfile} => k.expiry = "never" /\ (k.status = "active" => k.admin) /\ (k.status = "revoked" => t \in byHand')
    BY <2>1, <2>2, <2>4
  <2> QED
    BY <2>1, <2>2, <2>3, <2>5, <2>6, <2>7, <2>8, RecordStep
<1>3. ASSUME NEW t \in Keys!Tokens, Keys!GraceEnds(t) PROVE KeyCore'
  <2> DEFINE k == [keys[t] EXCEPT !.expiry = "past"]
  <2>1. /\ keys[t].expiry = "pending" /\ keys' = [keys EXCEPT ![t] = k] /\ readable' = readable
        /\ gone' = gone \cup {t} /\ UNCHANGED <<keyfile, api, rotation, lastToken, byHand, incomplete>>
    BY <1>3 DEF Keys!GraceEnds
  <2>2. k \in KeyRow /\ k.expiry = "past"
    BY <1>0 DEF KeyRow
  <2>3. t <= lastToken /\ keys[t] # Keys!NoRecord
    BY <1>0, <2>1, NoRecordFits DEF NotIssued
  <2>4. t \notin {api, keyfile}
    BY <1>0, <2>1 DEF DefaultFit
  <2>5. Keys!RetiredByRecord(k)
    BY <2>2 DEF Keys!RetiredByRecord, Keys!Expired
  <2> HIDE DEF k
  <2>6. byHand \subseteq byHand' /\ gone' \subseteq gone \cup {t} /\ readable' \in BOOLEAN
    BY <1>0, <2>1
  <2>7. lastToken' \in Keys!Tokens /\ lastToken <= lastToken' /\ t <= lastToken'
    BY <1>0, <2>1, <2>3
  <2>8. t \in {api, keyfile} => k.expiry = "never" /\ (k.status = "active" => k.admin) /\ (k.status = "revoked" => t \in byHand')
    BY <2>1, <2>2, <2>4
  <2> QED
    BY <2>1, <2>2, <2>3, <2>5, <2>6, <2>7, <2>8, RecordStep
<1> QED
  BY <1>1, <1>2, <1>3

\* A rotation begins with a token that nobody has seen, its caller gives up, and its key reaches .search.env.
LEMMA RotationSteps ==
  ASSUME KeyCore, NEW r \in Rotators,
         (\E grace \in BOOLEAN : Keys!RotateBegin(r, grace)) \/ Keys!Cancel(r) \/ Keys!WriteKeyFile(r)
  PROVE  KeyCore'
<1>0. /\ keys \in [Keys!Tokens -> KeyRow] /\ lastToken \in Keys!Tokens /\ lastToken \in Nat /\ gone \subseteq 1..lastToken
      /\ rotation \in [Rotators -> RotationRow] /\ rotation[r] \in RotationRow /\ api \in 0..lastToken /\ keyfile \in 1..lastToken
      /\ readable \in BOOLEAN /\ NotIssued /\ DefaultFit(keyfile) /\ (api # 0 => DefaultFit(api)) /\ RotationFit(r)
      /\ lastToken <= MaxToken /\ OneRotation /\ Followed
  BY KeysFit DEF KeyCore, Keys!Tokens
<1>1. ASSUME NEW grace \in BOOLEAN, Keys!RotateBegin(r, grace) PROVE KeyCore'
  <2> DEFINE n == lastToken + 1
             j == [at |-> "commit", old |-> api, new |-> n, grace |-> grace, cancelled |-> FALSE]
  <2>1. /\ api # 0 /\ (\A q \in Rotators : ~Rotating(q)) /\ lastToken < MaxToken /\ lastToken' = n
        /\ rotation' = [rotation EXCEPT ![r] = j] /\ UNCHANGED <<keyfile, keys, readable, api, gone, byHand, incomplete>>
    BY <1>1 DEF Keys!RotateBegin, Keys!Up, Keys!LockFree, Rotating
  <2>2. n \in Keys!Tokens /\ n > lastToken /\ n \in 1..n /\ 1..lastToken \subseteq 1..n /\ 0..lastToken \subseteq 0..n
        /\ n \notin gone /\ n # api /\ n # keyfile /\ n \in 0..MaxToken /\ api \in 0..MaxToken
    BY <1>0, <2>1, KeysFit DEF Keys!Tokens
  <2>3. j \in RotationRow
    BY <2>2 DEF RotationRow
  <2>4. /\ rotation' \in [Rotators -> RotationRow] /\ rotation'[r] = j /\ \A q \in Rotators : q # r => rotation'[q] = rotation[q]
    BY <1>0, <2>1, <2>3
  <2>5. j.at = "commit" /\ j.old = api /\ j.new = n
    OBVIOUS
  <2>6. keys[n] = Keys!NoRecord
    BY <1>0, <2>2 DEF NotIssued
  <2> HIDE DEF j, n
  <2>7. \A q \in Rotators : Rotating(q)' <=> q = r
    BY <2>1, <2>4, <2>5 DEF Rotating
  <2>8. OneRotation' /\ Followed'
    BY <2>7 DEF OneRotation, Followed
  <2>9. \A q \in Rotators : RotationFit(q)'
    BY <1>0, <2>1, <2>2, <2>4, <2>5, <2>6, <2>7 DEF RotationFit, Followed
  <2>10. ASSUME NEW t \in gone' PROVE GoneFit(t)'
    <3>1. t \in gone /\ GoneFit(t) /\ t # n
      BY <2>1, <2>2, <2>10 DEF KeyCore
    <3> QED
      BY <2>1, <2>4, <2>5, <2>7, <3>1 DEF GoneFit
  <2>11. NotIssued' /\ DefaultFit(keyfile)' /\ (api' # 0 => DefaultFit(api)')
    <3>1. \A t \in Keys!Tokens : t > n => t > lastToken
      BY <1>0, <2>2 DEF Keys!Tokens, n
    <3> QED
      BY <1>0, <2>1, <3>1 DEF NotIssued, DefaultFit
  <2> QED
    BY <1>0, <2>1, <2>2, <2>4, <2>8, <2>9, <2>10, <2>11 DEF KeyCore
<1>m. ASSUME NEW j \in RotationRow, rotation' = [rotation EXCEPT ![r] = j], Rotating(r), j.at # "idle" => j.new = rotation[r].new /\ j.old = rotation[r].old,
             UNCHANGED <<keys, readable, api, lastToken, gone, byHand, incomplete>>, keyfile' \in {keyfile, rotation[r].new},
             keyfile' = rotation[r].new <=> (rotation[r].at = "written" \/ j.at = "written"), j.at # "commit" \/ rotation[r].at = "commit",
             rotation[r].at = "written" => j.at = "written"
      PROVE  KeyCore'
  <2>1. /\ rotation' \in [Rotators -> RotationRow] /\ rotation'[r] = j /\ \A q \in Rotators : q # r => rotation'[q] = rotation[q]
    BY <1>0, <1>m
  <2>2. /\ api # 0 /\ rotation[r].old = api /\ rotation[r].new \in 1..lastToken /\ rotation[r].new # api
        /\ keys[rotation[r].new] = Keys!NoRecord /\ rotation[r].new \notin gone
        /\ (rotation[r].at = "written" => keyfile = rotation[r].new)
        /\ (rotation[r].at # "written" => rotation[r].new # keyfile /\ (keyfile = api \/ incomplete))
    BY <1>0, <1>m DEF RotationFit
  <2>3. \A q \in Rotators : q # r => ~Rotating(q) /\ ~Rotating(q)'
    BY <1>0, <1>m, <2>1 DEF OneRotation, Rotating
  <2>4. j.at \in {"idle", "commit", "written"} /\ rotation[r].at \in {"commit", "written"}
    BY <1>0, <1>m DEF RotationRow, Rotating
  <2>5. \A q \in Rotators : RotationFit(q)'
    BY <1>m, <2>1, <2>2, <2>3, <2>4 DEF RotationFit, Rotating
  <2>6. OneRotation' /\ Followed'
    BY <1>m, <2>1, <2>2, <2>3, <2>4 DEF OneRotation, Followed, Rotating
  <2>7. DefaultFit(keyfile)' /\ (api' # 0 => DefaultFit(api)') /\ NotIssued'
    BY <1>0, <1>m, <2>2, NoRecordFits DEF DefaultFit, NotIssued
  <2>8. ASSUME NEW t \in gone' PROVE GoneFit(t)'
    <3>1. t \in gone /\ GoneFit(t) /\ t # rotation[r].new
      BY <1>m, <2>2, <2>8 DEF KeyCore
    <3> QED
      BY <1>m, <2>1, <2>3, <3>1 DEF GoneFit, Rotating
  <2> QED
    BY <1>0, <1>m, <2>1, <2>2, <2>5, <2>6, <2>7, <2>8 DEF KeyCore
<1>2. CASE Keys!Cancel(r)
  <2> DEFINE j == [rotation[r] EXCEPT !.cancelled = TRUE]
  <2>1. /\ rotation[r].at \in {"commit", "written"} /\ rotation' = [rotation EXCEPT ![r] = j]
        /\ UNCHANGED <<keyfile, keys, readable, api, lastToken, gone, byHand, incomplete>>
    BY <1>2 DEF Keys!Cancel
  <2>2. j \in RotationRow /\ j.at = rotation[r].at /\ j.new = rotation[r].new /\ j.old = rotation[r].old
    BY <1>0 DEF RotationRow
  <2> HIDE DEF j
  <2>3. keyfile' = rotation[r].new <=> rotation[r].at = "written"
    BY <1>0, <2>1 DEF RotationFit, Rotating
  <2> QED
    BY <1>m, <2>1, <2>2, <2>3 DEF Rotating
<1>3. CASE Keys!WriteKeyFile(r)
  <2>0. rotation[r].at = "commit" /\ UNCHANGED <<keys, readable, api, lastToken, gone, byHand, incomplete>> /\ Rotating(r)
        /\ rotation[r].new # keyfile
    BY <1>0, <1>3 DEF Keys!WriteKeyFile, Rotating, RotationFit
  <2>1. CASE keyfile' = rotation[r].new /\ rotation' = [rotation EXCEPT ![r].at = "written"]
    <3> DEFINE j == [rotation[r] EXCEPT !.at = "written"]
    <3>1. rotation' = [rotation EXCEPT ![r] = j]
      BY <2>1
    <3>2. j \in RotationRow /\ j.at = "written" /\ j.new = rotation[r].new /\ j.old = rotation[r].old
      BY <1>0 DEF RotationRow
    <3> HIDE DEF j
    <3> QED
      BY <1>m, <2>0, <2>1, <3>1, <3>2
  <2>2. CASE keyfile' = keyfile /\ rotation' = [rotation EXCEPT ![r] = Keys!NoRotation]
    <3> DEFINE j == Keys!NoRotation
    <3>1. j \in RotationRow /\ j.at = "idle"
      BY KeysFit DEF Keys!NoRotation, RotationRow
    <3>2. rotation' = [rotation EXCEPT ![r] = j]
      BY <2>2
    <3> HIDE DEF j
    <3> QED
      BY <1>m, <2>0, <2>2, <3>1, <3>2
  <2> QED
    BY <1>3, <2>1, <2>2 DEF Keys!WriteKeyFile
<1> QED
  BY <1>1, <1>2, <1>3

\* Any rotation is over: a crash, a failed record; a start; and what only concerns the cached view.
LEMMA QuietSteps ==
  ASSUME KeyCore, UNCHANGED <<keyfile, keys, lastToken, gone, byHand>>, readable' \in BOOLEAN,
         incomplete => incomplete',
         \/ /\ UNCHANGED <<api, rotation>>
         \/ /\ rotation' \in [Rotators -> RotationRow] /\ (\A r \in Rotators : ~Rotating(r)')
            /\ \/ api' = 0 \/ (api' = api /\ incomplete') \/ (api' = keyfile)
  PROVE  KeyCore'
<1>1. /\ keyfile' = keyfile /\ keys' = keys /\ lastToken' = lastToken /\ gone' = gone /\ byHand' = byHand
      /\ NotIssued' /\ DefaultFit(keyfile)' /\ api \in 0..lastToken /\ keyfile \in 1..lastToken /\ lastToken \in Nat
  BY KeysFit DEF KeyCore, NotIssued, DefaultFit, Keys!Tokens
<1>2. CASE UNCHANGED <<api, rotation>>
  <2>1. (api' # 0 => DefaultFit(api)') /\ OneRotation' /\ Followed'
    BY <1>1, <1>2 DEF KeyCore, DefaultFit, OneRotation, Followed, Rotating
  <2>2. \A r \in Rotators : RotationFit(r)'
    BY <1>1, <1>2 DEF KeyCore, RotationFit, Rotating
  <2>3. \A t \in gone' : GoneFit(t)'
    BY <1>1, <1>2 DEF KeyCore, GoneFit, Rotating, Keys!RetiredByRecord, Keys!Expired
  <2> QED
    BY <1>1, <1>2, <2>1, <2>2, <2>3 DEF KeyCore
<1>3. CASE /\ rotation' \in [Rotators -> RotationRow] /\ (\A r \in Rotators : ~Rotating(r)')
           /\ \/ api' = 0 \/ (api' = api /\ incomplete') \/ (api' = keyfile)
  <2>1. (api' # 0 => DefaultFit(api)') /\ api' \in 0..lastToken /\ OneRotation' /\ Followed'
    BY <1>1, <1>3 DEF KeyCore, DefaultFit, OneRotation, Followed
  <2>2. \A r \in Rotators : RotationFit(r)'
    BY <1>3 DEF RotationFit
  <2>3. ASSUME NEW t \in gone' PROVE GoneFit(t)'
    <3>1. GoneFit(t) /\ t # 0
      BY <1>1, <2>3 DEF KeyCore
    <3> QED
      BY <1>1, <1>3, <3>1 DEF GoneFit, Keys!RetiredByRecord, Keys!Expired
  <2> QED
    BY <1>1, <1>3, <2>1, <2>2, <2>3 DEF KeyCore
<1> QED
  BY <1>2, <1>3

\* record_rotation and the new default key.
LEMMA RecordRotationStep ==
  ASSUME KeyCore, NEW r \in Rotators, Keys!RecordRotation(r)
  PROVE  KeyCore'
<1> DEFINE j == rotation[r]
<1>n. Keys!NoRotation \in RotationRow /\ Keys!NoRotation.at = "idle"
  BY KeysFit DEF Keys!NoRotation, RotationRow
<1>0. /\ keys \in [Keys!Tokens -> KeyRow] /\ lastToken \in Keys!Tokens /\ lastToken \in Nat /\ gone \subseteq 1..lastToken
      /\ rotation \in [Rotators -> RotationRow] /\ j \in RotationRow /\ keyfile \in 1..lastToken
      /\ NotIssued /\ RotationFit(r) /\ OneRotation /\ Rotating(r) /\ j.at = "written" /\ j.grace \in BOOLEAN
      /\ rotation' = [rotation EXCEPT ![r] = Keys!NoRotation] /\ UNCHANGED <<keyfile, lastToken, byHand>>
      /\ readable \in BOOLEAN
  BY KeysFit DEF KeyCore, Keys!Tokens, Keys!RecordRotation, Rotating, RotationRow
<1>1. /\ api # 0 /\ j.old = api /\ j.new \in 1..lastToken /\ j.new # api /\ keys[j.new] = Keys!NoRecord /\ j.new \notin gone /\ keyfile = j.new
      /\ api \in 1..lastToken /\ DefaultFit(api) /\ api \in Keys!Tokens /\ j.new \in Keys!Tokens /\ 1..lastToken \subseteq Keys!Tokens
  BY <1>0, KeysFit DEF RotationFit, KeyCore, Keys!Tokens
<1>2. /\ rotation' \in [Rotators -> RotationRow] /\ \A q \in Rotators : ~Rotating(q)'
  <2>1. rotation' \in [Rotators -> RotationRow] /\ rotation'[r] = Keys!NoRotation /\ \A q \in Rotators : q # r => rotation'[q] = rotation[q]
    BY <1>0, <1>n
  <2> QED
    BY <1>0, <1>n, <2>1 DEF Rotating, OneRotation
<1>3. CASE incomplete' = TRUE /\ UNCHANGED <<keys, readable, api, gone>>
  BY <1>0, <1>2, <1>3, QuietSteps
<1>4. CASE /\ readable /\ Keys!Write([Keys!Base EXCEPT ![j.old] = Keys!Retired(@, j.grace), ![j.new] = Keys!Active("never", TRUE)])
           /\ api' = j.new
           /\ gone' = gone \cup (IF j.grace THEN {} ELSE {j.old}) \cup (IF api = j.old THEN {} ELSE {api})
           /\ UNCHANGED incomplete
  <2> DEFINE old == Keys!Retired(keys[api], j.grace)
             new == Keys!Active("never", TRUE)
  <2>1. keys' = [[keys EXCEPT ![api] = old] EXCEPT ![j.new] = new] /\ readable' = TRUE
    BY <1>1, <1>4 DEF Keys!Write, Keys!Base
  <2>2. new \in KeyRow /\ new.expiry = "never" /\ new.status = "active" /\ new.admin
    BY DEF Keys!Active, KeyRow
  <2>3. /\ old \in KeyRow
        /\ keys[api].status = "active" /\ ~j.grace => old.status = "revoked"
        /\ keys[api].status = "revoked" => old = keys[api]
        /\ keys[api].status = "none" /\ ~j.grace => old = keys[api]
    <3>1. keys[api] \in KeyRow
      BY <1>0, <1>1
    <3>2. ASSUME NEW k \in KeyRow, NEW g \in BOOLEAN PROVE
            /\ Keys!Retired(k, g) \in KeyRow
            /\ k.status = "active" /\ ~g => Keys!Retired(k, g).status = "revoked"
            /\ k.status = "revoked" => Keys!Retired(k, g) = k
            /\ k.status = "none" /\ ~g => Keys!Retired(k, g) = k
      <4>1. CASE k.status = "active" /\ ~g
        BY <4>1 DEF Keys!Retired, Keys!Unseen, KeyRow
      <4>2. CASE k.status = "active" /\ g
        BY <4>2 DEF Keys!Retired, Keys!Unseen, KeyRow
      <4>3. CASE k.status = "none" /\ g
        BY <4>3 DEF Keys!Retired, Keys!Unseen, KeyRow, Keys!Active
      <4>4. CASE k.status # "active" /\ ~(k.status = "none" /\ g)
        BY <4>4 DEF Keys!Retired, Keys!Unseen
      <4> QED
        BY <4>1, <4>2, <4>3, <4>4
    <3> QED
      BY <1>0, <3>1, <3>2
  <2> HIDE DEF old, new
  <2>4. /\ keys' \in [Keys!Tokens -> KeyRow] /\ keys'[j.new] = new /\ keys'[api] = old
        /\ \A t \in Keys!Tokens : t # api /\ t # j.new => keys'[t] = keys[t]
    BY <1>0, <1>1, <2>1, <2>2, <2>3
  <2>5. gone' = gone \cup (IF j.grace THEN {} ELSE {api})
    BY <1>1, <1>4
  <2>6. NotIssued'
    BY <1>0, <1>1, <2>4 DEF NotIssued
  <2>7. DefaultFit(keyfile)' /\ (api' # 0 => DefaultFit(api)')
    BY <1>0, <1>1, <1>4, <2>2, <2>4 DEF DefaultFit
  <2>8. OneRotation' /\ Followed' /\ \A q \in Rotators : RotationFit(q)'
    BY <1>0, <1>1, <1>2, <1>4 DEF OneRotation, Followed, RotationFit
  <2>9. ASSUME NEW t \in gone' PROVE GoneFit(t)'
    <3>1. CASE t = api
      <4>1. keys[api].status \in {"none", "active", "revoked"} /\ keys[api].expiry = "never"
        BY <1>0, <1>1 DEF KeyRow, DefaultFit
      <4>2. CASE keys[api].status = "revoked"
        BY <2>3, <2>4, <3>1, <4>2 DEF GoneFit, Keys!RetiredByRecord
      <4>3. CASE keys[api].status # "revoked"
        <5>1. ~j.grace
          <6> SUFFICES ASSUME j.grace PROVE FALSE
            BY <1>0
          <6>1. t \in gone
            BY <2>5, <2>9
          <6>2. GoneFit(api)
            BY <3>1, <6>1 DEF KeyCore
          <6> QED
            BY <4>1, <4>3, <6>2 DEF GoneFit, Keys!RetiredByRecord, Keys!Expired
        <5>2. CASE keys[api].status = "active"
          BY <2>3, <2>4, <3>1, <5>1, <5>2 DEF GoneFit, Keys!RetiredByRecord
        <5>3. CASE keys[api].status = "none"
          <6>1. keys'[api] = keys[api]
            BY <2>3, <2>4, <5>1, <5>3
          <6> QED
            BY <1>0, <1>1, <1>2, <1>4, <3>1, <5>3, <6>1 DEF GoneFit
        <5> QED
          BY <4>1, <4>3, <5>2, <5>3
      <4> QED
        BY <4>2, <4>3
    <3>2. CASE t # api
      <4>1. t \in gone /\ GoneFit(t) /\ t # j.new /\ t \in Keys!Tokens
        BY <1>0, <1>1, <2>5, <2>9, <3>2 DEF KeyCore
      <4>2. keys'[t] = keys[t]
        BY <2>4, <3>2, <4>1
      <4> QED
        BY <1>0, <1>2, <1>4, <4>1, <4>2 DEF GoneFit, Keys!RetiredByRecord, Keys!Expired
    <3> QED
      BY <3>1, <3>2
  <2>10. gone' \subseteq 1..lastToken' /\ api' \in 0..lastToken' /\ keyfile' \in 1..lastToken' /\ lastToken' \in Keys!Tokens /\ readable' \in BOOLEAN
    BY <1>0, <1>1, <1>4, <2>1, <2>5
  <2> QED
    BY <1>2, <2>4, <2>6, <2>7, <2>8, <2>9, <2>10 DEF KeyCore
<1> QED
  BY <1>3, <1>4 DEF Keys!RecordRotation, Keys!Usable

LEMMA KeyStep == KeyInv /\ Keys!KeyNext => KeyInv'
<1> SUFFICES ASSUME KeyInv, Keys!KeyNext PROVE KeyInv'
  OBVIOUS
<1>1. KeyCore /\ ViewTyped(view)' /\ ViewTyped(loadingView)' /\ Keys!ViewIsFile'
  BY ViewStep, CoreOfKeys
<1> SUFFICES KeyCore'
  BY <1>1 DEF KeyInv, KeyCore, KeysTyped
<1>2. CASE Keys!Create \/ \E t \in Keys!Tokens : Keys!Revoke(t) \/ Keys!GraceEnds(t)
  BY <1>1, <1>2, RecordSteps
<1>3. CASE \E r \in Rotators : (\E grace \in BOOLEAN : Keys!RotateBegin(r, grace)) \/ Keys!Cancel(r) \/ Keys!WriteKeyFile(r)
  BY <1>1, <1>3, RotationSteps
<1>4. CASE \E r \in Rotators : Keys!RecordRotation(r)
  BY <1>1, <1>4, RecordRotationStep
<1>5. CASE Keys!LoadBegins \/ Keys!LoadEnds \/ Keys!Damage \/ Keys!Restore
  <2>1. UNCHANGED <<keyfile, keys, lastToken, gone, byHand, incomplete, api, rotation>> /\ (readable' = readable \/ readable' \in {TRUE, FALSE})
    BY <1>5 DEF Keys!LoadBegins, Keys!LoadEnds, Keys!Damage, Keys!Restore
  <2>2. readable' \in BOOLEAN
    BY <1>1, <2>1 DEF KeyCore
  <2> QED
    BY <1>1, <2>1, <2>2, QuietSteps
<1>6. CASE Keys!Crash
  <2>1. /\ UNCHANGED <<keyfile, keys, readable, lastToken, gone, byHand>> /\ api' = 0 /\ (incomplete => incomplete')
        /\ rotation' = [r \in Rotators |-> Keys!NoRotation]
    BY <1>6 DEF Keys!Crash
  <2>2. Keys!NoRotation \in RotationRow /\ Keys!NoRotation.at = "idle"
    BY KeysFit DEF Keys!NoRotation, RotationRow
  <2>3. rotation' \in [Rotators -> RotationRow] /\ (\A r \in Rotators : ~Rotating(r)')
    BY <2>1, <2>2 DEF Rotating
  <2>4. readable' \in BOOLEAN
    BY <1>1, <2>1 DEF KeyCore
  <2> QED
    BY <1>1, <2>1, <2>3, <2>4, QuietSteps
<1>7. CASE Keys!Start
  <2>1. /\ UNCHANGED <<keyfile, keys, readable, lastToken, gone, byHand, incomplete, rotation>> /\ api = 0 /\ api' = keyfile
    BY <1>7 DEF Keys!Start, Keys!Up
  <2>2. rotation' \in [Rotators -> RotationRow] /\ (\A r \in Rotators : ~Rotating(r)') /\ readable' \in BOOLEAN
    BY <1>1, <2>1 DEF KeyCore, RotationFit, Rotating
  <2> QED
    BY <1>1, <2>1, <2>2, QuietSteps
<1> QED
  BY <1>2, <1>3, <1>4, <1>5, <1>6, <1>7 DEF Keys!KeyNext

LEMMA KeysStill == KeyInv /\ UNCHANGED keyVars => KeyInv'
<1> SUFFICES ASSUME KeyInv, UNCHANGED keyVars PROVE KeyInv'
  OBVIOUS
<1>1. UNCHANGED <<keyfile, keys, readable, api, view, loadingView, rotation, lastToken, gone, byHand, incomplete>>
  BY DEF keyVars
<1>2. KeyCore /\ ViewTyped(view) /\ ViewTyped(loadingView) /\ Keys!ViewIsFile
  BY CoreOfKeys
<1>3. ViewTyped(view)' /\ ViewTyped(loadingView)' /\ Keys!ViewIsFile'
  BY <1>1, <1>2 DEF ViewTyped, Keys!ViewIsFile, Keys!Records
<1>4. KeyCore'
  BY <1>1, <1>2, QuietSteps DEF KeyCore
<1> QED
  BY <1>3, <1>4 DEF KeyInv, KeyCore, KeysTyped

LEMMA KeysGood ==
  ASSUME KeyInv
  PROVE  Keys!KeyTypeOK /\ Keys!RetiredStaysOut /\ Keys!NoLockOut /\ Keys!KeyFileFollowed /\ Keys!ViewIsFile
<1>1. /\ keys \in [Keys!Tokens -> KeyRow] /\ lastToken \in Keys!Tokens /\ keyfile \in 1..lastToken /\ api \in 0..lastToken
      /\ readable \in BOOLEAN /\ rotation \in [Rotators -> RotationRow] /\ gone \subseteq 1..lastToken
  BY DEF KeyInv, KeysTyped
<1>2. lastToken \in 1..MaxToken /\ 1..lastToken \subseteq Keys!Tokens /\ 0..lastToken \subseteq 0..MaxToken
  BY <1>1, KeysFit DEF Keys!Tokens
<1>3. Keys!KeyTypeOK
  BY <1>1, <1>2 DEF Keys!KeyTypeOK, KeyRow, RotationRow
<1>4. Keys!RetiredStaysOut
  <2> SUFFICES ASSUME readable, NEW t \in gone PROVE ~Keys!Accepts(t)
    BY DEF Keys!RetiredStaysOut
  <2>1. GoneFit(t) /\ Keys!Records = keys
    BY DEF KeyInv, Keys!Records
  <2> QED
    BY <2>1 DEF GoneFit, Keys!Accepts, Keys!Live, Keys!RetiredByRecord, Keys!Expired
<1>5. Keys!NoLockOut
  <2> SUFFICES ASSUME api # 0, api \notin byHand PROVE Keys!AcceptsAdmin(api)
    BY DEF Keys!NoLockOut, Keys!Up
  <2>1. DefaultFit(api) /\ api \in Keys!Tokens
    BY <1>1, <1>2 DEF KeyInv
  <2>2. CASE readable
    <3>1. Keys!Records = keys
      BY <2>2 DEF Keys!Records
    <3> QED
      BY <2>1, <3>1 DEF Keys!AcceptsAdmin, Keys!Accepts, Keys!Up, Keys!Live, Keys!RetiredByRecord, Keys!Expired, DefaultFit
  <2>3. CASE ~readable
    <3>1. Keys!Records[api] = Keys!NoRecord
      BY <2>1, <2>3 DEF Keys!Records
    <3> QED
      BY <3>1, NoRecordFits DEF Keys!AcceptsAdmin, Keys!Accepts, Keys!Up, Keys!Live, Keys!RetiredByRecord, Keys!Expired
  <2> QED
    BY <1>1, <2>2, <2>3
<1>6. Keys!KeyFileFollowed
  BY DEF KeyInv, Followed, Rotating, Keys!KeyFileFollowed, Keys!Up, Keys!LockFree
<1> QED
  BY <1>3, <1>4, <1>5, <1>6 DEF KeyInv

\* No change loses a record: the file is read again under the lock and written whole.
LEMMA RecordsStay ==
  ASSUME KeyInv, [Keys!KeyNext]_keyVars
  PROVE  \A t \in Keys!Tokens : keys[t].status # "none" => keys'[t].status # "none"
<1> SUFFICES ASSUME NEW t \in Keys!Tokens, keys[t].status # "none" PROVE keys'[t].status # "none"
  OBVIOUS
<1>0. /\ keys \in [Keys!Tokens -> KeyRow] /\ lastToken \in Keys!Tokens /\ \A u \in Keys!Tokens : keys[u] \in KeyRow
      /\ NotIssued /\ \A r \in Rotators : RotationFit(r)
  BY DEF KeyInv, KeysTyped
<1>1. CASE keys' = keys
  BY <1>1
<1>2. CASE Keys!Create
  <2>1. PICK expiry \in {"never", "pending"}, admin \in BOOLEAN : keys' = [keys EXCEPT ![lastToken'] = Keys!Active(expiry, admin)]
    BY <1>2 DEF Keys!Create, Keys!Write, Keys!Usable, Keys!Base
  <2>2. Keys!Active(expiry, admin).status = "active"
    BY DEF Keys!Active
  <2> QED
    BY <1>0, <2>1, <2>2
<1>3. ASSUME NEW u \in Keys!Tokens, Keys!Revoke(u) \/ Keys!GraceEnds(u) PROVE keys'[t].status # "none"
  <2>1. keys' = [keys EXCEPT ![u].status = "revoked"] \/ keys' = [keys EXCEPT ![u].expiry = "past"]
    BY <1>3 DEF Keys!Revoke, Keys!GraceEnds, Keys!Usable, Keys!Base, Keys!Revoked, Keys!Write
  <2> QED
    BY <1>0, <2>1 DEF KeyRow
<1>4. ASSUME NEW r \in Rotators, Keys!RecordRotation(r) PROVE keys'[t].status # "none"
  <2> DEFINE j == rotation[r]
  <2>1. CASE keys' = keys
    BY <2>1
  <2>2. CASE keys' = [keys EXCEPT ![j.old] = Keys!Retired(@, j.grace), ![j.new] = Keys!Active("never", TRUE)]
    <3>1. keys[t].status # "none" => Keys!Retired(keys[t], j.grace).status # "none"
      <4>1. keys[t] \in KeyRow
        BY <1>0
      <4>2. ASSUME NEW k \in KeyRow, NEW g, k.status # "none" PROVE Keys!Retired(k, g).status # "none"
        <5>1. CASE k.status = "active" /\ ~g
          BY <5>1 DEF Keys!Retired, Keys!Unseen, KeyRow
        <5>2. CASE k.status = "active" /\ g
          BY <5>2 DEF Keys!Retired, Keys!Unseen, KeyRow
        <5>3. CASE k.status # "active"
          BY <4>2, <5>3 DEF Keys!Retired, Keys!Unseen
        <5> QED
          BY <5>1, <5>2, <5>3
      <4> QED
        BY <4>1, <4>2
    <3>2. Keys!Active("never", TRUE).status = "active"
      BY DEF Keys!Active
    <3>3. keys'[t] \in {Keys!Active("never", TRUE), Keys!Retired(keys[t], j.grace), keys[t]}
      BY <1>0, <2>2
    <3> QED
      BY <3>1, <3>2, <3>3
  <2> QED
    BY <1>4, <2>1, <2>2 DEF Keys!RecordRotation, Keys!Write, Keys!Base, Keys!Usable
<1>5. \/ keys' = keys \/ Keys!Create \/ (\E u \in Keys!Tokens : Keys!Revoke(u) \/ Keys!GraceEnds(u)) \/ (\E r \in Rotators : Keys!RecordRotation(r))
  BY DEF Keys!KeyNext, keyVars, Keys!LoadBegins, Keys!LoadEnds, Keys!Crash, Keys!Start, Keys!Damage, Keys!Restore, Keys!RotateBegin, Keys!Cancel,
         Keys!WriteKeyFile
<1> QED
  BY <1>1, <1>2, <1>3, <1>4, <1>5

\* KeysHold, for any number of tokens, rotations, mishaps and processes: a retired token opens nothing again
\* (RetiredStaysOut), the server's own key opens it (NoLockOut), .search.env runs ahead only in a rotation or after one
\* that ended half way (KeyFileFollowed), a view under the file's signature is the file (ViewIsFile), no change loses a
\* record (RecordsKept), and processes that start together in a new data directory agree on its key (AgreeOnKey).
THEOREM KeysAreHeld == RequestsSpec => KeysHold
<1>1. RequestsInit => KeyInv /\ FileInv
  BY KeysStart, FileStarts, Zenon DEF RequestsInit
<1>2. [RequestsNext]_allVars => [Keys!KeyNext]_keyVars /\ [FirstKey!FileNext]_fileVars
  BY Zenon DEF RequestsNext, allVars
<1>3. KeyInv /\ FileInv /\ [RequestsNext]_allVars => KeyInv' /\ FileInv'
  BY <1>2, KeyStep, KeysStill, FileStep, FileStill
<1>4. KeyInv => (part = "keys" => Keys!KeyTypeOK /\ Keys!RetiredStaysOut /\ Keys!NoLockOut /\ Keys!KeyFileFollowed /\ Keys!ViewIsFile)
  BY KeysGood
<1>5. FileInv => (part = "firstkey" => FirstKey!FileTypeOK /\ FirstKey!AgreeOnKey)
  BY DEF FileInv, FileTyped, StartRow, StartPlaces, OwnTmp, FirstKey!FileTypeOK, FirstKey!AgreeOnKey
<1>6. KeyInv /\ [RequestsNext]_allVars => [\A t \in Keys!Tokens : keys[t].status # "none" => keys'[t].status # "none"]_Keys!keyVars
  BY <1>2, RecordsStay
<1> QED
  BY <1>1, <1>3, <1>4, <1>5, <1>6, PTL DEF RequestsSpec, KeysHold, Keys!RecordsKept

-----------------------------------------------------------------------------
(* SearchFanOut *)

FanPlaces == {"arrived", "lookup", "fusion", "embed", "naive", "local", "global", "fusing", "legs", "graph_legs", "rank",
              "done"}
FanKinds == {"search", "explain", "chat"}
FanModes == {"none", "naive", "local", "global"}
AskRow == [kind : FanKinds, names : SUBSET Collections, mode : FanModes, fusion : BOOLEAN, glob : BOOLEAN,
           rerank : BOOLEAN, fts : BOOLEAN]
FlowRow == [at : FanPlaces, scope : SUBSET Collections, excluded : SUBSET (Collections \X {"model", "not_found"}),
            attempted : BOOLEAN, applied : BOOLEAN, expanded : BOOLEAN, rows : SUBSET FanOut!AllChunks]
LegRow == [state : {"none", "running", "ok", "failed"}, rows : SUBSET FanOut!AllChunks, there : BOOLEAN]
FanTyped ==
  /\ tables \subseteq Collections /\ ask \in AskRow /\ flow \in FlowRow
  /\ leg \in [Collections -> LegRow] /\ \A c \in Collections : leg[c].rows \subseteq {c} \X Ranks

\* Nothing is known of the collections before they were looked up; then each is in scope or excluded, not both.
ScopeSplit ==
  /\ flow.at \in {"arrived", "lookup"} => flow.scope = {} /\ flow.excluded = {}
  /\ \A c \in flow.scope : c \in ask.names /\ \A e \in flow.excluded : e[1] # c
  /\ flow.at \notin {"arrived", "lookup"} => \A c \in ask.names : c \in flow.scope \/ \E e \in flow.excluded : e[1] = c
\* A leg runs only while legs are waited for, and has only what the glob admits, but for the global mode.
LegsFit ==
  \A c \in Collections :
    /\ leg[c].state = "running" => flow.at \in {"legs", "graph_legs"} /\ c \in flow.scope
    /\ flow.at \in {"arrived", "lookup", "fusion"} => leg[c] = FanOut!NoLeg
    /\ (ask.glob /\ flow.at \notin {"global", "rank"}) => \A r \in leg[c].rows : r[2] \in GlobRanks
\* A search that found no table was one of a collection that is gone.
LegsThere == \A c \in Collections : (leg[c].state = "ok" /\ ~leg[c].there) => c \notin tables
\* Which legs may have failed when the rows are merged.
LegsCount ==
  /\ flow.at = "global" => ask.mode = "global"
  /\ (ask.mode = "none" /\ ~ask.fusion) => flow.at \in {"arrived", "lookup", "embed", "legs", "rank"}
  /\ flow.at = "legs" => \A c \in flow.scope : leg[c].state # "failed"
  /\ (flow.at = "rank" /\ ask.mode = "none" /\ ~ask.fusion) => \A c \in flow.scope : leg[c].state = "ok"
\* The merged rows are visible ones of collections in scope, and keep to the glob.
MergedFit ==
  /\ flow.at # "rank" => flow.rows = {}
  /\ \A r \in flow.rows :
       /\ r \notin hiddenSet /\ r[1] \in flow.scope
       /\ (ask.glob /\ ~(ask.mode = "global" /\ flow.expanded)) => r[2] \in GlobRanks

Underway == reply = FanOut!NoReply /\ flow.at # "done" /\ ScopeSplit /\ LegsFit /\ LegsThere /\ LegsCount /\ MergedFit
Replied ==
  /\ flow.at = "done" /\ \A c \in Collections : leg[c].state # "running"
  /\ flow.rows \subseteq FanOut!AllChunks
  /\ reply.class \in {"ok", "not_found", "unavailable", "not_built", "failed", "timeout"}
  /\ FanOut!FanOutPermitted /\ FanOut!EveryLegCounted /\ FanOut!NotFoundIsTrue
FanInv == FanTyped /\ (Underway \/ Replied)

LEMMA FanStarts == FanOut!FanInit => FanInv
<1> SUFFICES ASSUME FanOut!FanInit PROVE FanInv
  OBVIOUS
<1>1. /\ flow = FanOut!NoFlow /\ leg = [c \in Collections |-> FanOut!NoLeg] /\ reply = FanOut!NoReply
      /\ tables \subseteq Collections /\ ask \in FanOut!Asks
  BY DEF FanOut!FanInit
<1>2. ask \in AskRow
  BY <1>1, Zenon DEF FanOut!Asks, AskRow, FanKinds, FanModes
<1>3. FanOut!NoFlow \in FlowRow /\ FanOut!NoFlow.at = "arrived" /\ FanOut!NoFlow.scope = {} /\ FanOut!NoFlow.excluded = {} /\ FanOut!NoFlow.rows = {}
  BY DEF FanOut!NoFlow, FlowRow, FanPlaces
<1>4. FanOut!NoLeg \in LegRow /\ FanOut!NoLeg.state = "none" /\ FanOut!NoLeg.rows = {}
  BY DEF FanOut!NoLeg, LegRow
<1>5. leg \in [Collections -> LegRow] /\ \A c \in Collections : leg[c] = FanOut!NoLeg
  BY <1>1, <1>4
<1>6. FanTyped
  BY <1>1, <1>2, <1>3, <1>4, <1>5 DEF FanTyped
<1>7. Underway
  BY <1>1, <1>3, <1>4, <1>5 DEF Underway, ScopeSplit, LegsFit, LegsThere, LegsCount, MergedFit
<1> QED
  BY <1>6, <1>7 DEF FanInv

LEMMA FlowFields ==
  ASSUME NEW f \in FlowRow
  PROVE  /\ f.at \in FanPlaces /\ f.scope \subseteq Collections /\ f.rows \subseteq FanOut!AllChunks
         /\ f.excluded \subseteq Collections \X {"model", "not_found"} /\ f.expanded \in BOOLEAN /\ f.applied \in BOOLEAN
  BY DEF FlowRow

LEMMA LegRows ==
  /\ FanOut!NoLeg \in LegRow /\ FanOut!NoLeg.state = "none" /\ FanOut!NoLeg.rows = {}
  /\ \A l \in LegRow : l.state \in {"none", "running", "ok", "failed"} /\ l.rows \subseteq FanOut!AllChunks /\ l.there \in BOOLEAN
  BY DEF FanOut!NoLeg, LegRow

LEMMA ReplyRows ==
  /\ FanOut!NoReply.class = "none" /\ FanOut!NoReply.results = {} /\ FanOut!NoReply.excluded = {}
  /\ \A class \in STRING : LET r == [FanOut!NoReply EXCEPT !.class = class] IN
       r.class = class /\ r.results = {} /\ r.excluded = {}
  /\ \A class \in STRING : \A x : LET r == [FanOut!NoReply EXCEPT !.class = class, !.excluded = x] IN
       r.class = class /\ r.results = {} /\ r.excluded = x
  BY DEF FanOut!NoReply

\* What ends a request: no leg runs on, whatever the reply.
LEMMA FanEnds ==
  ASSUME FanTyped, NEW r, FanOut!End(r)
  PROVE  /\ FanTyped' /\ flow'.at = "done" /\ flow'.rows = flow.rows /\ reply' = r
         /\ \A c \in Collections : leg'[c].state # "running" /\ (leg[c].state = "ok" => leg'[c] = leg[c])
<1>1. /\ reply' = r /\ leg' = FanOut!Cancelled /\ flow' = [flow EXCEPT !.at = "done"]
      /\ tables' = tables /\ ask' = ask
  BY DEF FanOut!End
<1>2. flow' \in FlowRow /\ flow'.at = "done" /\ flow'.rows = flow.rows
  <2>1. "done" \in FanPlaces /\ flow \in FlowRow
    BY DEF FanPlaces, FanTyped
  <2> QED
    BY <1>1, <2>1 DEF FlowRow
<1>3. \A c \in Collections : leg'[c] = (IF leg[c].state = "running" THEN FanOut!NoLeg ELSE leg[c])
  BY <1>1 DEF FanOut!Cancelled
<1>4. leg' \in [Collections -> LegRow]
  BY <1>1, LegRows DEF FanOut!Cancelled, FanTyped
<1> QED
  BY <1>1, <1>2, <1>3, <1>4, LegRows DEF FanTyped

\* A refusal holds no results.
LEMMA FanRefuses ==
  ASSUME FanTyped, NEW class \in {"not_found", "unavailable", "not_built", "failed", "timeout"}, FanOut!Refuse(class),
         class = "not_found" => \/ ask.kind = "explain" /\ ask.names \cap tables = {}
                                \/ ask.kind # "explain" /\ FanOut!Missing # {}
                                \/ ask.kind = "chat" /\ tables = {}
  PROVE  FanInv'
<1>1. FanOut!End([FanOut!NoReply EXCEPT !.class = class])
  BY DEF FanOut!Refuse
<1>2. /\ FanTyped' /\ flow'.at = "done" /\ flow'.rows = flow.rows /\ reply' = [FanOut!NoReply EXCEPT !.class = class]
      /\ \A c \in Collections : leg'[c].state # "running"
  BY <1>1, FanEnds
<1>3. reply'.class = class /\ reply'.results = {}
  BY <1>2, ReplyRows
<1>4. UNCHANGED <<tables, foreign, hiddenSet, ask>>
  BY <1>1 DEF FanOut!End
<1>5. FanOut!FanOutPermitted'
  BY <1>3 DEF FanOut!FanOutPermitted
<1>6. FanOut!EveryLegCounted'
  BY <1>3 DEF FanOut!EveryLegCounted
<1>7. FanOut!NotFoundIsTrue'
  <2>1. ask.kind \in FanKinds
    BY DEF FanTyped, AskRow
  <2> QED
    BY <1>3, <1>4, <2>1 DEF FanOut!NotFoundIsTrue, FanOut!Missing, FanKinds
<1>8. flow'.rows \subseteq FanOut!AllChunks
  BY <1>2, FlowFields DEF FanTyped
<1> QED
  BY <1>2, <1>3, <1>5, <1>6, <1>7, <1>8 DEF FanInv, Replied

LEMMA Subsets ==
  /\ \A s, n : FanOut!Best(s, n) \subseteq s /\ FanOut!Reranked(s, n) \subseteq s
  /\ \A s : FanOut!Trimmed(s) \subseteq s /\ FanOut!Globbed(s) \subseteq s /\ FanOut!Visible(s) = s \ hiddenSet
  /\ \A s : ask.glob => \A r \in FanOut!Globbed(s) : r[2] \in GlobRanks
  BY DEF FanOut!Best, FanOut!Reranked, FanOut!Trimmed, FanOut!Trim, FanOut!Globbed, FanOut!Visible

\* A step of the flow alone.
LEMMA FanArrives ==
  ASSUME FanTyped, Underway, FanOut!NameAll \/ FanOut!Arrive
  PROVE  FanInv'
<1>0. flow \in FlowRow /\ "lookup" \in FanPlaces /\ ask \in AskRow
  BY DEF FanTyped, FanPlaces
<1>1. CASE \E class \in {"failed"} : FanOut!Refuse(class)
  BY <1>1, FanRefuses
<1>2. CASE tables = {} /\ FanOut!Refuse("not_found") /\ ask.kind = "chat"
  BY <1>2, FanRefuses
<1>3. CASE /\ flow.at = "arrived" /\ flow' = [flow EXCEPT !.at = "lookup"]
           /\ (ask' = ask \/ \E names \in SUBSET Collections : ask' = [ask EXCEPT !.names = names])
           /\ UNCHANGED <<tables, foreign, hiddenSet, leg, reply>>
  <2>1. /\ flow' \in FlowRow /\ flow'.at = "lookup" /\ flow'.scope = flow.scope /\ flow'.excluded = flow.excluded
        /\ flow'.rows = flow.rows /\ flow'.expanded = flow.expanded
    BY <1>0, <1>3 DEF FlowRow
  <2>2. ask' \in AskRow /\ ask'.glob = ask.glob /\ ask'.mode = ask.mode /\ ask'.fusion = ask.fusion
    BY <1>0, <1>3 DEF AskRow
  <2>3. FanTyped'
    BY <1>3, <2>1, <2>2 DEF FanTyped
  <2>4. flow.scope = {} /\ flow.excluded = {} /\ flow.rows = {}
    BY <1>3 DEF Underway, ScopeSplit, MergedFit
  <2>5. ScopeSplit'
    BY <2>1, <2>4 DEF ScopeSplit
  <2>6. LegsFit'
    BY <1>3, <2>1, <2>2 DEF Underway, LegsFit
  <2>a. LegsThere'
    BY <1>3 DEF Underway, LegsThere
  <2>7. LegsCount' /\ MergedFit'
    BY <1>3, <2>1, <2>2, <2>4 DEF Underway, LegsCount, MergedFit
  <2> QED
    BY <1>3, <2>1, <2>3, <2>5, <2>6, <2>7, <2>a DEF FanInv, Underway
<1>4. ASSUME FanOut!NameAll PROVE FanInv'
  <2>1. \/ FanOut!Refuse("failed") \/ (tables = {} /\ FanOut!Refuse("not_found") /\ ask.kind = "chat")
        \/ \E names \in SUBSET Collections :
             /\ flow.at = "arrived" /\ flow' = [flow EXCEPT !.at = "lookup"] /\ ask' = [ask EXCEPT !.names = names]
             /\ UNCHANGED <<tables, foreign, hiddenSet, leg, reply>>
    <3>1. tables \subseteq Collections
      BY DEF FanTyped
    <3>2. \A n \in SUBSET tables : n \in SUBSET Collections
      BY <3>1
    <3>3. flow.at = "arrived" /\ ask.kind = "chat"
      BY <1>4, Zenon DEF FanOut!NameAll
    <3>4. CASE \E n \in (SUBSET tables) \ {{}} :
                 /\ flow' = [flow EXCEPT !.at = "lookup"] /\ ask' = [ask EXCEPT !.names = n]
                 /\ UNCHANGED <<tables, foreign, hiddenSet, leg, reply>>
      <4>1. PICK n \in (SUBSET tables) \ {{}} :
                 /\ flow' = [flow EXCEPT !.at = "lookup"] /\ ask' = [ask EXCEPT !.names = n]
                 /\ UNCHANGED <<tables, foreign, hiddenSet, leg, reply>>
        BY <3>4, Zenon
      <4>2. n \in SUBSET Collections
        BY <3>2
      <4> QED
        BY <3>3, <4>1, <4>2, Zenon
    <3> QED
      BY <1>4, <3>3, <3>4, Zenon DEF FanOut!NameAll
  <2> QED
    BY <2>1, <1>1, <1>2, <1>3
<1>5. ASSUME FanOut!Arrive PROVE FanInv'
  BY <1>5, <1>1, <1>3 DEF FanOut!Arrive, FanOut!Step
<1> QED
  BY <1>4, <1>5

LEMMA FanLooksUp ==
  ASSUME FanTyped, Underway, FanOut!LookUp
  PROVE  FanInv'
<1>0. /\ flow \in FlowRow /\ ask \in AskRow /\ ask.names \subseteq Collections /\ ask.mode \in FanModes
      /\ flow.at = "lookup" /\ ask.kind \in FanKinds
  BY DEF FanTyped, AskRow, FanOut!LookUp
<1>1. /\ FanOut!Excluded \subseteq Collections \X {"model", "not_found"} /\ FanOut!Usable \subseteq ask.names
      /\ \A c \in ask.names : c \in FanOut!Usable \/ \E e \in FanOut!Excluded : e[1] = c
      /\ \A c \in FanOut!Usable : \A e \in FanOut!Excluded : e[1] # c
  <2> DEFINE own == (ask.names \cap foreign) \ FanOut!Missing
             away == FanOut!Missing
  <2>1. FanOut!Excluded = {<<c, "model">> : c \in own} \cup {<<c, "not_found">> : c \in away}
    BY Zenon DEF FanOut!Excluded
  <2>2. own \subseteq ask.names /\ away \subseteq ask.names /\ FanOut!Usable = ask.names \ (own \cup away)
    BY DEF FanOut!Usable, FanOut!Missing
  <2> HIDE DEF own, away
  <2>3. FanOut!Excluded \subseteq Collections \X {"model", "not_found"}
    BY <1>0, <2>1, <2>2
  <2>4. \A e \in FanOut!Excluded : e[1] \in own \cup away
    BY <2>1
  <2>5. ASSUME NEW c \in own \cup away PROVE \E e \in FanOut!Excluded : e[1] = c
    <3>1. <<c, "model">> \in FanOut!Excluded \/ <<c, "not_found">> \in FanOut!Excluded
      BY <2>1, <2>5
    <3> QED
      BY <3>1
  <2> QED
    BY <2>2, <2>3, <2>4, <2>5
<1>2. CASE FanOut!Refuse("unavailable")
  BY <1>2, FanRefuses
<1>3. CASE FanOut!IsMissing /\ FanOut!Refuse("not_found")
  <2>1. \/ ask.kind = "explain" /\ ask.names \cap tables = {}
        \/ ask.kind # "explain" /\ FanOut!Missing # {}
    BY <1>3, Zenon DEF FanOut!IsMissing, FanOut!AnyMissing
  <2> QED
    BY <1>3, <2>1, FanRefuses
<1>4. CASE FanOut!Usable = {} /\ FanOut!End([FanOut!NoReply EXCEPT !.class = "ok", !.excluded = FanOut!Excluded])
  <2>1. /\ FanTyped' /\ flow'.at = "done" /\ flow'.rows = flow.rows
        /\ reply' = [FanOut!NoReply EXCEPT !.class = "ok", !.excluded = FanOut!Excluded]
        /\ \A c \in Collections : leg'[c].state # "running"
    BY <1>4, FanEnds
  <2>2. reply'.class = "ok" /\ reply'.results = {} /\ reply'.excluded = FanOut!Excluded
    BY <2>1, ReplyRows
  <2>3. ask' = ask /\ hiddenSet' = hiddenSet
    BY <1>4 DEF FanOut!End
  <2>4. FanOut!FanOutPermitted' /\ FanOut!NotFoundIsTrue'
    BY <2>2 DEF FanOut!FanOutPermitted, FanOut!NotFoundIsTrue
  <2>5. FanOut!EveryLegCounted'
    BY <1>1, <1>4, <2>2, <2>3 DEF FanOut!EveryLegCounted, FanOut!ReportedExcluded
  <2>6. flow'.rows \subseteq FanOut!AllChunks
    BY <1>0, <2>1, FlowFields
  <2> QED
    BY <2>1, <2>2, <2>4, <2>5, <2>6 DEF FanInv, Replied
<1>5. CASE \E at \in {"fusion", "embed", "naive", "local", "global"} :
             /\ FanOut!Step([flow EXCEPT !.scope = FanOut!Usable, !.excluded = FanOut!Excluded, !.at = at])
             /\ at = (IF ask.fusion THEN "fusion" ELSE IF ask.mode = "none" THEN "embed" ELSE ask.mode)
  <2>1. PICK at \in {"fusion", "embed", "naive", "local", "global"} :
             /\ FanOut!Step([flow EXCEPT !.scope = FanOut!Usable, !.excluded = FanOut!Excluded, !.at = at])
             /\ at = (IF ask.fusion THEN "fusion" ELSE IF ask.mode = "none" THEN "embed" ELSE ask.mode)
    BY <1>5
  <2>2. at \in FanPlaces /\ FanOut!Usable \in SUBSET Collections
    BY <1>0, <1>1 DEF FanPlaces
  <2>3. /\ flow' = [flow EXCEPT !.scope = FanOut!Usable, !.excluded = FanOut!Excluded, !.at = at]
        /\ UNCHANGED <<tables, foreign, hiddenSet, ask, leg, reply>>
    BY <2>1 DEF FanOut!Step
  <2>4. /\ flow' \in FlowRow /\ flow'.at = at /\ flow'.scope = FanOut!Usable /\ flow'.excluded = FanOut!Excluded
        /\ flow'.rows = flow.rows
    BY <1>0, <1>1, <2>2, <2>3 DEF FlowRow
  <2>5. FanTyped'
    BY <2>3, <2>4 DEF FanTyped
  <2>6. ScopeSplit'
    BY <1>1, <2>3, <2>4 DEF ScopeSplit
  <2>7. LegsFit'
    BY <1>0, <2>3, <2>4, LegRows DEF Underway, LegsFit
  <2>a. LegsThere'
    BY <2>3 DEF Underway, LegsThere
  <2>8. LegsCount' /\ MergedFit'
    BY <1>0, <2>1, <2>3, <2>4 DEF Underway, LegsCount, MergedFit
  <2> QED
    BY <2>3, <2>4, <2>5, <2>6, <2>7, <2>8, <2>a DEF FanInv, Underway
<1>6. (IF ask.fusion THEN "fusion" ELSE IF ask.mode = "none" THEN "embed" ELSE ask.mode) \in {"fusion", "embed", "naive", "local", "global"}
  BY <1>0 DEF FanModes
<1>7. \/ FanOut!Refuse("unavailable") \/ (FanOut!IsMissing /\ FanOut!Refuse("not_found"))
      \/ FanOut!Usable = {} /\ FanOut!End([FanOut!NoReply EXCEPT !.class = "ok", !.excluded = FanOut!Excluded])
      \/ FanOut!Step([flow EXCEPT !.scope = FanOut!Usable, !.excluded = FanOut!Excluded,
                          !.at = IF ask.fusion THEN "fusion" ELSE IF ask.mode = "none" THEN "embed" ELSE ask.mode])
  BY Zenon DEF FanOut!LookUp
<1> QED
  BY <1>2, <1>3, <1>4, <1>5, <1>6, <1>7

LEMMA FanGathers ==
  ASSUME FanTyped, Underway, FanOut!Variants \/ FanOut!Embed
  PROVE  FanInv'
<1>0. flow \in FlowRow /\ {"embed", "fusing", "legs", "graph_legs"} \subseteq FanPlaces /\ ask \in AskRow
  BY DEF FanTyped, FanPlaces
<1>1. ASSUME FanOut!Variants PROVE FanInv'
  <2>1. PICK at \in {"embed", "fusing"} : FanOut!Step([flow EXCEPT !.at = at, !.attempted = TRUE])
    BY <1>1 DEF FanOut!Variants
  <2>2. flow.at = "fusion" /\ flow' = [flow EXCEPT !.at = at, !.attempted = TRUE] /\ UNCHANGED <<tables, foreign, hiddenSet, ask, leg, reply>>
    BY <1>1, <2>1 DEF FanOut!Step, FanOut!Variants
  <2>3. /\ flow' \in FlowRow /\ flow'.at = at /\ flow'.scope = flow.scope /\ flow'.excluded = flow.excluded
        /\ flow'.rows = flow.rows
    BY <1>0, <2>2 DEF FlowRow
  <2>4. FanTyped'
    BY <2>2, <2>3 DEF FanTyped
  <2>5. ScopeSplit'
    BY <2>2, <2>3 DEF Underway, ScopeSplit
  <2>6. LegsFit'
    BY <2>2, <2>3, LegRows DEF Underway, LegsFit
  <2>a. LegsThere'
    BY <2>2 DEF Underway, LegsThere
  <2>7. LegsCount' /\ MergedFit'
    BY <2>2, <2>3 DEF Underway, LegsCount, MergedFit
  <2> QED
    BY <2>2, <2>3, <2>4, <2>5, <2>6, <2>7, <2>a DEF FanInv, Underway
<1>2. ASSUME NEW at \in {"legs", "graph_legs"}, NEW applied \in BOOLEAN, FanOut!StartLegs(at, applied),
             \/ flow.at = "embed" /\ at = "legs"
             \/ flow.at \in {"naive", "local"} /\ at = "graph_legs"
      PROVE  FanInv'
  <2>1. /\ flow' = [flow EXCEPT !.at = at, !.expanded = applied]
        /\ leg' = [c \in Collections |-> IF c \in flow.scope THEN [FanOut!NoLeg EXCEPT !.state = "running"] ELSE FanOut!NoLeg]
        /\ UNCHANGED <<tables, foreign, hiddenSet, ask, reply>>
    BY <1>2 DEF FanOut!StartLegs
  <2>2. /\ flow' \in FlowRow /\ flow'.at = at /\ flow'.scope = flow.scope /\ flow'.excluded = flow.excluded
        /\ flow'.rows = flow.rows
    BY <1>0, <2>1 DEF FlowRow
  <2> DEFINE going == [FanOut!NoLeg EXCEPT !.state = "running"]
  <2>3. going \in LegRow /\ going.state = "running" /\ going.rows = {}
    BY DEF LegRow, FanOut!NoLeg
  <2>4. \A c \in Collections : leg'[c] = IF c \in flow.scope THEN going ELSE FanOut!NoLeg
    BY <2>1
  <2>5. leg' \in [Collections -> LegRow]
    BY <2>1, <2>3, LegRows
  <2> HIDE DEF going
  <2>6. \A c \in Collections : leg'[c].rows = {} /\ leg'[c].state \notin {"ok", "failed"} /\ (leg'[c].state = "running" => c \in flow.scope)
    BY <2>3, <2>4, LegRows
  <2>7. FanTyped'
    BY <2>1, <2>2, <2>5, <2>6 DEF FanTyped
  <2>8. ScopeSplit'
    BY <1>2, <2>1, <2>2 DEF Underway, ScopeSplit
  <2>9. LegsFit'
    BY <2>1, <2>2, <2>6 DEF LegsFit
  <2>a. LegsThere'
    BY <2>6 DEF LegsThere
  <2>10. flow.scope \subseteq Collections
    BY <1>0, FlowFields
  <2>11. LegsCount'
    BY <1>2, <2>1, <2>2, <2>6, <2>10 DEF Underway, LegsCount
  <2>12. MergedFit'
    BY <1>2, <2>1, <2>2 DEF Underway, MergedFit
  <2> QED
    BY <2>1, <2>2, <2>7, <2>8, <2>9, <2>a, <2>11, <2>12 DEF FanInv, Underway
<1>3. ASSUME FanOut!Embed PROVE FanInv'
  <2>1. CASE FanOut!Refuse("failed")
    BY <2>1, FanRefuses
  <2>2. TRUE \in BOOLEAN /\ FALSE \in BOOLEAN
    OBVIOUS
  <2> QED
    BY <1>2, <1>3, <2>1, <2>2 DEF FanOut!Embed
<1> QED
  BY <1>1, <1>3

\* A leg that goes on or ends, however it does, while the request goes on.
LEMMA FanLegSet ==
  ASSUME FanTyped, Underway, NEW c \in Collections, c \in flow.scope,
         leg' \in [Collections -> LegRow], \A d \in Collections : d # c => leg'[d] = leg[d],
         leg'[c].state \in {"ok", "failed"} \/ (leg'[c].state = "running" /\ leg[c].state = "running"),
         leg'[c].rows \subseteq {c} \X Ranks, (leg'[c].state = "ok" /\ ~leg'[c].there) => c \notin tables,
         flow.at \in {"fusing", "legs", "graph_legs", "global"}, flow.at = "legs" => leg'[c].state # "failed",
         (ask.glob /\ flow.at # "global") => \A r \in leg'[c].rows : r[2] \in GlobRanks,
         /\ flow' \in FlowRow /\ flow'.at = flow.at /\ flow'.scope = flow.scope /\ flow'.excluded = flow.excluded
         /\ flow'.rows = flow.rows,
         UNCHANGED <<tables, foreign, hiddenSet, ask, reply>>
  PROVE  FanInv'
<1>2. FanTyped'
  BY DEF FanTyped
<1>3. ScopeSplit' /\ MergedFit'
  BY DEF Underway, ScopeSplit, MergedFit
<1>4. LegsFit'
  BY DEF Underway, LegsFit
<1>5. flow.scope \subseteq Collections
  BY FlowFields DEF FanTyped
<1>6. LegsCount'
  BY <1>5 DEF Underway, LegsCount
<1>7. LegsThere'
  BY DEF Underway, LegsThere
<1> QED
  BY <1>2, <1>3, <1>4, <1>6, <1>7 DEF FanInv, Underway

LEMMA ReadOne ==
  ASSUME NEW c \in Collections
  PROVE  FanOut!Read(c) \subseteq {c} \X Ranks /\ {c} \X Ranks \subseteq FanOut!AllChunks
  BY DEF FanOut!Read, FanOut!Of, FanOut!AllChunks

\* What a search finds is in the table that it read.
LEMMA FoundInTable == \A c : \A found \in FanOut!Hybrid(c) \cup FanOut!Fused(c) : found \subseteq FanOut!Read(c)
  BY DEF FanOut!Hybrid, FanOut!Fused, FanOut!Texts

LEMMA FanLegs ==
  ASSUME FanTyped, Underway, NEW c \in Collections,
         \/ FanOut!FuseLeg(c) \/ FanOut!LegReadsGraph(c) \/ FanOut!LegEnds(c) \/ FanOut!LegFails(c)
         \/ FanOut!GlobalLeg(c)
  PROVE  FanInv'
<1>0. flow \in FlowRow /\ FanOut!Read(c) \subseteq {c} \X Ranks /\ {c} \X Ranks \subseteq FanOut!AllChunks
  BY ReadOne DEF FanTyped
<1>1. FanOut!FailedLeg \in LegRow /\ FanOut!FailedLeg.state = "failed" /\ FanOut!FailedLeg.rows = {}
  BY DEF LegRow, FanOut!FailedLeg, FanOut!NoLeg
<1> DEFINE got(rs) == [state |-> "ok", rows |-> rs, there |-> c \in tables]
<1>2. \A rs \in SUBSET ({c} \X Ranks) :
        got(rs) \in LegRow /\ got(rs).state = "ok" /\ got(rs).rows = rs /\ got(rs).there = (c \in tables)
  BY <1>0 DEF LegRow
<1> HIDE DEF got
<1>3. CASE FanOut!Refuse("failed") \/ FanOut!Refuse("not_built")
  BY <1>3, FanRefuses
<1>4. ASSUME leg' = [leg EXCEPT ![c] = FanOut!FailedLeg], flow' = flow, c \in flow.scope, flow.at \in {"fusing", "graph_legs"},
             UNCHANGED <<tables, foreign, hiddenSet, ask, reply>>
      PROVE  FanInv'
  <2>1. leg' \in [Collections -> LegRow] /\ leg'[c] = FanOut!FailedLeg /\ \A d \in Collections : d # c => leg'[d] = leg[d]
    BY <1>1, <1>4 DEF FanTyped
  <2> QED
    BY <1>0, <1>1, <1>4, <2>1, FanLegSet
\* A leg that found the rows rs.
<1>5. ASSUME NEW rs \in SUBSET ({c} \X Ranks), leg' = [leg EXCEPT ![c] = got(rs)], c \in flow.scope,
             flow.at \in {"fusing", "legs", "graph_legs", "global"},
             (ask.glob /\ flow.at # "global") => \A r \in rs : r[2] \in GlobRanks,
             /\ flow' \in FlowRow /\ flow'.at = flow.at /\ flow'.scope = flow.scope /\ flow'.excluded = flow.excluded
             /\ flow'.rows = flow.rows,
             UNCHANGED <<tables, foreign, hiddenSet, ask, reply>>
      PROVE  FanInv'
  <2>1. leg' \in [Collections -> LegRow] /\ leg'[c] = got(rs) /\ \A d \in Collections : d # c => leg'[d] = leg[d]
    BY <1>2, <1>5 DEF FanTyped
  <2>2. leg'[c].state = "ok" /\ leg'[c].rows = rs /\ leg'[c].there = (c \in tables)
    BY <1>2, <2>1
  <2> QED
    BY <1>5, <2>1, <2>2, FanLegSet
<1>6. ASSUME FanOut!FuseLeg(c) PROVE FanInv'
  <2>0. flow.at = "fusing" /\ c \in flow.scope
    BY <1>6 DEF FanOut!FuseLeg
  <2>1. CASE leg' = [leg EXCEPT ![c] = FanOut!FailedLeg] /\ UNCHANGED <<tables, foreign, hiddenSet, ask, flow, reply>>
    BY <1>4, <2>0, <2>1
  <2> DEFINE rs(found) == FanOut!Trimmed(FanOut!Globbed(found))
  <2>2. CASE /\ \E applied \in BOOLEAN : flow' = [flow EXCEPT !.applied = @ \/ applied]
             /\ \E found \in FanOut!Fused(c) : leg' = [leg EXCEPT ![c] = got(rs(found))]
             /\ UNCHANGED <<tables, foreign, hiddenSet, ask, reply>>
    <3>1. /\ flow' \in FlowRow /\ flow'.at = flow.at /\ flow'.scope = flow.scope /\ flow'.excluded = flow.excluded
          /\ flow'.rows = flow.rows
      BY <1>0, <2>2 DEF FlowRow
    <3>2. PICK found \in FanOut!Fused(c) : leg' = [leg EXCEPT ![c] = got(rs(found))]
      BY <2>2
    <3>3. rs(found) \in SUBSET ({c} \X Ranks) /\ (ask.glob => \A r \in rs(found) : r[2] \in GlobRanks)
      <4>1. found \subseteq {c} \X Ranks
        BY <1>0, FoundInTable
      <4> QED
        BY <4>1, Subsets
    <3> HIDE DEF rs
    <3> QED
      BY <1>5, <2>0, <2>2, <3>1, <3>2, <3>3
  <2> QED
    BY <1>3, <1>6, <2>1, <2>2, Zenon DEF FanOut!FuseLeg, got
<1>7. ASSUME FanOut!LegReadsGraph(c) PROVE FanInv'
  <2>1. PICK graph \in SUBSET FanOut!Read(c) : leg' = [leg EXCEPT ![c].rows = FanOut!Trimmed(FanOut!Globbed(graph))]
    BY <1>7 DEF FanOut!LegReadsGraph
  <2> DEFINE rs == FanOut!Trimmed(FanOut!Globbed(graph))
  <2>2. rs \in SUBSET ({c} \X Ranks) /\ (ask.glob => \A r \in rs : r[2] \in GlobRanks)
    BY <1>0, Subsets
  <2>3. leg[c].state = "running" /\ flow.at = "graph_legs" /\ UNCHANGED <<tables, foreign, hiddenSet, ask, flow, reply>>
    BY <1>7 DEF FanOut!LegReadsGraph
  <2>4. c \in flow.scope /\ leg \in [Collections -> LegRow] /\ leg[c] \in LegRow
    BY <2>3 DEF Underway, LegsFit, FanTyped
  <2>5. leg' = [leg EXCEPT ![c].rows = rs]
    BY <2>1
  <2> HIDE DEF rs
  <2>6. leg'[c] = [leg[c] EXCEPT !.rows = rs] /\ (\A d \in Collections : d # c => leg'[d] = leg[d])
    BY <2>4, <2>5
  <2>7. leg'[c] \in LegRow /\ leg'[c].state = "running" /\ leg'[c].rows = rs
    BY <1>0, <2>2, <2>3, <2>4, <2>6 DEF LegRow
  <2>8. leg' \in [Collections -> LegRow]
    BY <2>4, <2>5, <2>6, <2>7
  <2> QED
    BY <1>0, <2>2, <2>3, <2>4, <2>6, <2>7, <2>8, FanLegSet
<1>8. ASSUME FanOut!LegEnds(c) PROVE FanInv'
  <2>0. flow.at \in {"legs", "graph_legs"} /\ c \in flow.scope
    BY <1>8 DEF FanOut!LegEnds, Underway, LegsFit
  <2> DEFINE first == leg[c].rows
             rest(found) == FanOut!Best(FanOut!Globbed(found) \ first, FanOut!Trim - FanOut!Cardinality(first))
             rs(found) == first \cup rest(found)
  <2>1. PICK found \in FanOut!Hybrid(c) : leg' = [leg EXCEPT ![c] = [state |-> "ok", there |-> c \in tables, rows |-> rs(found)]]
    BY <1>8, Zenon DEF FanOut!LegEnds
  <2>2. UNCHANGED <<tables, foreign, hiddenSet, ask, reply>> /\ flow' = [flow EXCEPT !.expanded = @ \/ leg[c].rows # {}]
    BY <1>8 DEF FanOut!LegEnds
  <2>3. first \subseteq {c} \X Ranks /\ rest(found) \subseteq FanOut!Globbed(found) /\ FanOut!Globbed(found) \subseteq {c} \X Ranks
    <3>1. found \subseteq {c} \X Ranks
      BY <1>0, FoundInTable
    <3>2. rest(found) \subseteq FanOut!Globbed(found) \ first /\ FanOut!Globbed(found) \subseteq found
      BY Subsets
    <3> QED
      BY <3>1, <3>2 DEF FanTyped
  <2>4. ask.glob => \A r \in rs(found) : r[2] \in GlobRanks
    <3>1. ask.glob => (\A r \in first : r[2] \in GlobRanks) /\ \A r \in FanOut!Globbed(found) : r[2] \in GlobRanks
      BY <2>0, Subsets DEF Underway, LegsFit
    <3> QED
      BY <2>3, <3>1
  <2>5. rs(found) \in SUBSET ({c} \X Ranks)
    BY <2>3
  <2>6. /\ flow' \in FlowRow /\ flow'.at = flow.at /\ flow'.scope = flow.scope /\ flow'.excluded = flow.excluded
        /\ flow'.rows = flow.rows
    BY <1>0, <2>2 DEF FlowRow
  <2>7. leg' = [leg EXCEPT ![c] = got(rs(found))]
    BY <2>1 DEF got
  <2> HIDE DEF rs
  <2> QED
    BY <1>5, <2>0, <2>2, <2>4, <2>5, <2>6, <2>7
<1>9. ASSUME FanOut!LegFails(c) PROVE FanInv'
  <2>1. flow.at \in {"legs", "graph_legs"} /\ c \in flow.scope
    BY <1>9 DEF FanOut!LegFails, Underway, LegsFit
  <2>2. \/ FanOut!Refuse("failed")
        \/ flow.at # "legs" /\ leg' = [leg EXCEPT ![c] = FanOut!FailedLeg] /\ UNCHANGED <<tables, foreign, hiddenSet, ask, flow, reply>>
    BY <1>9, Zenon DEF FanOut!LegFails
  <2> QED
    BY <1>3, <1>4, <2>1, <2>2
<1>10. ASSUME FanOut!GlobalLeg(c) PROVE FanInv'
  <2>0. flow.at = "global" /\ c \in flow.scope
    BY <1>10 DEF FanOut!GlobalLeg
  <2>1. CASE \E rs \in SUBSET FanOut!Read(c) :
               leg' = [leg EXCEPT ![c] = got(rs)] /\ UNCHANGED <<tables, foreign, hiddenSet, ask, flow, reply>>
    BY <1>0, <1>5, <2>0, <2>1
  <2> QED
    BY <1>3, <1>10, <2>1, Zenon DEF FanOut!GlobalLeg, got
<1> QED
  BY <1>6, <1>7, <1>8, <1>9, <1>10

LEMMA FanMerges ==
  ASSUME FanTyped, Underway, FanOut!Merge
  PROVE  FanInv'
<1>0. /\ flow \in FlowRow /\ {"embed", "rank"} \subseteq FanPlaces /\ flow.scope \subseteq Collections
      /\ flow.at \in {"fusing", "legs", "graph_legs", "global"} /\ flow.expanded \in BOOLEAN
      /\ \A c \in flow.scope : leg[c].state \in {"ok", "failed"}
  BY FlowFields DEF FanTyped, FanPlaces, FanOut!Merge
<1>1. CASE /\ flow.at = "global" /\ flow' = [flow EXCEPT !.at = "embed"] /\ leg' = [c \in Collections |-> FanOut!NoLeg]
           /\ UNCHANGED <<tables, foreign, hiddenSet, ask, reply>>
  <2>1. /\ flow' \in FlowRow /\ flow'.at = "embed" /\ flow'.scope = flow.scope /\ flow'.excluded = flow.excluded
        /\ flow'.rows = flow.rows
    BY <1>0, <1>1 DEF FlowRow
  <2>2. leg' \in [Collections -> LegRow] /\ \A c \in Collections : leg'[c].rows = {} /\ leg'[c].state = "none"
    BY <1>1, LegRows
  <2>3. FanTyped'
    BY <1>1, <2>1, <2>2 DEF FanTyped
  <2>4. ScopeSplit' /\ LegsFit' /\ LegsThere'
    BY <1>1, <2>1, <2>2 DEF Underway, ScopeSplit, LegsFit, LegsThere
  <2>5. LegsCount' /\ MergedFit'
    BY <1>1, <2>1, <2>2 DEF Underway, LegsCount, MergedFit
  <2> QED
    BY <1>1, <2>1, <2>3, <2>4, <2>5 DEF FanInv, Underway
<1>2. CASE FanOut!Step([flow EXCEPT !.at = "rank", !.rows = FanOut!Visible(FanOut!LegRows), !.expanded = @ \/ flow.at = "global"])
  <2> DEFINE rs == FanOut!Visible(FanOut!LegRows)
  <2>1. \A r \in rs : r \in FanOut!AllChunks /\ r \notin hiddenSet /\ \E c \in flow.scope : r \in leg[c].rows
    <3>1. \A c \in flow.scope : leg[c].rows \subseteq FanOut!AllChunks
      BY <1>0, LegRows DEF FanTyped
    <3> QED
      BY <3>1 DEF FanOut!Visible, FanOut!LegRows
  <2>2. /\ flow' = [flow EXCEPT !.at = "rank", !.rows = rs, !.expanded = @ \/ flow.at = "global"]
        /\ UNCHANGED <<tables, foreign, hiddenSet, ask, leg, reply>>
    BY <1>2 DEF FanOut!Step
  <2>3. rs \in SUBSET FanOut!AllChunks
    BY <2>1
  <2> HIDE DEF rs
  <2>4. /\ flow' \in FlowRow /\ flow'.at = "rank" /\ flow'.scope = flow.scope /\ flow'.excluded = flow.excluded
        /\ flow'.rows = rs /\ flow'.expanded = (flow.expanded \/ flow.at = "global")
    BY <1>0, <2>2, <2>3 DEF FlowRow
  <2>5. FanTyped'
    BY <2>2, <2>4 DEF FanTyped
  <2>6. ScopeSplit'
    BY <1>0, <2>2, <2>4 DEF Underway, ScopeSplit
  <2>7. LegsFit'
    <3>1. \A c \in Collections : leg[c].state # "running"
      BY <1>0 DEF Underway, LegsFit
    <3> QED
      BY <2>2, <2>4, <3>1 DEF LegsFit
  <2>a. LegsThere'
    BY <2>2 DEF Underway, LegsThere
  <2>8. LegsCount'
    BY <1>0, <2>2, <2>4 DEF Underway, LegsCount
  <2>9. MergedFit'
    <3>1. ASSUME NEW r \in rs
          PROVE  /\ r \notin hiddenSet /\ r[1] \in flow.scope
                 /\ (ask.glob /\ ~(ask.mode = "global" /\ flow'.expanded)) => r[2] \in GlobRanks
      <4>1. PICK c \in flow.scope : r \in leg[c].rows
        BY <2>1
      <4>2. r[1] = c
        BY <1>0, <4>1 DEF FanTyped
      <4>3. (ask.glob /\ flow.at # "global") => r[2] \in GlobRanks
        BY <1>0, <4>1 DEF Underway, LegsFit
      <4>4. flow.at = "global" => ask.mode = "global" /\ flow'.expanded
        BY <2>4 DEF Underway, LegsCount
      <4> QED
        BY <2>1, <4>2, <4>3, <4>4
    <3>2. flow'.at = "rank" /\ flow'.rows = rs /\ flow'.scope = flow.scope /\ hiddenSet' = hiddenSet /\ ask' = ask
      BY <2>2, <2>4
    <3> QED
      BY <3>1, <3>2 DEF MergedFit
  <2> QED
    BY <2>2, <2>4, <2>5, <2>6, <2>7, <2>8, <2>9, <2>a DEF FanInv, Underway
<1> QED
  BY <1>1, <1>2, Zenon DEF FanOut!Merge

LEMMA FanRanks ==
  ASSUME FanTyped, Underway, FanOut!Rank
  PROVE  FanInv'
<1>1. CASE FanOut!Refuse("failed")
  BY <1>1, FanRefuses
<1>2. ASSUME NEW rs, rs \subseteq flow.rows, FanOut!Answer(rs) PROVE FanInv'
  <2> DEFINE r == [class |-> "ok", results |-> rs, excluded |-> flow.excluded, attempted |-> flow.attempted,
                   applied |-> flow.applied, expanded |-> flow.expanded]
  <2>1. r.class = "ok" /\ r.results = rs /\ r.excluded = flow.excluded /\ r.expanded = flow.expanded
    OBVIOUS
  <2>2. FanOut!End(r)
    BY <1>2 DEF FanOut!Answer
  <2> HIDE DEF r
  <2>3. /\ FanTyped' /\ flow'.at = "done" /\ flow'.rows = flow.rows /\ reply' = r
        /\ \A c \in Collections : leg'[c].state # "running" /\ (leg[c].state = "ok" => leg'[c] = leg[c])
    BY <2>2, FanEnds
  <2>4. UNCHANGED <<tables, foreign, hiddenSet, ask>>
    BY <2>2 DEF FanOut!End
  <2>5. flow.at = "rank" /\ flow.scope \subseteq Collections /\ flow'.rows \subseteq FanOut!AllChunks
    BY <2>3, FlowFields DEF FanOut!Rank, FanTyped
  <2>6. FanOut!FanOutPermitted'
    <3>1. reply'.results \cap hiddenSet' = {}
      BY <1>2, <2>1, <2>3, <2>4 DEF Underway, MergedFit
    <3>2. \A x \in reply'.results : x[1] \in ask'.names /\ \A e \in reply'.excluded : e[1] # x[1]
      BY <1>2, <2>1, <2>3, <2>4 DEF Underway, MergedFit, ScopeSplit
    <3>3. (ask.glob /\ ~(ask.mode = "global" /\ reply'.expanded)) => \A x \in reply'.results : x[2] \in GlobRanks
      BY <1>2, <2>1, <2>3 DEF Underway, MergedFit
    <3> QED
      BY <2>4, <3>1, <3>2, <3>3 DEF FanOut!FanOutPermitted
  <2>7. FanOut!EveryLegCounted'
    <3>1. flow.scope \subseteq Collections /\ ask.names \subseteq Collections
      BY <2>5 DEF FanTyped, AskRow
    <3>2. SUFFICES ASSUME ask.mode = "none", ~ask.fusion, NEW c \in ask.names, ~\E e \in flow.excluded : e[1] = c
                   PROVE  leg'[c].state = "ok" /\ (leg'[c].there \/ c \notin tables)
      BY <2>1, <2>3, <2>4 DEF FanOut!EveryLegCounted, FanOut!Searched, FanOut!ReportedExcluded
    <3>3. c \in flow.scope
      BY <2>5, <3>2 DEF Underway, ScopeSplit
    <3>4. leg[c].state = "ok"
      BY <2>5, <3>2, <3>3 DEF Underway, LegsCount
    <3>5. leg[c].there \/ c \notin tables
      BY <3>1, <3>4 DEF Underway, LegsThere
    <3> QED
      BY <2>3, <3>1, <3>4, <3>5
  <2>8. FanOut!NotFoundIsTrue'
    BY <2>1, <2>3 DEF FanOut!NotFoundIsTrue
  <2> QED
    BY <2>1, <2>3, <2>5, <2>6, <2>7, <2>8 DEF FanInv, Replied
<1>3. (IF ask.rerank THEN FanOut!Reranked(flow.rows, FanOutPage) ELSE FanOut!Best(flow.rows, FanOutPage)) \subseteq flow.rows
  BY Subsets
<1> QED
  BY <1>1, <1>2, <1>3, Zenon DEF FanOut!Rank

\* Once a request has its answer, nothing of it goes on.
LEMMA FanStep ==
  ASSUME FanInv, FanOut!FanNext
  PROVE  FanInv'
<1>1. CASE Underway
  <2>1. FanTyped
    BY DEF FanInv
  <2>2. ASSUME NEW c \in Collections, FanOut!DropCollection(c) PROVE FanInv'
    <3>1. tables' \subseteq Collections /\ UNCHANGED <<foreign, hiddenSet, ask, flow, leg, reply>>
      BY <2>1, <2>2 DEF FanOut!DropCollection, FanTyped
    <3>2. FanTyped' /\ ScopeSplit' /\ LegsFit' /\ LegsCount' /\ MergedFit'
      BY <1>1, <2>1, <3>1 DEF FanTyped, Underway, ScopeSplit, LegsFit, LegsCount, MergedFit
    <3>3. LegsThere'
      BY <1>1, <2>2 DEF Underway, LegsThere, FanOut!DropCollection
    <3> QED
      BY <1>1, <3>1, <3>2, <3>3 DEF FanInv, Underway
  <2>3. ASSUME FanOut!LegsTimeOut \/ FanOut!BudgetExceeded PROVE FanInv'
    BY <2>1, <2>3, FanRefuses DEF FanOut!LegsTimeOut, FanOut!BudgetExceeded
  <2> QED
    BY <1>1, <2>1, <2>2, <2>3, FanArrives, FanLooksUp, FanGathers, FanLegs, FanMerges, FanRanks DEF FanOut!FanNext
<1>2. CASE Replied
  <2>1. reply # FanOut!NoReply /\ flow.at = "done" /\ \A c \in Collections : leg[c].state # "running"
    BY <1>2, ReplyRows DEF Replied
  <2>2. flow.scope \subseteq Collections
    BY FlowFields DEF FanInv, FanTyped
  <2>3. FALSE
    BY <2>1, <2>2 DEF FanOut!FanNext, FanOut!DropCollection, FanOut!FuseLeg, FanOut!LegReadsGraph, FanOut!LegEnds, FanOut!LegFails, FanOut!GlobalLeg,
       FanOut!NameAll, FanOut!Arrive, FanOut!LookUp, FanOut!Variants, FanOut!Embed, FanOut!LegsTimeOut, FanOut!Merge,
       FanOut!Rank, FanOut!BudgetExceeded
  <2> QED
    BY <2>3
<1> QED
  BY <1>1, <1>2 DEF FanInv

LEMMA FanStill == ASSUME FanInv, UNCHANGED fanVars PROVE FanInv'
<1>1. /\ tables' = tables /\ foreign' = foreign /\ hiddenSet' = hiddenSet /\ ask' = ask /\ flow' = flow /\ leg' = leg
      /\ reply' = reply
  BY DEF fanVars
<1>2. FanTyped'
  BY <1>1 DEF FanInv, FanTyped
<1>3. CASE Underway
  BY <1>1, <1>2, <1>3 DEF FanInv, Underway, ScopeSplit, LegsFit, LegsThere, LegsCount, MergedFit
<1>4. CASE Replied
  BY <1>1, <1>2, <1>4 DEF FanInv, Replied, FanOut!FanOutPermitted, FanOut!EveryLegCounted, FanOut!Searched, FanOut!ReportedExcluded,
     FanOut!NotFoundIsTrue, FanOut!Missing
<1> QED
  BY <1>3, <1>4 DEF FanInv

LEMMA FanGood ==
  ASSUME FanInv
  PROVE  /\ FanOut!FanTypeOK /\ FanOut!FanOutPermitted /\ FanOut!EveryLegCounted /\ FanOut!LegsEndWithAnswer
         /\ FanOut!NotFoundIsTrue
<1>1. FanTyped /\ (Underway \/ Replied)
  BY DEF FanInv
<1>2. flow.scope \subseteq Collections /\ flow.rows \subseteq FanOut!AllChunks
  BY <1>1, FlowFields DEF FanTyped
<1>3. \A c \in Collections : leg[c].state \in {"none", "running", "ok", "failed"} /\ leg[c].rows \subseteq {c} \X Ranks /\ leg[c].there \in BOOLEAN
  BY <1>1, LegRows DEF FanTyped
<1>4. reply.class \in {"none", "ok", "not_found", "unavailable", "not_built", "failed", "timeout"}
  BY <1>1, ReplyRows DEF Underway, Replied
<1>5. FanOut!FanTypeOK
  BY <1>1, <1>2, <1>3, <1>4 DEF FanOut!FanTypeOK, FanTyped
<1>6. FanOut!FanOutPermitted /\ FanOut!EveryLegCounted /\ FanOut!NotFoundIsTrue
  BY <1>1, ReplyRows DEF Underway, Replied, FanOut!FanOutPermitted, FanOut!EveryLegCounted, FanOut!NotFoundIsTrue
<1>7. FanOut!LegsEndWithAnswer
  BY <1>1 DEF Underway, Replied, FanOut!LegsEndWithAnswer
<1> QED
  BY <1>5, <1>6, <1>7

\* FanOutRight, for any collections, ranks, glob, trim, page, candidate depth and fan-out limit: whatever is dropped while a request runs and
\* however its legs end, an answer holds only chunks that the caller may see, of collections in its scope and within its
\* glob (FanOutPermitted); in a standard one each collection asked for was searched while its table was there, or is
\* reported as excluded, or was dropped under the request (EveryLegCounted); no leg runs on after it
\* (LegsEndWithAnswer); and a 404 tells what was missing (NotFoundIsTrue).
THEOREM FanOutIsRight == RequestsSpec => []FanOutRight
<1> DEFINE Inv == part = "fanout" => FanInv
<1>1. RequestsInit => Inv
  BY FanStarts, Zenon DEF RequestsInit
<1>2. [RequestsNext]_allVars => part' = part /\ (FanOut!FanNext \/ UNCHANGED fanVars)
  BY Zenon DEF RequestsNext, allVars
<1>3. Inv /\ [RequestsNext]_allVars => Inv'
  BY <1>2, FanStep, FanStill
<1>4. Inv => FanOutRight
  BY FanGood DEF FanOutRight
<1> QED
  BY <1>1, <1>3, <1>4, PTL DEF RequestsSpec

-----------------------------------------------------------------------------
(***************************************************************************)
(* CommunityClusters.  Whoever holds the rebuild lock is the only builder  *)
(* past it; its groups, done or not, cover its snapshot at every step.     *)
(***************************************************************************)
BuildPlaces == {"off", "waiting", "nodes", "cluster", "split", "single", "describe", "summarise", "clear", "add"}
BuildRow == [at : BuildPlaces, seen : Nat, todo : SUBSET Communities!Groups, kept : SUBSET Communities!Groups]
ClustersTyped ==
  /\ graphs \in Seq(SUBSET Members) /\ Len(graphs) \in 1..MaxGraphs /\ builder \in [Builders -> BuildRow]
  /\ holder \in Builders \cup {"nobody"} /\ table \subseteq [group : Communities!Groups, seen : 1..MaxGraphs]
  /\ builds \in 0..MaxBuilds /\ newest \in 0..Len(graphs)

\* A group that may be stored.
Fitting(g) == Communities!Oversized(g.members) => (g.stuck \/ g.depth = MaxDepth)
\* The groups to do and those done cover the snapshot, and none is both or empty.
GroupsFit(todo, kept, seen) ==
  /\ Communities!Covers(todo \cup kept, seen) /\ todo \cap kept = {} /\ \A g \in todo \cup kept : g.members # {}
Placing == {"split", "single", "describe", "summarise", "clear", "add"}
\* A builder past the rebuild lock: its snapshot is no older than what the table was written from.
BuildFit(b) ==
  /\ builder[b].at \notin {"off", "waiting"} <=> holder = b
  /\ builder[b].seen \in 0..Len(graphs)
  /\ builder[b].at \in Placing \cup {"cluster"} => builder[b].seen \in 1..Len(graphs) /\ newest <= builder[b].seen
  /\ builder[b].at \in Placing => GroupsFit(builder[b].todo, builder[b].kept, graphs[builder[b].seen])
  /\ builder[b].at \in Placing => \A g \in builder[b].kept : Fitting(g)
  /\ builder[b].at \in {"describe", "summarise"} => \A g \in builder[b].todo : Fitting(g)
  /\ builder[b].at \in {"single", "clear", "add"} => builder[b].todo = {}
  /\ builder[b].at = "cluster" => builder[b].kept = {}
  /\ builder[b].at = "summarise" => builder[b].todo # {}
  /\ builder[b].at = "add" => table = {}
\* The rows are those of one build.
TableFit ==
  /\ \A r \in table : Fitting(r.group)
  /\ table # {} => \E v \in 1..Len(graphs) : /\ \A r \in table : r.seen = v
                                            /\ Communities!Covers({r.group : r \in table}, graphs[v])
ClusterInv == ClustersTyped /\ TableFit /\ \A b \in Builders : BuildFit(b)

LEMMA SameSize == \A S : Communities!Cardinality(S) = Cardinality(S)
  BY DEF Communities!Cardinality, Cardinality

LEMMA Covering ==
  ASSUME NEW G, NEW S
  PROVE  Communities!Covers(G, S) <=> /\ \A x : x \in S <=> \E g \in G : x \in g.members
                                      /\ \A g, h \in G : g # h => g.members \cap h.members = {}
<1>1. \A x : x \in UNION {g.members : g \in G} <=> \E g \in G : x \in g.members
  OBVIOUS
<1> QED
  BY <1>1 DEF Communities!Covers

LEMMA MoveFit ==
  ASSUME NEW T, NEW K, NEW S, GroupsFit(T, K, S), NEW g \in T
  PROVE  GroupsFit(T \ {g}, K \cup {g}, S)
<1>1. (T \ {g}) \cup (K \cup {g}) = T \cup K
  OBVIOUS
<1> QED
  BY <1>1 DEF GroupsFit

LEMMA ReplaceFit ==
  ASSUME NEW T, NEW K, NEW S, GroupsFit(T, K, S), NEW g \in T, NEW N, Communities!Covers(N, g.members), \A n \in N : n.members # {}
  PROVE  GroupsFit((T \ {g}) \cup N, K, S) /\ GroupsFit(T \ {g}, K \cup N, S)
<1> DEFINE A == T \cup K
           B == (A \ {g}) \cup N
<1>1. /\ \A x : x \in S <=> \E h \in A : x \in h.members
      /\ \A h, k \in A : h # k => h.members \cap k.members = {}
      /\ \A h \in A : h.members # {}
      /\ g \in A /\ g \notin K /\ T \cap K = {}
  BY Covering DEF GroupsFit
<1>2. /\ \A x : x \in g.members <=> \E n \in N : x \in n.members
      /\ \A n, m \in N : n # m => n.members \cap m.members = {}
  BY Covering
<1> HIDE DEF A
<1>3. \A h \in A \ {g}, n \in N : h.members \cap n.members = {} /\ h # n
  <2> SUFFICES ASSUME NEW h \in A \ {g}, NEW n \in N PROVE h.members \cap n.members = {} /\ h # n
    OBVIOUS
  <2>1. h.members \cap g.members = {} /\ h.members # {}
    BY <1>1
  <2>2. n.members \subseteq g.members
    BY <1>2
  <2> QED
    BY <2>1, <2>2
<1>4. \A x : x \in S <=> \E h \in B : x \in h.members
  <2>1. ASSUME NEW x \in S PROVE \E h \in B : x \in h.members
    <3>1. PICK h \in A : x \in h.members
      BY <1>1
    <3>2. CASE h = g
      BY <1>2, <3>1, <3>2
    <3>3. CASE h # g
      BY <3>1, <3>3
    <3> QED
      BY <3>2, <3>3
  <2>2. ASSUME NEW h \in B, NEW x \in h.members PROVE x \in S
    <3>1. CASE h \in N
      BY <1>1, <1>2, <2>2, <3>1
    <3>2. CASE h \in A
      BY <1>1, <2>2, <3>2
    <3> QED
      BY <3>1, <3>2
  <2> QED
    BY <2>1, <2>2
<1>5. \A h, k \in B : h # k => h.members \cap k.members = {}
  BY <1>1, <1>2, <1>3
<1>6. \A h \in B : h.members # {}
  BY <1>1
<1>7. N \cap K = {} /\ N \cap (T \ {g}) = {}
  BY <1>1, <1>3 DEF A
<1>8. ((T \ {g}) \cup N) \cup K = B /\ (T \ {g}) \cup (K \cup N) = B
  BY <1>1 DEF A
<1>9. Communities!Covers(B, S)
  BY <1>4, <1>5, Covering
<1> HIDE DEF B
<1> QED
  BY <1>1, <1>6, <1>7, <1>8, <1>9 DEF GroupsFit

LEMMA PartitionFit ==
  ASSUME NEW S, NEW P \in Communities!Partitions(S)
  PROVE  /\ \A x : x \in S <=> \E m \in P : x \in m
         /\ \A m, n \in P : m # n => m \cap n = {}
         /\ \A m \in P : m # {} /\ m \subseteq S
<1> DEFINE Classes(f) == {{y \in S : f[y] = f[x]} : x \in S}
<1>0. P \in {Classes(f) : f \in [S -> 1..Cardinality(S)]}
  BY SameSize DEF Communities!Partitions
<1> HIDE DEF Classes
<1>1. PICK f \in [S -> 1..Cardinality(S)] : P = Classes(f)
  BY <1>0
<1>2. \A m : m \in P <=> \E x \in S : m = {y \in S : f[y] = f[x]}
  BY <1>1 DEF Classes
<1>3. \A x \in S : x \in {y \in S : f[y] = f[x]} /\ {y \in S : f[y] = f[x]} \in P
  BY <1>2
<1>4. \A m \in P : m # {} /\ m \subseteq S
  BY <1>2, <1>3
<1>5. \A m, n \in P : m # n => m \cap n = {}
  <2> SUFFICES ASSUME NEW m \in P, NEW n \in P, NEW z \in m \cap n PROVE m = n
    OBVIOUS
  <2>1. PICK x \in S : m = {y \in S : f[y] = f[x]}
    BY <1>2
  <2>2. PICK u \in S : n = {y \in S : f[y] = f[u]}
    BY <1>2
  <2> QED
    BY <2>1, <2>2
<1> QED
  BY <1>3, <1>4, <1>5

LEMMA GroupRow ==
  ASSUME NEW m, NEW k
  PROVE  /\ Communities!Group(m, k).members = m /\ Communities!Group(m, k).depth = k /\ ~Communities!Group(m, k).stuck
         /\ (m \in SUBSET Members /\ k \in 0..MaxDepth) => Communities!Group(m, k) \in Communities!Groups
  BY DEF Communities!Group, Communities!Groups

LEMMA FreshFit ==
  ASSUME NEW S \in SUBSET Members, NEW P \in Communities!Partitions(S), NEW k \in 0..MaxDepth
  PROVE  LET N == {Communities!Group(m, k) : m \in P}
         IN  /\ Communities!Covers(N, S) /\ \A n \in N : n.members # {} /\ n \in Communities!Groups
             /\ GroupsFit(N, {}, S)
<1> DEFINE N == {Communities!Group(m, k) : m \in P}
<1>1. /\ \A x : x \in S <=> \E m \in P : x \in m
      /\ \A m, n \in P : m # n => m \cap n = {}
      /\ \A m \in P : m # {} /\ m \subseteq S
  BY PartitionFit
<1>2. \A n \in N : n.members \in P /\ n = Communities!Group(n.members, k)
  BY GroupRow
<1>3. \A m \in P : Communities!Group(m, k) \in N /\ Communities!Group(m, k).members = m
  BY GroupRow
<1> HIDE DEF N
<1>4. \A n \in N : n.members # {} /\ n \in Communities!Groups
  BY <1>1, <1>2, GroupRow
<1>5. \A x : x \in S <=> \E n \in N : x \in n.members
  BY <1>1, <1>2, <1>3
<1>6. \A n, o \in N : n # o => n.members \cap o.members = {}
  BY <1>1, <1>2
<1>7. Communities!Covers(N, S)
  BY <1>5, <1>6, Covering
<1>8. N \cup {} = N /\ N \cap {} = {}
  OBVIOUS
<1>9. GroupsFit(N, {}, S)
  BY <1>4, <1>7, <1>8 DEF GroupsFit
<1> QED
  BY <1>4, <1>7, <1>9 DEF N

LEMMA OffBuild == Communities!Off \in BuildRow /\ Communities!Off.at = "off" /\ Communities!Off.seen = 0
  BY DEF Communities!Off, BuildRow, BuildPlaces

LEMMA BuildRows ==
  ASSUME NEW h \in BuildRow
  PROVE  h.at \in BuildPlaces /\ h.seen \in Nat /\ h.todo \subseteq Communities!Groups /\ h.kept \subseteq Communities!Groups
  BY DEF BuildRow

\* A builder that moves on keeps what it has.
LEMMA Going ==
  ASSUME NEW b \in Builders, builder \in [Builders -> BuildRow], NEW at \in BuildPlaces, Communities!Go(b, at)
  PROVE  \E h \in BuildRow : /\ builder' = [builder EXCEPT ![b] = h] /\ h.at = at /\ h.seen = builder[b].seen
                             /\ h.todo = builder[b].todo /\ h.kept = builder[b].kept
<1> DEFINE h == [builder[b] EXCEPT !.at = at]
<1>1. builder' = [builder EXCEPT ![b] = h]
  BY DEF Communities!Go
<1>2. h \in BuildRow /\ h.at = at /\ h.seen = builder[b].seen /\ h.todo = builder[b].todo /\ h.kept = builder[b].kept
  BY DEF BuildRow
<1> HIDE DEF h
<1> QED
  BY <1>1, <1>2

LEMMA TableStill == ASSUME TableFit, UNCHANGED <<graphs, table>> PROVE TableFit'
  BY DEF TableFit, Fitting

\* What is left to show of a builder's step.
LEMMA BuildHolds ==
  ASSUME ClusterInv, NEW b \in Builders, NEW h \in BuildRow, builder' = [builder EXCEPT ![b] = h], graphs' = graphs,
         holder' \in Builders \cup {"nobody"}, \A c \in Builders \ {b} : holder' = c <=> holder = c,
         builds' \in 0..MaxBuilds, newest' \in 0..Len(graphs), table' \subseteq [group : Communities!Groups, seen : 1..MaxGraphs],
         TableFit', BuildFit(b)', holder = b \/ UNCHANGED <<table, newest>>
  PROVE  ClusterInv'
<1>1. builder \in [Builders -> BuildRow] /\ builder' \in [Builders -> BuildRow] /\ \A c \in Builders \ {b} : builder'[c] = builder[c]
  BY DEF ClusterInv, ClustersTyped
<1>2. ClustersTyped'
  BY <1>1 DEF ClusterInv, ClustersTyped
<1>3. ASSUME NEW c \in Builders \ {b} PROVE BuildFit(c)'
  <2>1. BuildFit(c) /\ builder'[c] = builder[c] /\ (holder' = c <=> holder = c)
    BY <1>1 DEF ClusterInv
  <2>2. CASE holder = b
    <3>1. builder[c].at \in {"off", "waiting"}
      BY <2>1, <2>2 DEF BuildFit
    <3> QED
      BY <2>1, <3>1 DEF BuildFit, Placing
  <2>3. CASE UNCHANGED <<table, newest>>
    BY <2>1, <2>3 DEF BuildFit, GroupsFit, Fitting
  <2> QED
    BY <2>2, <2>3
<1> QED
  BY <1>2, <1>3 DEF ClusterInv

LEMMA ClusterFacts ==
  ASSUME ClusterInv, NEW b \in Builders
  PROVE  /\ ClustersTyped /\ TableFit /\ BuildFit(b) /\ builder \in [Builders -> BuildRow] /\ builder[b] \in BuildRow
         /\ holder \in Builders \cup {"nobody"} /\ builds \in 0..MaxBuilds /\ newest \in 0..Len(graphs)
         /\ table \subseteq [group : Communities!Groups, seen : 1..MaxGraphs] /\ b # "nobody"
         /\ Len(graphs) \in 1..MaxGraphs /\ MaxGraphs \in Nat /\ MaxBuilds \in Nat /\ MaxDepth \in Nat
         /\ \A v \in 1..Len(graphs) : graphs[v] \in SUBSET Members
  BY ClustersFit DEF ClusterInv, ClustersTyped

LEMMA ChangeKeeps == ASSUME ClusterInv, NEW g \in SUBSET Members, Communities!Change(g) PROVE ClusterInv'
<1>1. /\ Len(graphs) < MaxGraphs /\ graphs' = Append(graphs, g) /\ UNCHANGED <<builder, holder, table, builds, newest>>
  BY DEF Communities!Change
<1>2. graphs \in Seq(SUBSET Members) /\ Len(graphs) \in 1..MaxGraphs /\ MaxGraphs \in Nat /\ newest \in 0..Len(graphs)
  BY ClustersFit DEF ClusterInv, ClustersTyped
<1>3. /\ graphs' \in Seq(SUBSET Members) /\ Len(graphs') = Len(graphs) + 1
      /\ \A v \in 1..Len(graphs) : graphs'[v] = graphs[v]
  BY <1>1, <1>2
<1>4. ClustersTyped'
  BY <1>1, <1>2, <1>3 DEF ClusterInv, ClustersTyped
<1>5. TableFit'
  <2>1. \A r \in table' : Fitting(r.group)'
    BY <1>1 DEF ClusterInv, TableFit, Fitting
  <2>2. CASE table = {}
    BY <1>1, <2>1, <2>2 DEF TableFit
  <2>3. CASE table # {}
    <3>1. PICK v \in 1..Len(graphs) : (\A r \in table : r.seen = v) /\ Communities!Covers({r.group : r \in table}, graphs[v])
      BY <2>3 DEF ClusterInv, TableFit
    <3>2. v \in 1..Len(graphs') /\ graphs'[v] = graphs[v]
      BY <1>2, <1>3, <3>1
    <3> QED
      BY <1>1, <2>1, <3>1, <3>2 DEF TableFit
  <2> QED
    BY <2>2, <2>3
<1>6. ASSUME NEW b \in Builders PROVE BuildFit(b)'
  <2>1. BuildFit(b) /\ builder' = builder /\ holder' = holder /\ table' = table /\ newest' = newest
    BY <1>1 DEF ClusterInv
  <2>2. \A v \in 0..Len(graphs) : v \in 0..Len(graphs')
    BY <1>2, <1>3
  <2>3. \A v \in 1..Len(graphs) : v \in 1..Len(graphs')
    BY <1>2, <1>3
  <2>4. builder[b].at \in Placing => graphs'[builder[b].seen] = graphs[builder[b].seen]
    BY <1>3, <2>1 DEF BuildFit
  <2> QED
    BY <2>1, <2>2, <2>3, <2>4 DEF BuildFit, GroupsFit, Fitting
<1> QED
  BY <1>4, <1>5, <1>6 DEF ClusterInv

LEMMA BeginBuildKeeps == ASSUME ClusterInv, NEW b \in Builders, Communities!Begin(b) PROVE ClusterInv'
<1>1. /\ builder[b].at = "off" /\ builds < MaxBuilds /\ builds' = builds + 1 /\ Communities!Go(b, "waiting")
      /\ UNCHANGED <<graphs, holder, table, newest>>
  BY DEF Communities!Begin, Communities!At
<1>2. PICK h \in BuildRow : /\ builder' = [builder EXCEPT ![b] = h] /\ h.at = "waiting" /\ h.seen = builder[b].seen
                            /\ h.todo = builder[b].todo /\ h.kept = builder[b].kept
  BY <1>1, ClusterFacts, Going DEF BuildPlaces
<1>3. builder'[b] = h
  BY <1>2, ClusterFacts
<1>4. BuildFit(b)'
  BY <1>1, <1>2, <1>3, ClusterFacts DEF BuildFit, Placing
<1>5. TableFit'
  BY <1>1, TableStill, ClusterFacts
<1>6. builds' \in 0..MaxBuilds
  BY <1>1, ClusterFacts
<1> QED
  BY <1>1, <1>2, <1>4, <1>5, <1>6, ClusterFacts, BuildHolds

LEMMA LockBuildKeeps == ASSUME ClusterInv, NEW b \in Builders, Communities!Lock(b) PROVE ClusterInv'
<1>1. /\ builder[b].at = "waiting" /\ holder = "nobody" /\ holder' = b /\ Communities!Go(b, "nodes")
      /\ UNCHANGED <<graphs, table, builds, newest>>
  BY DEF Communities!Lock, Communities!At, Communities!LockFree, Communities!Nobody
<1>2. PICK h \in BuildRow : /\ builder' = [builder EXCEPT ![b] = h] /\ h.at = "nodes" /\ h.seen = builder[b].seen
                            /\ h.todo = builder[b].todo /\ h.kept = builder[b].kept
  BY <1>1, ClusterFacts, Going DEF BuildPlaces
<1>3. builder'[b] = h
  BY <1>2, ClusterFacts
<1>4. BuildFit(b)'
  BY <1>1, <1>2, <1>3, ClusterFacts DEF BuildFit, Placing
<1>5. TableFit'
  BY <1>1, TableStill, ClusterFacts
<1>6. \A c \in Builders \ {b} : holder' = c <=> holder = c
  BY <1>1, ClustersFit
<1> QED
  BY <1>1, <1>2, <1>4, <1>5, <1>6, ClusterFacts, BuildHolds

LEMMA Releasing ==
  ASSUME ClusterInv, NEW b \in Builders
  PROVE  /\ Communities!Released(b) \in Builders \cup {"nobody"} /\ Communities!Released(b) # b
         /\ \A c \in Builders \ {b} : Communities!Released(b) = c <=> holder = c
  BY ClustersFit, ClusterFacts DEF Communities!Released, Communities!Nobody

LEMMA FailBuildKeeps == ASSUME ClusterInv, NEW b \in Builders, Communities!Fail(b) PROVE ClusterInv'
<1>1. /\ holder' = Communities!Released(b) /\ builder' = [builder EXCEPT ![b] = Communities!Off]
      /\ UNCHANGED <<graphs, table, builds, newest>>
  BY DEF Communities!Fail
<1>3. builder'[b] = Communities!Off
  BY <1>1, ClusterFacts
<1>4. BuildFit(b)'
  BY <1>1, <1>3, OffBuild, Releasing, ClusterFacts DEF BuildFit, Placing
<1>5. TableFit'
  BY <1>1, TableStill, ClusterFacts
<1> QED
  BY <1>1, <1>4, <1>5, ClusterFacts, BuildHolds, OffBuild, Releasing

LEMMA ReadsKeep == ASSUME ClusterInv, NEW b \in Builders, Communities!ReadNodes(b) PROVE ClusterInv'
<1> DEFINE seen == graphs[Len(graphs)]
           h == IF Cardinality(seen) < 2
                THEN [at |-> "single", seen |-> Len(graphs), todo |-> {}, kept |-> {Communities!Group(seen, 0)}]
                ELSE [at |-> "cluster", seen |-> Len(graphs), todo |-> {}, kept |-> {}]
<1>1. /\ builder[b].at = "nodes" /\ seen # {} /\ builder' = [builder EXCEPT ![b] = h]
      /\ UNCHANGED <<graphs, holder, table, builds, newest>>
  BY SameSize DEF Communities!ReadNodes, Communities!At, Communities!Snapshot
<1>2. seen \in SUBSET Members /\ Len(graphs) \in 1..MaxGraphs /\ newest \in 0..Len(graphs) /\ MaxGraphs \in Nat
  BY ClusterFacts
<1>3. Communities!Group(seen, 0) \in Communities!Groups /\ Communities!Group(seen, 0).members = seen
  BY <1>2, GroupRow, ClustersFit
<1>4. Communities!Covers({Communities!Group(seen, 0)}, seen)
  BY <1>3, Covering
<1>5. GroupsFit({}, {Communities!Group(seen, 0)}, seen)
  BY <1>1, <1>3, <1>4 DEF GroupsFit
<1>6. Cardinality(seen) < 2 => Fitting(Communities!Group(seen, 0))
  <2>1. Cardinality(seen) \in Nat
    BY <1>2, ClustersFit, FS_Subset, FS_CardinalityType
  <2> QED
    BY <1>3, <2>1, SameSize, ClustersFit DEF Fitting, Communities!Oversized
<1>7. /\ h \in BuildRow /\ h.at \in {"single", "cluster"} /\ h.seen = Len(graphs) /\ h.todo = {}
      /\ h.at = "single" => Cardinality(seen) < 2 /\ h.kept = {Communities!Group(seen, 0)}
      /\ h.at = "cluster" => h.kept = {}
  <2> HIDE DEF seen
  <2>1. CASE Cardinality(seen) < 2
    BY <1>2, <1>3, <2>1 DEF BuildRow, BuildPlaces
  <2>2. CASE ~(Cardinality(seen) < 2)
    BY <1>2, <2>2 DEF BuildRow, BuildPlaces
  <2> QED
    BY <2>1, <2>2
<1> HIDE DEF h, seen
<1>8. builder'[b] = h
  BY <1>1, ClusterFacts
<1>9. BuildFit(b)'
  <2>1. holder = b
    BY <1>1, ClusterFacts DEF BuildFit
  <2>2. graphs'[builder'[b].seen] = seen
    BY <1>1, <1>7, <1>8 DEF seen
  <2>3. h.at = "single" => GroupsFit(h.todo, h.kept, seen) /\ \A g \in h.kept : Fitting(g)
    BY <1>5, <1>6, <1>7
  <2>4. Len(graphs) \in 0..Len(graphs) /\ Len(graphs) \in 1..Len(graphs) /\ newest <= Len(graphs)
    BY <1>2
  <2> QED
    BY <1>1, <1>7, <1>8, <2>1, <2>2, <2>3, <2>4 DEF BuildFit, Placing, GroupsFit, Fitting
<1>10. TableFit'
  BY <1>1, TableStill, ClusterFacts
<1> QED
  BY <1>1, <1>7, <1>9, <1>10, ClusterFacts, BuildHolds

\* The builder past the lock goes on with its groups.
LEMMA BuildGoes ==
  ASSUME ClusterInv, NEW b \in Builders, NEW h \in BuildRow, builder' = [builder EXCEPT ![b] = h],
         UNCHANGED <<graphs, holder, table, builds, newest>>, builder[b].at \in Placing \cup {"cluster"},
         h.at \in Placing \ {"add"}, h.seen = builder[b].seen, GroupsFit(h.todo, h.kept, graphs[builder[b].seen]),
         \A g \in h.kept : Fitting(g), h.at \in {"describe", "summarise"} => \A g \in h.todo : Fitting(g),
         h.at \in {"single", "clear"} => h.todo = {}, h.at = "summarise" => h.todo # {}
  PROVE  ClusterInv'
<1>1. builder'[b] = h
  BY ClusterFacts
<1>2. BuildFit(b) /\ holder = b
  BY ClusterFacts DEF BuildFit, Placing
<1>3. BuildFit(b)'
  <2>1. h.at \notin {"off", "waiting", "cluster", "add"}
    BY DEF Placing
  <2>2. graphs'[builder'[b].seen] = graphs[builder[b].seen]
    BY <1>1
  <2> QED
    BY <1>1, <1>2, <2>1, <2>2 DEF BuildFit, GroupsFit, Fitting
<1>4. TableFit'
  BY TableStill, ClusterFacts
<1> QED
  BY <1>3, <1>4, ClusterFacts, BuildHolds

LEMMA ClustersKeep == ASSUME ClusterInv, NEW b \in Builders, Communities!Cluster(b) PROVE ClusterInv'
<1>0. /\ builder[b].at = "cluster" /\ UNCHANGED <<graphs, holder, table, builds, newest>>
  BY DEF Communities!Cluster, Communities!At
<1>1. PICK P \in Communities!Partitions(graphs[builder[b].seen]) :
        builder' = [builder EXCEPT ![b] =
          IF Communities!NeedsSplit(P)
          THEN [builder[b] EXCEPT !.at = "split", !.todo = {Communities!Group(members, 0) : members \in P}]
          ELSE [builder[b] EXCEPT !.at = "describe", !.todo = {Communities!Group(members, 0) : members \in P}]]
  BY ClusterFacts DEF Communities!Cluster
<1> DEFINE N == {Communities!Group(members, 0) : members \in P}
           at == IF Communities!NeedsSplit(P) THEN "split" ELSE "describe"
           h == [builder[b] EXCEPT !.at = at, !.todo = N]
<1>2. builder' = [builder EXCEPT ![b] = h]
  BY <1>1, ClusterFacts
<1>3. builder[b].seen \in 1..Len(graphs) /\ newest <= builder[b].seen /\ holder = b
  BY <1>0, ClusterFacts DEF BuildFit, Placing
<1>4. graphs[builder[b].seen] \in SUBSET Members /\ 0 \in 0..MaxDepth
  BY <1>3, ClusterFacts
<1>5. GroupsFit(N, {}, graphs[builder[b].seen]) /\ N \subseteq Communities!Groups
  BY <1>1, <1>4, FreshFit
<1>6. at = "describe" => \A g \in N : Fitting(g)
  <2>1. \A g \in N : g.members \in P
    BY GroupRow
  <2>2. ~Communities!NeedsSplit(P) => \A m \in P : ~Communities!Oversized(m)
    BY DEF Communities!NeedsSplit
  <2> HIDE DEF N
  <2> QED
    BY <2>1, <2>2 DEF Fitting
<1> HIDE DEF N
<1>7. h \in BuildRow /\ h.at = at /\ h.seen = builder[b].seen /\ h.todo = N /\ h.kept = builder[b].kept
  BY <1>5, ClusterFacts DEF BuildRow, BuildPlaces
<1>8. at \in {"split", "describe"}
  OBVIOUS
<1> HIDE DEF h, at
<1>9. builder[b].kept = {}
  BY <1>0, ClusterFacts DEF BuildFit
<1> QED
  BY <1>0, <1>2, <1>5, <1>6, <1>7, <1>8, <1>9, BuildGoes DEF Placing

\* What a builder has at the groups.
LEMMA AtGroups ==
  ASSUME ClusterInv, NEW b \in Builders, builder[b].at \in Placing
  PROVE  /\ GroupsFit(builder[b].todo, builder[b].kept, graphs[builder[b].seen]) /\ \A g \in builder[b].kept : Fitting(g)
         /\ builder[b].todo \subseteq Communities!Groups /\ builder[b].kept \subseteq Communities!Groups
         /\ builder[b].at \in Placing \cup {"cluster"}
         /\ builder[b].seen \in 1..Len(graphs) /\ graphs[builder[b].seen] \in SUBSET Members /\ newest <= builder[b].seen /\ holder = b
         /\ builder[b].todo # {} => Communities!NextGroup(b) \in builder[b].todo /\ Communities!NextGroup(b) \in Communities!Groups
<1>1. BuildFit(b) /\ builder[b] \in BuildRow
  BY ClusterFacts
<1>2. builder[b].todo # {} => Communities!NextGroup(b) \in builder[b].todo
  BY DEF Communities!NextGroup
<1>3. builder[b].seen \in 1..Len(graphs) /\ graphs[builder[b].seen] \in SUBSET Members /\ holder = b
  BY <1>1, ClusterFacts DEF BuildFit, Placing
<1> QED
  BY <1>1, <1>2, <1>3, BuildRows DEF BuildFit

\* A group that is done.
LEMMA GroupMoves ==
  ASSUME ClusterInv, NEW b \in Builders, builder[b].at \in Placing, NEW g \in builder[b].todo, NEW at \in Placing \ {"add", "single", "clear", "summarise"},
         builder' = [builder EXCEPT ![b] = [builder[b] EXCEPT !.at = at, !.todo = builder[b].todo \ {g}, !.kept = builder[b].kept \cup {g}]],
         UNCHANGED <<graphs, holder, table, builds, newest>>, Fitting(g), at = "describe" => \A k \in builder[b].todo : Fitting(k)
  PROVE  ClusterInv'
<1> DEFINE h == [builder[b] EXCEPT !.at = at, !.todo = builder[b].todo \ {g}, !.kept = builder[b].kept \cup {g}]
<1>1. builder[b] \in BuildRow /\ at \in BuildPlaces /\ builder[b].todo \subseteq Communities!Groups
  BY ClusterFacts, AtGroups DEF Placing, BuildPlaces
<1>2. /\ h \in BuildRow /\ h.at = at /\ h.seen = builder[b].seen /\ h.todo = builder[b].todo \ {g} /\ h.kept = builder[b].kept \cup {g}
  BY <1>1 DEF BuildRow
<1>3. builder' = [builder EXCEPT ![b] = h]
  OBVIOUS
<1> HIDE DEF h
<1>4. GroupsFit(builder[b].todo \ {g}, builder[b].kept \cup {g}, graphs[builder[b].seen])
  BY AtGroups, MoveFit
<1>5. \A k \in h.kept : Fitting(k)
  BY <1>2, AtGroups
<1>6. h.at \in {"describe", "summarise"} => \A k \in h.todo : Fitting(k)
  BY <1>2
<1> QED
  BY <1>2, <1>3, <1>4, <1>5, <1>6, BuildGoes

LEMMA AcceptKeeps == ASSUME ClusterInv, NEW b \in Builders, Communities!Accept(b) PROVE ClusterInv'
<1> DEFINE g == Communities!NextGroup(b)
<1>1. /\ builder[b].at = "split" /\ builder[b].todo # {} /\ Communities!Accepted(g)
      /\ builder' = [builder EXCEPT ![b].todo = @ \ {g}, ![b].kept = @ \cup {g}]
      /\ UNCHANGED <<graphs, holder, table, builds, newest>>
  BY DEF Communities!Accept, Communities!At
<1>2. g \in builder[b].todo /\ g \in Communities!Groups
  BY <1>1, AtGroups DEF Placing
<1> HIDE DEF g
<1>3. builder \in [Builders -> BuildRow]
  BY ClusterFacts
<1>4. builder' = [builder EXCEPT ![b] = [builder[b] EXCEPT !.at = "split", !.todo = builder[b].todo \ {g}, !.kept = builder[b].kept \cup {g}]]
  BY <1>1, <1>3 DEF BuildRow
<1>5. Fitting(g)
  <2>1. g.depth \in 0..MaxDepth
    BY <1>2 DEF Communities!Groups
  <2> QED
    BY <1>1, <2>1, ClustersFit DEF Fitting, Communities!Accepted
<1> QED
  BY <1>1, <1>2, <1>4, <1>5, GroupMoves DEF Placing

LEMMA SummariseKeeps == ASSUME ClusterInv, NEW b \in Builders, Communities!Summarise(b) PROVE ClusterInv'
<1> DEFINE g == Communities!NextGroup(b)
<1>1. /\ builder[b].at = "summarise"
      /\ builder' = [builder EXCEPT ![b].at = "describe", ![b].todo = @ \ {g}, ![b].kept = @ \cup {g}]
      /\ UNCHANGED <<graphs, holder, table, builds, newest>>
  BY DEF Communities!Summarise, Communities!At
<1>2. builder[b].todo # {} /\ \A k \in builder[b].todo : Fitting(k)
  BY <1>1, ClusterFacts DEF BuildFit
<1>3. g \in builder[b].todo
  BY <1>1, <1>2, AtGroups DEF Placing
<1> HIDE DEF g
<1>4. builder \in [Builders -> BuildRow]
  BY ClusterFacts
<1>5. builder' = [builder EXCEPT ![b] = [builder[b] EXCEPT !.at = "describe", !.todo = builder[b].todo \ {g}, !.kept = builder[b].kept \cup {g}]]
  BY <1>1, <1>4 DEF BuildRow
<1>6. Fitting(g) /\ builder[b].at \in Placing
  BY <1>1, <1>2, <1>3 DEF Placing
<1>7. "describe" \in Placing \ {"add", "single", "clear", "summarise"}
  BY DEF Placing
<1> QED
  BY <1>1, <1>2, <1>3, <1>5, <1>6, <1>7, GroupMoves

LEMMA SplitKeeps == ASSUME ClusterInv, NEW b \in Builders, Communities!Split(b) PROVE ClusterInv'
<1> DEFINE g == Communities!NextGroup(b)
<1>1. /\ builder[b].at = "split" /\ builder[b].todo # {} /\ ~Communities!Accepted(g)
      /\ UNCHANGED <<graphs, holder, table, builds, newest>>
  BY DEF Communities!Split, Communities!At
<1>2. PICK P \in Communities!Partitions(g.members) : builder' = [builder EXCEPT ![b] =
        IF Communities!Cardinality(P) <= 1
        THEN [builder[b] EXCEPT !.todo = builder[b].todo \ {g}, !.kept = builder[b].kept \cup Communities!Whole(g)]
        ELSE [builder[b] EXCEPT !.todo = (builder[b].todo \ {g}) \cup {Communities!Group(members, g.depth + 1) : members \in P}]]
  BY DEF Communities!Split
<1>3. /\ g \in builder[b].todo /\ g \in Communities!Groups /\ GroupsFit(builder[b].todo, builder[b].kept, graphs[builder[b].seen])
      /\ builder[b].todo \subseteq Communities!Groups /\ builder[b].kept \subseteq Communities!Groups
      /\ \A k \in builder[b].kept : Fitting(k)
  BY <1>1, AtGroups DEF Placing
<1> HIDE DEF g
<1>4. g.members \in SUBSET Members /\ g.depth \in 0..MaxDepth /\ g.stuck \in BOOLEAN /\ g.members # {} /\ g.depth + 1 \in 0..MaxDepth
  <2>1. g.members \in SUBSET Members /\ g.depth \in 0..MaxDepth /\ g.stuck \in BOOLEAN
    BY <1>3 DEF Communities!Groups
  <2> QED
    BY <1>1, <1>3, <2>1, ClustersFit DEF Communities!Accepted, GroupsFit
<1>5. builder \in [Builders -> BuildRow] /\ builder[b] \in BuildRow
  BY ClusterFacts
<1>6. CASE Communities!Cardinality(P) <= 1
  <2> DEFINE k == [g EXCEPT !.stuck = TRUE]
             h == [builder[b] EXCEPT !.todo = builder[b].todo \ {g}, !.kept = builder[b].kept \cup {k}]
  <2>1. k \in Communities!Groups /\ k.members = g.members /\ k.stuck
    BY <1>3 DEF Communities!Groups
  <2>2. builder' = [builder EXCEPT ![b] = h]
    BY <1>2, <1>6 DEF Communities!Whole
  <2> HIDE DEF k
  <2>3. h \in BuildRow /\ h.at = "split" /\ h.seen = builder[b].seen /\ h.todo = builder[b].todo \ {g} /\ h.kept = builder[b].kept \cup {k}
    BY <1>1, <1>3, <1>5, <2>1 DEF BuildRow
  <2> HIDE DEF h
  <2>4. Communities!Covers({k}, g.members)
    BY <2>1, Covering
  <2>5. GroupsFit(builder[b].todo \ {g}, builder[b].kept \cup {k}, graphs[builder[b].seen])
    BY <1>3, <1>4, <2>1, <2>4, ReplaceFit
  <2>6. \A m \in h.kept : Fitting(m)
    BY <1>3, <2>1, <2>3 DEF Fitting
  <2> QED
    BY <1>1, <2>2, <2>3, <2>5, <2>6, BuildGoes DEF Placing
<1>7. CASE ~(Communities!Cardinality(P) <= 1)
  <2> DEFINE N == {Communities!Group(members, g.depth + 1) : members \in P}
             h == [builder[b] EXCEPT !.todo = (builder[b].todo \ {g}) \cup N]
  <2>1. Communities!Covers(N, g.members) /\ \A n \in N : n.members # {} /\ n \in Communities!Groups
    BY <1>2, <1>4, FreshFit
  <2>2. builder' = [builder EXCEPT ![b] = h]
    BY <1>2, <1>7
  <2> HIDE DEF N
  <2>3. h \in BuildRow /\ h.at = "split" /\ h.seen = builder[b].seen /\ h.todo = (builder[b].todo \ {g}) \cup N /\ h.kept = builder[b].kept
    BY <1>1, <1>3, <1>5, <2>1 DEF BuildRow
  <2> HIDE DEF h
  <2>4. GroupsFit((builder[b].todo \ {g}) \cup N, builder[b].kept, graphs[builder[b].seen])
    BY <1>3, <2>1, ReplaceFit
  <2>5. \A m \in h.kept : Fitting(m)
    BY <1>3, <2>3
  <2> QED
    BY <1>1, <2>2, <2>3, <2>4, <2>5, BuildGoes DEF Placing
<1> QED
  BY <1>6, <1>7

LEMMA SplitEndKeeps == ASSUME ClusterInv, NEW b \in Builders, Communities!SplitEnd(b) PROVE ClusterInv'
<1>1. /\ builder[b].at = "split" /\ builder[b].todo = {} /\ UNCHANGED <<graphs, holder, table, builds, newest>>
      /\ builder' = [builder EXCEPT ![b].at = "describe", ![b].todo = builder[b].kept, ![b].kept = {}]
  BY DEF Communities!SplitEnd, Communities!At
<1> DEFINE h == [builder[b] EXCEPT !.at = "describe", !.todo = builder[b].kept, !.kept = {}]
<1>2. builder \in [Builders -> BuildRow] /\ builder[b] \in BuildRow
  BY ClusterFacts
<1>3. builder' = [builder EXCEPT ![b] = h]
  BY <1>1, <1>2 DEF BuildRow
<1>4. h \in BuildRow /\ h.at = "describe" /\ h.seen = builder[b].seen /\ h.todo = builder[b].kept /\ h.kept = {}
  BY <1>2 DEF BuildRow, BuildPlaces
<1> HIDE DEF h
<1>5. GroupsFit({}, builder[b].kept, graphs[builder[b].seen]) /\ \A g \in builder[b].kept : Fitting(g)
  BY <1>1, AtGroups DEF Placing
<1>6. GroupsFit(builder[b].kept, {}, graphs[builder[b].seen])
  <2>1. {} \cup builder[b].kept = builder[b].kept \cup {}
    OBVIOUS
  <2> QED
    BY <1>5, <2>1 DEF GroupsFit
<1> QED
  BY <1>1, <1>3, <1>4, <1>5, <1>6, BuildGoes DEF Placing

\* A builder that goes on with the groups it has.
LEMMA BuildMoves ==
  ASSUME ClusterInv, NEW b \in Builders, builder[b].at \in Placing, NEW at \in {"summarise", "clear"}, Communities!Go(b, at),
         at = "clear" => builder[b].todo = {},
         at = "summarise" => builder[b].todo # {} /\ \A g \in builder[b].todo : Fitting(g),
         UNCHANGED <<graphs, holder, table, builds, newest>>
  PROVE  ClusterInv'
<1>1. at \in BuildPlaces /\ at \in Placing \ {"add"}
  BY DEF BuildPlaces, Placing
<1>2. PICK h \in BuildRow : /\ builder' = [builder EXCEPT ![b] = h] /\ h.at = at /\ h.seen = builder[b].seen
                            /\ h.todo = builder[b].todo /\ h.kept = builder[b].kept
  BY <1>1, ClusterFacts, Going
<1>3. GroupsFit(h.todo, h.kept, graphs[builder[b].seen]) /\ \A g \in h.kept : Fitting(g)
  BY <1>2, AtGroups
<1> QED
  BY <1>1, <1>2, <1>3, BuildGoes

LEMMA RepresentKeeps == ASSUME ClusterInv, NEW b \in Builders, Communities!Represent(b) PROVE ClusterInv'
<1>1. UNCHANGED <<graphs, holder, table, builds, newest>>
  BY DEF Communities!Represent
<1>2. CASE builder[b].at = "describe" /\ builder[b].todo # {} /\ Communities!Go(b, "summarise")
  <2>1. \A g \in builder[b].todo : Fitting(g)
    BY <1>2, ClusterFacts DEF BuildFit
  <2> QED
    BY <1>1, <1>2, <2>1, BuildMoves DEF Placing
<1>3. CASE builder[b].at = "single" /\ Communities!Go(b, "clear")
  <2>1. builder[b].todo = {}
    BY <1>3, ClusterFacts DEF BuildFit
  <2> QED
    BY <1>1, <1>3, <2>1, BuildMoves DEF Placing
<1> QED
  BY <1>2, <1>3 DEF Communities!Represent, Communities!At

LEMMA DescribedKeeps == ASSUME ClusterInv, NEW b \in Builders, Communities!Described(b) PROVE ClusterInv'
  BY BuildMoves DEF Communities!Described, Communities!At, Placing

LEMMA ClearKeeps == ASSUME ClusterInv, NEW b \in Builders, Communities!Clear(b) PROVE ClusterInv'
<1>1. /\ builder[b].at = "clear" /\ table' = {} /\ Communities!Go(b, "add") /\ UNCHANGED <<graphs, holder, builds, newest>>
  BY DEF Communities!Clear, Communities!At
<1>2. PICK h \in BuildRow : /\ builder' = [builder EXCEPT ![b] = h] /\ h.at = "add" /\ h.seen = builder[b].seen
                            /\ h.todo = builder[b].todo /\ h.kept = builder[b].kept
  BY <1>1, ClusterFacts, Going DEF BuildPlaces
<1>3. builder'[b] = h /\ BuildFit(b)
  BY <1>2, ClusterFacts
<1>4. holder = b /\ BuildFit(b)'
  BY <1>1, <1>2, <1>3 DEF BuildFit, Placing, GroupsFit, Fitting
<1>5. TableFit'
  BY <1>1 DEF TableFit
<1> QED
  BY <1>1, <1>2, <1>4, <1>5, ClusterFacts, BuildHolds

LEMMA AddKeeps ==
  ASSUME ClusterInv, NEW b \in Builders, Communities!Add(b)
  PROVE  ClusterInv' /\ \A r \in table' : r.seen >= newest
<1> DEFINE v == builder[b].seen
           G == builder[b].kept
<1>1. /\ builder[b].at = "add" /\ table' = table \cup {[group |-> g, seen |-> v] : g \in G}
      /\ newest' = v /\ holder' = Communities!Released(b) /\ builder' = [builder EXCEPT ![b] = Communities!Off]
      /\ UNCHANGED <<graphs, builds>>
  BY DEF Communities!Add, Communities!At
<1>2. table = {} /\ builder[b].todo = {}
  BY <1>1, ClusterFacts DEF BuildFit
<1>3. /\ GroupsFit({}, G, graphs[v]) /\ (\A g \in G : Fitting(g)) /\ G \subseteq Communities!Groups
      /\ v \in 1..Len(graphs) /\ newest <= v /\ holder = b
  BY <1>1, <1>2, AtGroups DEF Placing
<1> HIDE DEF v, G
<1>4. v \in 1..MaxGraphs /\ v \in 0..Len(graphs) /\ newest \in 0..Len(graphs) /\ Len(graphs) \in 1..MaxGraphs
  BY <1>3, ClusterFacts
<1>5. table' = {[group |-> g, seen |-> v] : g \in G}
  BY <1>1, <1>2
<1>6. table' \subseteq [group : Communities!Groups, seen : 1..MaxGraphs] /\ \A r \in table' : r.seen = v /\ r.group \in G
  BY <1>3, <1>4, <1>5
<1>7. {r.group : r \in table'} = G
  <2>1. \A g \in G : [group |-> g, seen |-> v] \in table' /\ [group |-> g, seen |-> v].group = g
    BY <1>5
  <2> QED
    BY <1>6, <2>1
<1>8. TableFit'
  <2>1. Communities!Covers(G, graphs[v])
    <3>1. {} \cup G = G
      OBVIOUS
    <3> QED
      BY <1>3, <3>1 DEF GroupsFit
  <2>2. \A r \in table' : Fitting(r.group)'
    BY <1>3, <1>6 DEF Fitting
  <2> QED
    BY <1>1, <1>3, <1>6, <1>7, <2>1, <2>2 DEF TableFit
<1>9. builder'[b] = Communities!Off
  BY <1>1, ClusterFacts
<1>10. BuildFit(b)'
  BY <1>1, <1>9, OffBuild, Releasing, ClusterFacts DEF BuildFit, Placing
<1>11. ClusterInv'
  BY <1>1, <1>3, <1>4, <1>6, <1>8, <1>10, ClusterFacts, BuildHolds, OffBuild, Releasing
<1>12. \A r \in table' : r.seen >= newest
  BY <1>3, <1>4, <1>6
<1> QED
  BY <1>11, <1>12

LEMMA ClustersStart == Communities!ClusterInit => ClusterInv
<1> SUFFICES ASSUME Communities!ClusterInit PROVE ClusterInv
  OBVIOUS
<1>1. PICK g \in SUBSET Members : graphs = <<g>>
  BY DEF Communities!ClusterInit
<1>2. graphs \in Seq(SUBSET Members) /\ Len(graphs) = 1
  BY <1>1
<1>3. /\ builder = [b \in Builders |-> Communities!Off] /\ holder = "nobody" /\ table = {} /\ builds = 0 /\ newest = 0
  BY DEF Communities!ClusterInit, Communities!Nobody
<1>4. ClustersTyped
  BY <1>2, <1>3, OffBuild, ClustersFit DEF ClustersTyped
<1>5. \A b \in Builders : BuildFit(b)
  BY <1>2, <1>3, OffBuild, ClustersFit DEF BuildFit, Placing
<1> QED
  BY <1>3, <1>4, <1>5 DEF ClusterInv, TableFit

LEMMA ClusterStep == ASSUME ClusterInv, Communities!ClusterNext PROVE ClusterInv'
  BY ChangeKeeps, BeginBuildKeeps, LockBuildKeeps, FailBuildKeeps, ReadsKeep, ClustersKeep, AcceptKeeps, SplitKeeps, SplitEndKeeps,
     RepresentKeeps, SummariseKeeps, DescribedKeeps, ClearKeeps, AddKeeps DEF Communities!ClusterNext

LEMMA ClusterStill == ASSUME ClusterInv, UNCHANGED clusterVars PROVE ClusterInv'
  BY DEF clusterVars, ClusterInv, ClustersTyped, TableFit, BuildFit, GroupsFit, Fitting

\* Only Add puts rows into the table.
LEMMA RowsAreNewer ==
  ASSUME ClusterInv, Communities!ClusterNext, table' \ table # {}
  PROVE  \A r \in table' : r.seen >= newest
<1>1. (\E b \in Builders : Communities!Add(b)) \/ table' = table \/ table' = {}
  BY DEF Communities!ClusterNext, Communities!Change, Communities!Begin, Communities!Lock, Communities!Fail, Communities!ReadNodes,
         Communities!Cluster, Communities!Accept, Communities!Split, Communities!SplitEnd, Communities!Represent,
         Communities!Summarise, Communities!Described, Communities!Clear
<1> QED
  BY <1>1, AddKeeps

LEMMA ClustersGood ==
  ASSUME ClusterInv
  PROVE  Communities!ClusterTypeOK /\ Communities!EveryEntityPlaced /\ Communities!SizeHeld /\ Communities!OneBuildShown
<1>1. Communities!ClusterTypeOK
  <2>1. ASSUME NEW b \in Builders
        PROVE  /\ builder[b].at \in BuildPlaces /\ builder[b].todo \subseteq Communities!Groups
               /\ builder[b].kept \subseteq Communities!Groups /\ builder[b].seen \in 0..Len(graphs)
    BY ClusterFacts, BuildRows DEF BuildFit
  <2>2. newest \in 0..MaxGraphs
    BY ClustersFit DEF ClusterInv, ClustersTyped
  <2> QED
    BY <2>1, <2>2 DEF ClusterInv, ClustersTyped, Communities!ClusterTypeOK, BuildPlaces, Communities!Nobody
<1>2. Communities!EveryEntityPlaced
  BY DEF ClusterInv, BuildFit, Placing, GroupsFit, Communities!EveryEntityPlaced
<1>3. Communities!SizeHeld
  BY DEF ClusterInv, TableFit, Fitting, Communities!SizeHeld
<1>4. Communities!OneBuildShown
  <2> SUFFICES ASSUME table # {}
               PROVE  \E v \in 1..Len(graphs) : /\ \A r \in table : r.seen = v
                                               /\ UNION {r.group.members : r \in table} = graphs[v]
                                               /\ \A e \in graphs[v] : Communities!Cardinality(Communities!CommunitiesOf({e})) = 1
    BY DEF Communities!OneBuildShown
  <2>1. PICK v \in 1..Len(graphs) : (\A r \in table : r.seen = v) /\ Communities!Covers({r.group : r \in table}, graphs[v])
    BY DEF ClusterInv, TableFit
  <2>2. /\ \A x : x \in graphs[v] <=> \E g \in {r.group : r \in table} : x \in g.members
        /\ \A g, h \in {r.group : r \in table} : g # h => g.members \cap h.members = {}
    BY <2>1, Covering
  <2>3. /\ \A x : x \in graphs[v] <=> \E r \in table : x \in r.group.members
        /\ \A r, q \in table : r.group # q.group => r.group.members \cap q.group.members = {}
    BY <2>2
  <2>4. UNION {r.group.members : r \in table} = graphs[v]
    BY <2>3
  <2>5. ASSUME NEW e \in graphs[v] PROVE Communities!Cardinality(Communities!CommunitiesOf({e})) = 1
    <3>1. PICK r \in table : e \in r.group.members
      BY <2>3
    <3>2. ASSUME NEW q \in table, e \in q.group.members PROVE q = r
      <4>1. q.group = r.group /\ q.seen = r.seen
        BY <2>1, <2>3, <3>1, <3>2
      <4>2. q \in [group : Communities!Groups, seen : 1..MaxGraphs] /\ r \in [group : Communities!Groups, seen : 1..MaxGraphs]
        BY DEF ClusterInv, ClustersTyped
      <4> QED
        BY <4>1, <4>2
    <3>3. Communities!CommunitiesOf({e}) = {r}
      BY <3>1, <3>2 DEF Communities!CommunitiesOf
    <3> QED
      BY <3>3, SameSize, FS_Singleton
  <2> QED
    BY <2>1, <2>4, <2>5
<1> QED
  BY <1>1, <1>2, <1>3, <1>4

\* CommunitiesWhole, for any number of entities, rebuilds, graph changes, sizes and depths: each entity of the graph a
\* build saw is in exactly one of its communities (EveryEntityPlaced), a community over max_cluster_size could not be
\* split further (SizeHeld), a reader finds the rows of one build (OneBuildShown), and a rebuild never replaces the
\* communities of a newer graph by those of an older one (NeverOlder).
THEOREM CommunitiesAreWhole == RequestsSpec => CommunitiesWhole
<1> DEFINE Inv == part = "communities" => ClusterInv
<1>1. RequestsInit => Inv
  BY ClustersStart, Zenon DEF RequestsInit
<1>2. [RequestsNext]_allVars => part' = part /\ ((part = "communities" /\ Communities!ClusterNext) \/ UNCHANGED clusterVars)
  BY Zenon DEF RequestsNext, allVars
<1>3. Inv /\ [RequestsNext]_allVars => Inv'
  BY <1>2, ClusterStep, ClusterStill
<1>4. Inv => (part = "communities" => Communities!ClusterTypeOK /\ Communities!EveryEntityPlaced /\
                                      Communities!SizeHeld /\ Communities!OneBuildShown)
  BY ClustersGood
<1>5. Inv /\ [RequestsNext]_allVars => [table' \ table # {} => \A r \in table' : r.seen >= newest]_Communities!clusterVars
  <2>1. SUFFICES ASSUME Inv, [RequestsNext]_allVars, ~UNCHANGED Communities!clusterVars, table' \ table # {}
                 PROVE  \A r \in table' : r.seen >= newest
    BY Zenon
  <2>2. ~UNCHANGED clusterVars
    BY <2>1, Zenon DEF clusterVars, Communities!clusterVars
  <2> QED
    BY <1>2, <2>1, <2>2, RowsAreNewer
<1> QED
  BY <1>1, <1>3, <1>4, <1>5, PTL DEF RequestsSpec, CommunitiesWhole, Communities!NeverOlder

-----------------------------------------------------------------------------
(* InstallRun *)

RunPlaces == {"none", "guard", "backup", "confirm", "stop", "delete", "write", "overwrite", "written", "install", "register",
              "leave"}
RunRow == [at : RunPlaces, branch : {"none", "fresh", "idempotent", "force"}, wish : SUBSET Install!Features,
           model : Install!Models, force : BOOLEAN, asks : BOOLEAN, confirmed : BOOLEAN, noticed : BOOLEAN,
           hasBak : BOOLEAN, records : BOOLEAN, extras : SUBSET Install!Extras]
RecordRow == [kept : BOOLEAN, model : Install!Models, flags : SUBSET Install!Features, edited : BOOLEAN]
ServiceRow == [up : BOOLEAN, model : Install!Models]
InstallTyped ==
  /\ conf \in Install!Confs /\ bak \in Install!Confs /\ record \in RecordRow /\ packages \subseteq Install!Extras
  /\ index \subseteq Install!Models /\ service \in ServiceRow /\ run \in RunRow /\ broken \in BOOLEAN /\ crossed \in BOOLEAN

\* Before the config is written, after it, and with the packages and the model still to come.
Early == {"none", "guard", "backup", "confirm", "stop", "delete", "write", "overwrite"}
Late == {"written", "install", "register"}
Loading == {"written", "install"}
Restoring == {"confirm", "stop"}
\* What the branches come to, however often the operator or an interrupt crosses them.
BranchFit ==
  /\ ~conf.there => conf = Install!NoConf
  /\ run.records <=> run.at \notin Early
  /\ run.at \in {"backup", "confirm", "stop", "delete"} => run.branch = "force"
  /\ run.at = "overwrite" => run.branch = "idempotent" /\ conf.there /\ conf.model = run.model
  /\ run.at = "write" => run.branch = "force" \/ (run.branch = "fresh" /\ ~conf.there)
  /\ run.at \in Late => conf.there /\ run.branch # "none"
  /\ (run.at \in Restoring /\ run.hasBak) => bak.there
  /\ (run.at \in Loading /\ run.branch = "idempotent") => bak.there /\ bak.model = conf.model
\* A feature of the config has its package, or the run that wrote it has still to install or revert it.
Covered(c) == \A f \in c.flags : Install!ExtraOf(f) \in packages
FlagsFit ==
  /\ run.at \in Early \cup {"register", "leave"} => Covered(conf)
  /\ run.at = "written" => \A f \in conf.flags : Install!ExtraOf(f) \in packages \/ f \in run.wish
  /\ run.at = "install" => \A f \in conf.flags : Install!ExtraOf(f) \in packages \/ (f \in run.wish /\ Install!ExtraOf(f) \in run.extras)
  /\ (run.at \in Restoring /\ run.hasBak) => Covered(bak)
  /\ (run.at \in Loading /\ run.branch = "idempotent") => Covered(bak)
\* What is served and indexed is of the config's model; a config that is to be given up is not served.
ServedFit ==
  /\ index \subseteq (IF conf.there THEN {conf.model} ELSE {})
  /\ service.up => conf.there /\ service.model = conf.model
  /\ (run.at \in Restoring /\ run.hasBak) => bak = conf
  /\ run.at = "delete" => ~service.up
  /\ run.at = "write" => ~service.up /\ index = {}
  /\ (run.at \in Loading /\ run.branch = "fresh") => ~service.up /\ index = {}
\* An edit is in the config and never in the record, and the run that meets it notices it.
EditFit ==
  /\ record.kept => ~record.edited
  /\ run.at \notin Early => ~conf.edited
  /\ (run.at = "overwrite" /\ conf.edited) => run.noticed
\* The record describes the config that the last run left, which a failed re-run restores.
Describes(c) == record.model = c.model /\ record.flags = c.flags \ Install!GraphKeys
RecordFit ==
  /\ run.at \in Early => Describes(conf)
  /\ (run.at \in Loading /\ run.branch = "idempotent") => Describes(bak)
  /\ (run.at = "overwrite" /\ run.noticed) => conf.edited
RunInv == /\ InstallTyped /\ BranchFit /\ (~broken => FlagsFit) /\ (~crossed => ServedFit /\ EditFit)
          /\ (~broken /\ ~crossed /\ record.kept => RecordFit)

LEMMA RunFacts ==
  ASSUME InstallTyped
  PROVE  /\ run.at \in RunPlaces /\ run.branch \in {"none", "fresh", "idempotent", "force"} /\ run.wish \subseteq Install!Features
         /\ run.model \in Install!Models /\ run.noticed \in BOOLEAN /\ run.hasBak \in BOOLEAN /\ run.records \in BOOLEAN
         /\ run.extras \subseteq Install!Extras /\ run.asks \in BOOLEAN /\ run.confirmed \in BOOLEAN /\ run.force \in BOOLEAN
         /\ conf.there \in BOOLEAN /\ conf.model \in Install!Models /\ conf.flags \subseteq Install!Features /\ conf.edited \in BOOLEAN
         /\ record.kept \in BOOLEAN /\ record.edited \in BOOLEAN
         /\ service.up \in BOOLEAN /\ service.model \in Install!Models
  BY DEF InstallTyped, RunRow, RecordRow, ServiceRow, Install!Confs

LEMMA BlankRows ==
  /\ Install!NoRun \in RunRow /\ Install!NoRun.at = "none" /\ ~Install!NoRun.records /\ ~Install!NoRun.hasBak
  /\ Install!NoRun.branch = "none" /\ ~Install!NoRun.noticed
  /\ Install!NoConf \in Install!Confs /\ ~Install!NoConf.there /\ Install!NoConf.flags = {} /\ ~Install!NoConf.edited
  /\ Install!NoRecord \in RecordRow /\ ~Install!NoRecord.kept
  /\ Install!Stopped \in ServiceRow /\ ~Install!Stopped.up
  BY DEF Install!NoRun, RunRow, RunPlaces, Install!NoConf, Install!Confs, Install!NoRecord, RecordRow, Install!Stopped, ServiceRow,
         Install!Models

LEMMA ExtraRows == /\ \A f : Install!ExtraOf(f) \in Install!Extras
                   /\ \A w \in SUBSET Install!Features : Install!ModelFor(w) \in Install!Models
  BY DEF Install!ExtraOf, Install!Extras, Install!ModelFor, Install!Models

\* The steps of a run that leave everything else alone.
Alone == UNCHANGED <<conf, bak, record, packages, index, service, broken, crossed>>

LEMMA RunParts ==
  ASSUME RunInv
  PROVE  /\ InstallTyped /\ BranchFit /\ (~broken => FlagsFit) /\ (~crossed => ServedFit) /\ (~crossed => EditFit)
         /\ ((~broken /\ ~crossed /\ record.kept) => RecordFit)
  BY DEF RunInv

\* Out of a run that has written nothing.
LEMMA LeaveEarly == ASSUME RunInv, run.at \in Early, Install!Leaves \/ run' = Install!NoRun PROVE run' = Install!NoRun
  BY RunParts DEF BranchFit, Install!Leaves, Install!Goes

LEMMA LeaveLate ==
  ASSUME RunInv, run.at \notin Early, Install!Leaves
  PROVE  /\ run' \in RunRow /\ run'.at = "leave" /\ run'.records
  BY RunParts DEF BranchFit, Install!Leaves, Install!Goes, InstallTyped, RunRow, RunPlaces

LEMMA OutEarly == ASSUME RunInv, run.at \in Early, run' = Install!NoRun, Alone PROVE RunInv'
<1>1. InstallTyped' /\ run'.at = "none" /\ ~run'.records /\ UNCHANGED <<conf, bak, record, packages, index, service, broken, crossed>>
  BY BlankRows, RunParts DEF InstallTyped, Alone
<1>2. BranchFit'
  BY <1>1, RunParts DEF BranchFit, Early, Late, Loading, Restoring
<1>3. ~broken' => FlagsFit'
  BY <1>1, RunParts DEF FlagsFit, Covered, Early, Loading, Restoring
<1>4. ~crossed' => ServedFit' /\ EditFit'
  BY <1>1, RunParts DEF ServedFit, EditFit, Early, Loading, Restoring
<1>5. (~broken' /\ ~crossed' /\ record'.kept) => RecordFit'
  BY <1>1, RunParts DEF RecordFit, Describes, Early, Loading
<1> QED
  BY <1>1, <1>2, <1>3, <1>4, <1>5 DEF RunInv

LEMMA BeginRunKeeps ==
  ASSUME RunInv, NEW wish \in SUBSET Install!Features, NEW force \in BOOLEAN, NEW asks \in BOOLEAN, Install!Begin(wish, force, asks)
  PROVE  RunInv'
<1> DEFINE r == [Install!NoRun EXCEPT !.at = "guard", !.wish = wish, !.model = Install!ModelFor(wish), !.force = force, !.asks = asks]
<1>1. r \in RunRow /\ r.at = "guard" /\ ~r.records
  BY RunParts, RunFacts, ExtraRows, BlankRows DEF InstallTyped, RunRow, RunPlaces
<1>2. run.at = "none" /\ run' = r /\ UNCHANGED <<conf, bak, record, packages, index, service, broken, crossed>>
  BY RunParts, RunFacts, ExtraRows, BlankRows DEF Install!Begin, Install!At, Install!Goes
<1> HIDE DEF r
<1>3. InstallTyped'
  BY <1>1, <1>2, RunParts, RunFacts, BlankRows, ExtraRows DEF InstallTyped
<1>4. BranchFit'
  BY <1>1, <1>2, RunParts, RunFacts DEF BranchFit, Early, Late, Loading, Restoring
<1>5. ~broken' => FlagsFit'
  BY <1>1, <1>2, RunParts, RunFacts DEF FlagsFit, Covered, Early, Loading, Restoring
<1>6. ~crossed' => ServedFit' /\ EditFit'
  BY <1>1, <1>2, RunParts, RunFacts DEF ServedFit, EditFit, BranchFit, Early, Loading, Restoring
<1>7. (~broken' /\ ~crossed' /\ record'.kept) => RecordFit'
  BY <1>1, <1>2, RunParts, RunFacts DEF RecordFit, Describes, ServedFit, EditFit, Early, Loading, Restoring
<1> QED
  BY <1>3, <1>4, <1>5, <1>6, <1>7 DEF RunInv

LEMMA DegradeKeeps == ASSUME RunInv, Install!Degrade PROVE RunInv'
<1> DEFINE r == [run EXCEPT !.wish = run.wish \ {"multilingual"}]
<1>1. r \in RunRow /\ r.at = run.at /\ r.records = run.records /\ r.branch = run.branch /\ r.hasBak = run.hasBak /\ r.noticed = run.noticed
  BY RunParts, RunFacts, ExtraRows DEF InstallTyped, RunRow, RunPlaces
<1>2. run.at = "guard" /\ run' = r /\ UNCHANGED <<conf, bak, record, packages, index, service, broken, crossed>>
  BY RunParts, RunFacts, ExtraRows DEF Install!Degrade, Install!At, Install!Goes, Install!Rest
<1> HIDE DEF r
<1>3. InstallTyped'
  BY <1>1, <1>2, RunParts, RunFacts, BlankRows, ExtraRows DEF InstallTyped
<1>4. BranchFit'
  BY <1>1, <1>2, RunParts, RunFacts DEF BranchFit, Early, Late, Loading, Restoring
<1>5. ~broken' => FlagsFit'
  BY <1>1, <1>2, RunParts, RunFacts DEF FlagsFit, Covered, Early, Loading, Restoring
<1>6. ~crossed' => ServedFit' /\ EditFit'
  BY <1>1, <1>2, RunParts, RunFacts DEF ServedFit, EditFit, BranchFit, Early, Loading, Restoring
<1>7. (~broken' /\ ~crossed' /\ record'.kept) => RecordFit'
  BY <1>1, <1>2, RunParts, RunFacts DEF RecordFit, Describes, ServedFit, EditFit, Early, Loading, Restoring
<1> QED
  BY <1>3, <1>4, <1>5, <1>6, <1>7 DEF RunInv

LEMMA ForceKeeps == ASSUME RunInv, NEW sure \in BOOLEAN, run.at = "guard", Alone,
         run' = [run EXCEPT !.at = "backup", !.branch = "force", !.confirmed = sure] PROVE RunInv'
<1> DEFINE r == [run EXCEPT !.at = "backup", !.branch = "force", !.confirmed = sure]
<1>1. r \in RunRow /\ r.at = "backup" /\ r.branch = "force" /\ r.records = run.records
  BY RunParts, RunFacts, ExtraRows DEF InstallTyped, RunRow, RunPlaces
<1>2. run.at = "guard" /\ run' = r /\ UNCHANGED <<conf, bak, record, packages, index, service, broken, crossed>>
  BY RunParts, RunFacts, ExtraRows DEF Alone
<1> HIDE DEF r
<1>3. InstallTyped'
  BY <1>1, <1>2, RunParts, RunFacts, BlankRows, ExtraRows DEF InstallTyped
<1>4. BranchFit'
  BY <1>1, <1>2, RunParts, RunFacts DEF BranchFit, Early, Late, Loading, Restoring
<1>5. ~broken' => FlagsFit'
  BY <1>1, <1>2, RunParts, RunFacts DEF FlagsFit, Covered, Early, Loading, Restoring
<1>6. ~crossed' => ServedFit' /\ EditFit'
  BY <1>1, <1>2, RunParts, RunFacts DEF ServedFit, EditFit, BranchFit, Early, Loading, Restoring
<1>7. (~broken' /\ ~crossed' /\ record'.kept) => RecordFit'
  BY <1>1, <1>2, RunParts, RunFacts DEF RecordFit, Describes, ServedFit, EditFit, Early, Loading, Restoring
<1> QED
  BY <1>3, <1>4, <1>5, <1>6, <1>7 DEF RunInv

LEMMA FreshKeeps == ASSUME RunInv, run.at = "guard", ~conf.there, Alone, run' = [run EXCEPT !.at = "write", !.branch = "fresh"] PROVE RunInv'
<1> DEFINE r == [run EXCEPT !.at = "write", !.branch = "fresh"]
<1>1. r \in RunRow /\ r.at = "write" /\ r.branch = "fresh" /\ r.records = run.records
  BY RunParts, RunFacts, ExtraRows DEF InstallTyped, RunRow, RunPlaces
<1>2. run.at = "guard" /\ ~conf.there /\ run' = r /\ UNCHANGED <<conf, bak, record, packages, index, service, broken, crossed>>
  BY RunParts, RunFacts, ExtraRows DEF Alone
<1> HIDE DEF r
<1>3. InstallTyped'
  BY <1>1, <1>2, RunParts, RunFacts, BlankRows, ExtraRows DEF InstallTyped
<1>4. BranchFit'
  BY <1>1, <1>2, RunParts, RunFacts DEF BranchFit, Early, Late, Loading, Restoring
<1>5. ~broken' => FlagsFit'
  BY <1>1, <1>2, RunParts, RunFacts DEF FlagsFit, Covered, Early, Loading, Restoring
<1>6. ~crossed' => ServedFit' /\ EditFit'
  BY <1>1, <1>2, RunParts, RunFacts DEF ServedFit, EditFit, BranchFit, Early, Loading, Restoring
<1>7. (~broken' /\ ~crossed' /\ record'.kept) => RecordFit'
  BY <1>1, <1>2, RunParts, RunFacts DEF RecordFit, Describes, ServedFit, EditFit, Early, Loading, Restoring
<1> QED
  BY <1>3, <1>4, <1>5, <1>6, <1>7 DEF RunInv

LEMMA AgainKeeps == ASSUME RunInv, run.at = "guard", conf.there, conf.model = run.model, Alone,
         run' = [run EXCEPT !.at = "overwrite", !.branch = "idempotent", !.noticed = Install!HandEdited] PROVE RunInv'
<1>1. /\ Install!HandEdited \in BOOLEAN
      /\ (conf.edited /\ (record.kept => ~record.edited)) => Install!HandEdited
      /\ (record.kept /\ ~record.edited /\ Describes(conf) /\ Install!HandEdited) => conf.edited
  <2>1. record = [kept |-> record.kept, model |-> record.model, flags |-> record.flags, edited |-> record.edited]
    BY RunParts DEF InstallTyped, RecordRow
  <2>2. Install!HandEdited \in BOOLEAN
    BY RunParts, RunFacts DEF Install!HandEdited, Install!DiffersFromBaseline
  <2>3. conf.edited /\ ~record.kept => Install!HandEdited
    BY RunParts, RunFacts DEF Install!HandEdited, Install!DiffersFromBaseline
  <2>4. ASSUME record.kept, conf.edited, ~record.edited PROVE Install!Managed(conf) # record
    <3>1. Install!Managed(conf).edited = conf.edited
      BY DEF Install!Managed
    <3> QED
      BY <2>4, <3>1
  <2>5. ASSUME record.kept, ~record.edited, Describes(conf), ~conf.edited PROVE Install!Managed(conf) = record
    <3>1. record.kept = TRUE /\ record.edited = FALSE /\ conf.edited = FALSE
      BY <2>5, RunParts, RunFacts
    <3> QED
      BY <2>1, <2>5, <3>1 DEF Install!Managed, Describes, Install!GraphKeys
  <2>6. record.kept => (Install!HandEdited <=> Install!Managed(conf) # record)
    BY DEF Install!HandEdited
  <2> QED
    BY <2>2, <2>3, <2>4, <2>5, <2>6, RunParts, RunFacts
<1> DEFINE r == [run EXCEPT !.at = "overwrite", !.branch = "idempotent", !.noticed = Install!HandEdited]
<1>2. r \in RunRow /\ r.at = "overwrite" /\ r.branch = "idempotent" /\ r.noticed = Install!HandEdited /\
      r.records = run.records /\ r.model = run.model
  BY RunParts, RunFacts, ExtraRows, <1>1 DEF InstallTyped, RunRow, RunPlaces
<1>3. run.at = "guard" /\ conf.there /\ conf.model = run.model /\ run' = r /\
      UNCHANGED <<conf, bak, record, packages, index, service, broken, crossed>>
  BY RunParts, RunFacts, ExtraRows, <1>1 DEF Alone
<1> HIDE DEF r
<1>4. InstallTyped'
  BY <1>2, <1>3, RunParts, RunFacts, BlankRows, ExtraRows DEF InstallTyped
<1>5. BranchFit'
  BY <1>2, <1>3, RunParts, RunFacts DEF BranchFit, Early, Late, Loading, Restoring
<1>6. ~broken' => FlagsFit'
  BY <1>2, <1>3, RunParts, RunFacts DEF FlagsFit, Covered, Early, Loading, Restoring
<1>7. ~crossed' => ServedFit' /\ EditFit'
  BY <1>1, <1>2, <1>3, RunParts, RunFacts DEF ServedFit, EditFit, BranchFit, Early, Loading, Restoring
<1>8. (~broken' /\ ~crossed' /\ record'.kept) => RecordFit'
  BY <1>1, <1>2, <1>3, RunParts, RunFacts DEF RecordFit, Describes, ServedFit, EditFit, Early, Loading, Restoring
<1> QED
  BY <1>4, <1>5, <1>6, <1>7, <1>8 DEF RunInv

LEMMA GuardKeeps == ASSUME RunInv, Install!Guard PROVE RunInv'
<1>1. run.at = "guard" /\ Alone
  BY DEF Install!Guard, Install!At, Install!Rest, Alone
<1>2. CASE Install!Leaves
  BY <1>1, <1>2, LeaveEarly, OutEarly DEF Early
<1>3. CASE \/ run' = [run EXCEPT !.at = "backup", !.branch = "force", !.confirmed = TRUE]
           \/ run' = [run EXCEPT !.at = "backup", !.branch = "force"]
  <2>1. run.confirmed \in BOOLEAN /\ [run EXCEPT !.confirmed = run.confirmed] = run
    BY RunParts, RunFacts DEF InstallTyped, RunRow
  <2>2. [run EXCEPT !.at = "backup", !.branch = "force"] = [run EXCEPT !.at = "backup", !.branch = "force", !.confirmed = run.confirmed]
    BY RunParts DEF InstallTyped, RunRow
  <2> QED
    BY <1>1, <1>3, <2>1, <2>2, ForceKeeps
<1>4. CASE ~conf.there /\ run' = [run EXCEPT !.at = "write", !.branch = "fresh"]
  BY <1>1, <1>4, FreshKeeps
<1>5. CASE conf.there /\ Install!FitsIndex /\ run' = [run EXCEPT !.at = "overwrite", !.branch = "idempotent", !.noticed = Install!HandEdited]
  BY <1>1, <1>5, AgainKeeps DEF Install!FitsIndex
<1> QED
  BY <1>2, <1>3, <1>4, <1>5 DEF Install!Guard, Install!Goes

LEMMA BackUpKeeps == ASSUME RunInv, Install!BackUp PROVE RunInv'
<1> DEFINE r == [run EXCEPT !.at = IF run.asks /\ ~run.confirmed THEN "confirm" ELSE "stop", !.hasBak = conf.there]
<1>1. r \in RunRow /\ r.at \in Restoring /\ r.hasBak = conf.there /\ r.records = run.records /\ r.branch = run.branch
  BY RunParts, RunFacts, ExtraRows DEF InstallTyped, RunRow, RunPlaces, Restoring
<1>2. run.at = "backup" /\ run' = r /\ bak' = (IF conf.there THEN conf ELSE bak) /\
      UNCHANGED <<conf, record, packages, index, service, broken, crossed>>
  BY <1>1, RunParts, RunFacts, ExtraRows, BlankRows DEF Install!BackUp, Install!At, Install!Goes, Install!Rest
<1> HIDE DEF r
<1>3. InstallTyped'
  BY <1>1, <1>2, RunParts, RunFacts, BlankRows, ExtraRows DEF InstallTyped
<1>4. BranchFit'
  BY <1>1, <1>2, RunParts, RunFacts, BlankRows DEF BranchFit, Early, Late, Loading, Restoring
<1>5. ~broken' => FlagsFit'
  BY <1>1, <1>2, RunParts, RunFacts, BlankRows DEF FlagsFit, BranchFit, Covered, Early, Loading, Restoring
<1>6. ~crossed' => ServedFit' /\ EditFit'
  BY <1>1, <1>2, RunParts, RunFacts, BlankRows DEF ServedFit, EditFit, BranchFit, Early, Late, Loading, Restoring
<1>7. (~broken' /\ ~crossed' /\ record'.kept) => RecordFit'
  BY <1>1, <1>2, RunParts, RunFacts, BlankRows
     DEF RecordFit, Describes, ServedFit, EditFit, BranchFit, Early, Loading, Restoring
<1> QED
  BY <1>3, <1>4, <1>5, <1>6, <1>7 DEF RunInv

LEMMA AgreedKeeps == ASSUME RunInv, run.at = "confirm", run' = [run EXCEPT !.at = "stop"], Alone PROVE RunInv'
<1> DEFINE r == [run EXCEPT !.at = "stop"]
<1>1. r \in RunRow /\ r.at = "stop" /\ r.records = run.records /\ r.branch = run.branch /\ r.hasBak = run.hasBak
  BY RunParts, RunFacts, ExtraRows DEF InstallTyped, RunRow, RunPlaces
<1>2. run.at = "confirm" /\ run' = r /\ UNCHANGED <<conf, bak, record, packages, index, service, broken, crossed>>
  BY <1>1, RunParts, RunFacts, ExtraRows, BlankRows DEF Alone
<1> HIDE DEF r
<1>3. InstallTyped'
  BY <1>1, <1>2, RunParts, RunFacts, BlankRows, ExtraRows DEF InstallTyped
<1>4. BranchFit'
  BY <1>1, <1>2, RunParts, RunFacts, BlankRows DEF BranchFit, Early, Late, Loading, Restoring
<1>5. ~broken' => FlagsFit'
  BY <1>1, <1>2, RunParts, RunFacts, BlankRows DEF FlagsFit, BranchFit, Covered, Early, Loading, Restoring
<1>6. ~crossed' => ServedFit' /\ EditFit'
  BY <1>1, <1>2, RunParts, RunFacts, BlankRows DEF ServedFit, EditFit, BranchFit, Early, Late, Loading, Restoring
<1>7. (~broken' /\ ~crossed' /\ record'.kept) => RecordFit'
  BY <1>1, <1>2, RunParts, RunFacts, BlankRows
     DEF RecordFit, Describes, ServedFit, EditFit, BranchFit, Early, Loading, Restoring
<1> QED
  BY <1>3, <1>4, <1>5, <1>6, <1>7 DEF RunInv

\* The config as it was before the backup.
LEMMA RestoreKeeps == ASSUME RunInv, run.at \in Restoring, run' = Install!NoRun, conf' = Install!Restored,
         UNCHANGED <<bak, record, packages, index, service, broken, crossed>> PROVE RunInv'
<1>1. run.at \in Restoring /\ run' = Install!NoRun /\ conf' = (IF run.hasBak THEN bak ELSE conf) /\
      UNCHANGED <<bak, record, packages, index, service, broken, crossed>>
  BY RunParts, RunFacts, ExtraRows, BlankRows DEF Install!Restored
<1>2. InstallTyped'
  BY <1>1, RunParts, RunFacts, BlankRows, ExtraRows DEF InstallTyped
<1>3. BranchFit'
  BY <1>1, RunParts, RunFacts, BlankRows DEF BranchFit, Early, Late, Loading, Restoring
<1>4. ~broken' => FlagsFit'
  BY <1>1, RunParts, RunFacts, BlankRows DEF FlagsFit, BranchFit, Covered, Early, Loading, Restoring
<1>5. ~crossed' => ServedFit' /\ EditFit'
  BY <1>1, RunParts, RunFacts, BlankRows DEF ServedFit, EditFit, BranchFit, Early, Late, Loading, Restoring
<1>6. (~broken' /\ ~crossed' /\ record'.kept) => RecordFit'
  BY <1>1, RunParts, RunFacts, BlankRows
     DEF RecordFit, Describes, ServedFit, EditFit, BranchFit, Early, Loading, Restoring
<1> QED
  BY <1>2, <1>3, <1>4, <1>5, <1>6 DEF RunInv

LEMMA ConfirmKeeps == ASSUME RunInv, Install!Confirm PROVE RunInv'
<1>1. run.at = "confirm" /\ UNCHANGED <<bak, record, packages, index, service, broken, crossed>>
  BY DEF Install!Confirm, Install!At, Install!Rest
<1>2. CASE run' = [run EXCEPT !.at = "stop"] /\ UNCHANGED conf
  BY <1>1, <1>2, AgreedKeeps DEF Alone
<1>3. CASE conf' = Install!Restored /\ Install!Leaves
  BY <1>1, <1>3, LeaveEarly, RestoreKeeps DEF Early, Restoring
<1> QED
  BY <1>2, <1>3 DEF Install!Confirm, Install!Goes

LEMMA StoppedKeeps == ASSUME RunInv, run.at = "stop", run' = [run EXCEPT !.at = "delete"], service' \in {service, Install!Stopped},
         crossed' \in BOOLEAN, ~crossed' => (~crossed /\ service' = Install!Stopped), UNCHANGED <<conf, bak, record, packages, index, broken>>
  PROVE  RunInv'
<1> DEFINE r == [run EXCEPT !.at = "delete"]
<1>1. r \in RunRow /\ r.at = "delete" /\ r.records = run.records /\ r.branch = run.branch
  BY RunParts, RunFacts, ExtraRows DEF InstallTyped, RunRow, RunPlaces
<1>2. /\ run.at = "stop" /\ run' = r /\ UNCHANGED <<conf, bak, record, packages, index, broken>>
      /\ service' \in {service, Install!Stopped} /\ crossed' \in BOOLEAN /\ (~crossed' => (~crossed /\ service' = Install!Stopped))
  BY <1>1, RunParts, RunFacts, ExtraRows, BlankRows DEF Restoring
<1> HIDE DEF r
<1>3. InstallTyped'
  BY <1>1, <1>2, RunParts, RunFacts, BlankRows, ExtraRows DEF InstallTyped
<1>4. BranchFit'
  BY <1>1, <1>2, RunParts, RunFacts, BlankRows DEF BranchFit, Early, Late, Loading, Restoring
<1>5. ~broken' => FlagsFit'
  BY <1>1, <1>2, RunParts, RunFacts, BlankRows DEF FlagsFit, BranchFit, Covered, Early, Loading, Restoring
<1>6. ~crossed' => ServedFit' /\ EditFit'
  BY <1>1, <1>2, RunParts, RunFacts, BlankRows DEF ServedFit, EditFit, BranchFit, Early, Late, Loading, Restoring
<1>7. (~broken' /\ ~crossed' /\ record'.kept) => RecordFit'
  BY <1>1, <1>2, RunParts, RunFacts, BlankRows
     DEF RecordFit, Describes, ServedFit, EditFit, BranchFit, Early, Loading, Restoring
<1> QED
  BY <1>3, <1>4, <1>5, <1>6, <1>7 DEF RunInv

LEMMA StopServiceKeeps == ASSUME RunInv, Install!StopService PROVE RunInv'
<1>1. run.at = "stop" /\ UNCHANGED <<bak, record, packages, index, broken>>
  BY DEF Install!StopService, Install!At
<1>2. CASE service' = Install!Stopped /\ run' = [run EXCEPT !.at = "delete"] /\ UNCHANGED <<conf, crossed>>
  BY <1>1, <1>2, StoppedKeeps, RunParts DEF InstallTyped
<1>3. CASE conf' = Install!Restored /\ Install!Leaves /\ UNCHANGED <<service, crossed>>
  BY <1>1, <1>3, LeaveEarly, RestoreKeeps DEF Early, Restoring
<1>4. CASE run' = [run EXCEPT !.at = "delete"] /\ crossed' = TRUE /\ UNCHANGED <<service, conf>>
  BY <1>1, <1>4, StoppedKeeps
<1> QED
  BY <1>2, <1>3, <1>4 DEF Install!StopService, Install!Goes

LEMMA DeletedKeeps ==
  ASSUME RunInv, run.at = "delete", run' = [run EXCEPT !.at = "write"], index' = {}, UNCHANGED <<conf, bak, record, packages, service, broken, crossed>>
  PROVE  RunInv'
<1> DEFINE r == [run EXCEPT !.at = "write"]
<1>1. r \in RunRow /\ r.at = "write" /\ r.records = run.records /\ r.branch = run.branch
  BY RunParts, RunFacts, ExtraRows DEF InstallTyped, RunRow, RunPlaces
<1>2. run.at = "delete" /\ run' = r /\ index' = {} /\ UNCHANGED <<conf, bak, record, packages, service, broken, crossed>>
  BY <1>1, RunParts, RunFacts, ExtraRows, BlankRows DEF Restoring
<1> HIDE DEF r
<1>3. InstallTyped'
  BY <1>1, <1>2, RunParts, RunFacts, BlankRows, ExtraRows DEF InstallTyped
<1>4. BranchFit'
  BY <1>1, <1>2, RunParts, RunFacts, BlankRows DEF BranchFit, Early, Late, Loading, Restoring
<1>5. ~broken' => FlagsFit'
  BY <1>1, <1>2, RunParts, RunFacts, BlankRows DEF FlagsFit, BranchFit, Covered, Early, Loading, Restoring
<1>6. ~crossed' => ServedFit' /\ EditFit'
  BY <1>1, <1>2, RunParts, RunFacts, BlankRows DEF ServedFit, EditFit, BranchFit, Early, Late, Loading, Restoring
<1>7. (~broken' /\ ~crossed' /\ record'.kept) => RecordFit'
  BY <1>1, <1>2, RunParts, RunFacts, BlankRows
     DEF RecordFit, Describes, ServedFit, EditFit, BranchFit, Early, Loading, Restoring
<1> QED
  BY <1>3, <1>4, <1>5, <1>6, <1>7 DEF RunInv

LEMMA DeleteDatabaseKeeps == ASSUME RunInv, Install!DeleteDatabase PROVE RunInv'
<1>1. run.at = "delete" /\ UNCHANGED <<conf, bak, record, packages, service, broken, crossed>>
  BY DEF Install!DeleteDatabase, Install!At, Install!Rest
<1>2. CASE index' = {} /\ run' = [run EXCEPT !.at = "write"]
  BY <1>1, <1>2, DeletedKeeps
<1>3. CASE UNCHANGED index /\ Install!Leaves
  BY <1>1, <1>3, LeaveEarly, OutEarly DEF Early, Alone
<1> QED
  BY <1>2, <1>3 DEF Install!DeleteDatabase, Install!Goes

LEMMA WrittenKeeps == ASSUME RunInv, run.at = "write", run' = [run EXCEPT !.at = "written", !.records = TRUE], conf' = Install!Written(conf),
         bak' = (IF run.branch = "fresh" THEN conf' ELSE bak), UNCHANGED <<record, packages, index, service, broken, crossed>> PROVE RunInv'
<1> DEFINE r == [run EXCEPT !.at = "written", !.records = TRUE]
<1>1. r \in RunRow /\ r.at = "written" /\ r.records /\ r.branch = run.branch /\ r.wish = run.wish
  BY RunParts, RunFacts, ExtraRows DEF InstallTyped, RunRow, RunPlaces
<1> DEFINE c == Install!Written(conf)
<1>2. /\ c \in Install!Confs /\ c.there /\ ~c.edited /\ c.model = (IF run.branch = "fresh" THEN Install!ModelFor(run.wish) ELSE run.model)
      /\ c.flags = run.wish \cup (conf.flags \cap Install!GraphKeys)
  BY RunParts, RunFacts, ExtraRows DEF Install!Written, Install!Overlaid, Install!Confs
<1>3. /\ run.at = "write" /\ run' = r /\ conf' = c /\ bak' = (IF run.branch = "fresh" THEN c ELSE bak)
      /\ UNCHANGED <<record, packages, index, service, broken, crossed>>
  BY <1>1, RunParts, RunFacts, ExtraRows, BlankRows DEF Restoring
<1> HIDE DEF r, c
<1>4. InstallTyped'
  BY <1>1, <1>2, <1>3, RunParts, RunFacts, BlankRows, ExtraRows DEF InstallTyped
<1>5. BranchFit'
  BY <1>1, <1>2, <1>3, RunParts, RunFacts, BlankRows DEF BranchFit, Early, Late, Loading, Restoring
<1>6. ~broken' => FlagsFit'
  BY <1>1, <1>2, <1>3, RunParts, RunFacts, BlankRows DEF FlagsFit, BranchFit, Covered, Early, Loading, Restoring
<1>7. ~crossed' => ServedFit' /\ EditFit'
  BY <1>1, <1>2, <1>3, RunParts, RunFacts, BlankRows DEF ServedFit, EditFit, BranchFit, Early, Late, Loading, Restoring
<1>8. (~broken' /\ ~crossed' /\ record'.kept) => RecordFit'
  BY <1>1, <1>2, <1>3, RunParts, RunFacts, BlankRows
     DEF RecordFit, Describes, ServedFit, EditFit, BranchFit, Early, Loading, Restoring
<1> QED
  BY <1>4, <1>5, <1>6, <1>7, <1>8 DEF RunInv

LEMMA WriteConfigKeeps == ASSUME RunInv, Install!WriteConfig PROVE RunInv'
<1>1. run.at = "write" /\ UNCHANGED <<record, packages, index, service, broken, crossed>>
  BY DEF Install!WriteConfig, Install!At, Install!Rest
<1>2. CASE /\ conf' = Install!Written(conf) /\ bak' = (IF run.branch = "fresh" THEN conf' ELSE bak)
           /\ run' = [run EXCEPT !.at = "written", !.records = TRUE]
  BY <1>1, <1>2, WrittenKeeps
<1>3. CASE Install!Leaves /\ UNCHANGED <<conf, bak>>
  BY <1>1, <1>3, LeaveEarly, OutEarly DEF Early, Alone
<1> QED
  BY <1>2, <1>3 DEF Install!WriteConfig, Install!Goes

LEMMA OverwrittenKeeps == ASSUME RunInv, run.at = "overwrite", run' = [run EXCEPT !.at = "written", !.records = TRUE], conf' = Install!Written(conf),
         bak' = conf, UNCHANGED <<record, packages, index, service, broken, crossed>> PROVE RunInv'
<1> DEFINE r == [run EXCEPT !.at = "written", !.records = TRUE]
<1>1. r \in RunRow /\ r.at = "written" /\ r.records /\ r.branch = run.branch /\ r.wish = run.wish
  BY RunParts, RunFacts, ExtraRows DEF InstallTyped, RunRow, RunPlaces
<1> DEFINE c == Install!Written(conf)
<1>2. /\ c \in Install!Confs /\ c.there /\ ~c.edited /\ c.model = (IF run.branch = "fresh" THEN Install!ModelFor(run.wish) ELSE run.model)
      /\ c.flags = run.wish \cup (conf.flags \cap Install!GraphKeys)
  BY RunParts, RunFacts, ExtraRows DEF Install!Written, Install!Overlaid, Install!Confs
<1>3. /\ run.at = "overwrite" /\ run' = r /\ conf' = c /\ bak' = conf
      /\ UNCHANGED <<record, packages, index, service, broken, crossed>>
  BY <1>1, RunParts, RunFacts, ExtraRows, BlankRows DEF Restoring
<1> HIDE DEF r, c
<1>4. InstallTyped'
  BY <1>1, <1>2, <1>3, RunParts, RunFacts, BlankRows, ExtraRows DEF InstallTyped
<1>5. BranchFit'
  BY <1>1, <1>2, <1>3, RunParts, RunFacts, BlankRows DEF BranchFit, Early, Late, Loading, Restoring
<1>6. ~broken' => FlagsFit'
  BY <1>1, <1>2, <1>3, RunParts, RunFacts, BlankRows DEF FlagsFit, BranchFit, Covered, Early, Loading, Restoring
<1>7. ~crossed' => ServedFit' /\ EditFit'
  BY <1>1, <1>2, <1>3, RunParts, RunFacts, BlankRows DEF ServedFit, EditFit, BranchFit, Early, Late, Loading, Restoring
<1>8. (~broken' /\ ~crossed' /\ record'.kept) => RecordFit'
  BY <1>1, <1>2, <1>3, RunParts, RunFacts, BlankRows
     DEF RecordFit, Describes, ServedFit, EditFit, BranchFit, Early, Loading, Restoring
<1> QED
  BY <1>4, <1>5, <1>6, <1>7, <1>8 DEF RunInv

LEMMA OverwriteKeeps == ASSUME RunInv, Install!Overwrite PROVE RunInv'
<1>1. run.at = "overwrite" /\ UNCHANGED <<record, packages, index, service, broken, crossed>>
  BY DEF Install!Overwrite, Install!At, Install!Rest
<1>2. CASE bak' = conf /\ conf' = Install!Written(conf) /\ run' = [run EXCEPT !.at = "written", !.records = TRUE]
  BY <1>1, <1>2, OverwrittenKeeps
<1>3. CASE Install!Leaves /\ UNCHANGED <<conf, bak>>
  BY <1>1, <1>3, LeaveEarly, OutEarly DEF Early, Alone
<1> QED
  BY <1>2, <1>3 DEF Install!Overwrite, Install!Goes

LEMMA AbortKeeps == ASSUME RunInv, Install!Abort PROVE RunInv'
<1> DEFINE c == Install!Reverted(conf, run.wish)
<1>1. c \in Install!Confs /\ c.there = conf.there /\ c.model = conf.model /\ c.edited = conf.edited /\ c.flags = conf.flags \ run.wish
  BY RunParts DEF InstallTyped, Install!Reverted, Install!Confs
<1>2. /\ run.at = "written" /\ conf' = c /\ UNCHANGED <<bak, record, packages, index, service, broken, crossed>>
      /\ run' \in RunRow /\ run'.at = "leave" /\ run'.records
  BY <1>1, RunParts, RunFacts, ExtraRows, BlankRows, LeaveLate DEF Install!Abort, Early, Install!At, Install!Goes, Install!Rest
<1> HIDE DEF c
<1>3. InstallTyped'
  BY <1>1, <1>2, RunParts, RunFacts, BlankRows, ExtraRows DEF InstallTyped
<1>4. BranchFit'
  BY <1>1, <1>2, RunParts, RunFacts, BlankRows DEF BranchFit, Early, Late, Loading, Restoring
<1>5. ~broken' => FlagsFit'
  BY <1>1, <1>2, RunParts, RunFacts, BlankRows DEF FlagsFit, BranchFit, Covered, Early, Loading, Restoring
<1>6. ~crossed' => ServedFit' /\ EditFit'
  BY <1>1, <1>2, RunParts, RunFacts, BlankRows DEF ServedFit, EditFit, BranchFit, Early, Late, Loading, Restoring
<1>7. (~broken' /\ ~crossed' /\ record'.kept) => RecordFit'
  BY <1>1, <1>2, RunParts, RunFacts, BlankRows
     DEF RecordFit, Describes, ServedFit, EditFit, BranchFit, Early, Loading, Restoring
<1> QED
  BY <1>3, <1>4, <1>5, <1>6, <1>7 DEF RunInv

LEMMA ProceedKeeps == ASSUME RunInv, Install!Proceed PROVE RunInv'
<1> DEFINE es == {Install!ExtraOf(f) : f \in run.wish}
<1>1. es \in SUBSET Install!Extras /\ \A f \in run.wish : Install!ExtraOf(f) \in es
  BY ExtraRows
<1> DEFINE r == [run EXCEPT !.at = "install", !.extras = es]
<1>2. run.at = "written" /\ run' = r /\ UNCHANGED <<conf, bak, record, packages, index, service, broken, crossed>>
  BY DEF Install!Proceed, Install!At, Install!Goes, Install!Rest
<1> HIDE DEF es
<1>3. r \in RunRow /\ r.at = "install" /\ r.extras = es /\ r.records = run.records /\ r.branch = run.branch /\ r.wish = run.wish
  BY <1>1, RunParts, RunFacts DEF InstallTyped, RunRow, RunPlaces
<1> HIDE DEF r
<1>4. InstallTyped'
  BY <1>1, <1>2, <1>3, RunParts, RunFacts, BlankRows, ExtraRows DEF InstallTyped
<1>5. BranchFit'
  BY <1>1, <1>2, <1>3, RunParts, RunFacts, BlankRows DEF BranchFit, Early, Late, Loading, Restoring
<1>6. ~broken' => FlagsFit'
  BY <1>1, <1>2, <1>3, RunParts, RunFacts, BlankRows DEF FlagsFit, BranchFit, Covered, Early, Loading, Restoring
<1>7. ~crossed' => ServedFit' /\ EditFit'
  BY <1>1, <1>2, <1>3, RunParts, RunFacts, BlankRows DEF ServedFit, EditFit, BranchFit, Early, Late, Loading, Restoring
<1>8. (~broken' /\ ~crossed' /\ record'.kept) => RecordFit'
  BY <1>1, <1>2, <1>3, RunParts, RunFacts, BlankRows
     DEF RecordFit, Describes, ServedFit, EditFit, BranchFit, Early, Loading, Restoring
<1> QED
  BY <1>4, <1>5, <1>6, <1>7, <1>8 DEF RunInv

LEMMA InstalledKeeps == ASSUME RunInv, NEW e \in Install!Extras, run.at = "install", packages' = packages \cup {e},
         run' = [run EXCEPT !.extras = run.extras \ {e}], UNCHANGED <<conf, bak, record, index, service, broken, crossed>> PROVE RunInv'
<1> DEFINE r == [run EXCEPT !.extras = run.extras \ {e}]
<1>1. r \in RunRow /\ r.extras = run.extras \ {e} /\ r.at = run.at /\ r.records = run.records /\ r.branch = run.branch /\ r.wish = run.wish
  BY RunParts, RunFacts, ExtraRows DEF InstallTyped, RunRow, RunPlaces
<1>2. run.at = "install" /\ run' = r /\ packages' = packages \cup {e} /\ UNCHANGED <<conf, bak, record, index, service, broken, crossed>>
  BY <1>1, RunParts, RunFacts, ExtraRows, BlankRows DEF Restoring
<1> HIDE DEF r
<1>3. InstallTyped'
  BY <1>1, <1>2, RunParts, RunFacts, BlankRows, ExtraRows DEF InstallTyped
<1>4. BranchFit'
  BY <1>1, <1>2, RunParts, RunFacts, BlankRows DEF BranchFit, Early, Late, Loading, Restoring
<1>5. ~broken' => FlagsFit'
  BY <1>1, <1>2, RunParts, RunFacts, BlankRows DEF FlagsFit, BranchFit, Covered, Early, Loading, Restoring
<1>6. ~crossed' => ServedFit' /\ EditFit'
  BY <1>1, <1>2, RunParts, RunFacts, BlankRows DEF ServedFit, EditFit, BranchFit, Early, Late, Loading, Restoring
<1>7. (~broken' /\ ~crossed' /\ record'.kept) => RecordFit'
  BY <1>1, <1>2, RunParts, RunFacts, BlankRows
     DEF RecordFit, Describes, ServedFit, EditFit, BranchFit, Early, Loading, Restoring
<1> QED
  BY <1>3, <1>4, <1>5, <1>6, <1>7 DEF RunInv

LEMMA NotInstalledKeeps == ASSUME RunInv, NEW e \in Install!Extras, run.at = "install", conf' = Install!Reverted(conf, Install!OfExtra(e)),
         run' = [run EXCEPT !.extras = run.extras \ {e}], UNCHANGED <<bak, record, packages, index, service, broken, crossed>> PROVE RunInv'
<1> DEFINE r == [run EXCEPT !.extras = run.extras \ {e}]
<1>1. r \in RunRow /\ r.extras = run.extras \ {e} /\ r.at = run.at /\ r.records = run.records /\ r.branch = run.branch /\ r.wish = run.wish
  BY RunParts, RunFacts, ExtraRows DEF InstallTyped, RunRow, RunPlaces
<1> DEFINE c == Install!Reverted(conf, Install!OfExtra(e))
<1>2. /\ c \in Install!Confs /\ c.there = conf.there /\ c.model = conf.model /\ c.edited = conf.edited
      /\ c.flags = conf.flags \ {f \in run.wish : Install!ExtraOf(f) = e}
  BY RunParts DEF InstallTyped, Install!Reverted, Install!Confs, Install!OfExtra
<1>3. run.at = "install" /\ run' = r /\ conf' = c /\ UNCHANGED <<bak, record, packages, index, service, broken, crossed>>
  BY <1>1, RunParts, RunFacts, ExtraRows, BlankRows DEF Restoring
<1> HIDE DEF r, c
<1>4. InstallTyped'
  BY <1>1, <1>2, <1>3, RunParts, RunFacts, BlankRows, ExtraRows DEF InstallTyped
<1>5. BranchFit'
  BY <1>1, <1>2, <1>3, RunParts, RunFacts, BlankRows DEF BranchFit, Early, Late, Loading, Restoring
<1>6. ~broken' => FlagsFit'
  BY <1>1, <1>2, <1>3, RunParts, RunFacts, BlankRows DEF FlagsFit, BranchFit, Covered, Early, Loading, Restoring
<1>7. ~crossed' => ServedFit' /\ EditFit'
  BY <1>1, <1>2, <1>3, RunParts, RunFacts, BlankRows DEF ServedFit, EditFit, BranchFit, Early, Late, Loading, Restoring
<1>8. (~broken' /\ ~crossed' /\ record'.kept) => RecordFit'
  BY <1>1, <1>2, <1>3, RunParts, RunFacts, BlankRows
     DEF RecordFit, Describes, ServedFit, EditFit, BranchFit, Early, Loading, Restoring
<1> QED
  BY <1>4, <1>5, <1>6, <1>7, <1>8 DEF RunInv

LEMMA InstallExtraKeeps == ASSUME RunInv, Install!InstallExtra PROVE RunInv'
<1> DEFINE e == Install!NextExtra(run.extras)
<1>1. e \in Install!Extras
  BY DEF Install!NextExtra, Install!Extras
<1>2. /\ run.at = "install" /\ UNCHANGED <<bak, record, index, service, broken, crossed>> /\ run' = [run EXCEPT !.extras = run.extras \ {e}]
      /\ \/ packages' = packages \cup {e} /\ UNCHANGED conf
         \/ conf' = Install!Reverted(conf, Install!OfExtra(e)) /\ UNCHANGED packages
  BY DEF Install!InstallExtra, Install!At, Install!Goes, Install!Rest
<1> HIDE DEF e
<1> QED
  BY <1>1, <1>2, InstalledKeeps, NotInstalledKeeps

LEMMA PrewarmKeeps == ASSUME RunInv, Install!Prewarm PROVE RunInv'
<1> DEFINE r == [run EXCEPT !.at = "register"]
<1>1. r \in RunRow /\ r.at = "register" /\ r.records = run.records /\ r.branch = run.branch
  BY RunParts, RunFacts, ExtraRows DEF InstallTyped, RunRow, RunPlaces
<1>2. run.at = "install" /\ run.extras = {} /\ run' = r /\ UNCHANGED <<conf, bak, record, packages, index, service, broken, crossed>>
  BY <1>1, RunParts, RunFacts, ExtraRows, BlankRows DEF Install!Prewarm, Install!At, Install!Goes, Install!Rest
<1> HIDE DEF r
<1>3. InstallTyped'
  BY <1>1, <1>2, RunParts, RunFacts, BlankRows, ExtraRows DEF InstallTyped
<1>4. BranchFit'
  BY <1>1, <1>2, RunParts, RunFacts, BlankRows DEF BranchFit, Early, Late, Loading, Restoring
<1>5. ~broken' => FlagsFit'
  BY <1>1, <1>2, RunParts, RunFacts, BlankRows DEF FlagsFit, BranchFit, Covered, Early, Loading, Restoring
<1>6. ~crossed' => ServedFit' /\ EditFit'
  BY <1>1, <1>2, RunParts, RunFacts, BlankRows DEF ServedFit, EditFit, BranchFit, Early, Late, Loading, Restoring
<1>7. (~broken' /\ ~crossed' /\ record'.kept) => RecordFit'
  BY <1>1, <1>2, RunParts, RunFacts, BlankRows
     DEF RecordFit, Describes, ServedFit, EditFit, BranchFit, Early, Loading, Restoring
<1> QED
  BY <1>3, <1>4, <1>5, <1>6, <1>7 DEF RunInv

LEMMA FailedKeeps == ASSUME RunInv, run.at = "install", run.extras = {}, run.branch # "idempotent", run' = [run EXCEPT !.at = "leave"],
         IF run.branch = "fresh" THEN conf' = Install!NoConf /\ bak' = Install!NoConf ELSE UNCHANGED <<conf, bak>>,
         UNCHANGED <<record, packages, index, service, broken, crossed>> PROVE RunInv'
<1> DEFINE r == [run EXCEPT !.at = "leave"]
<1>1. r \in RunRow /\ r.at = "leave" /\ r.records = run.records /\ r.branch = run.branch
  BY RunParts, RunFacts, ExtraRows DEF InstallTyped, RunRow, RunPlaces
<1>2. /\ run.at = "install" /\ run.extras = {} /\ run.branch # "idempotent" /\ run' = r
      /\ UNCHANGED <<record, packages, index, service, broken, crossed>>
      /\ \/ run.branch = "fresh" /\ conf' = Install!NoConf /\ bak' = Install!NoConf
         \/ UNCHANGED <<conf, bak>>
  BY <1>1, RunParts, RunFacts, ExtraRows, BlankRows DEF Restoring
<1> HIDE DEF r
<1>3. InstallTyped'
  BY <1>1, <1>2, RunParts, RunFacts, BlankRows, ExtraRows DEF InstallTyped
<1>4. BranchFit'
  BY <1>1, <1>2, RunParts, RunFacts, BlankRows DEF BranchFit, Early, Late, Loading, Restoring
<1>5. ~broken' => FlagsFit'
  BY <1>1, <1>2, RunParts, RunFacts, BlankRows DEF FlagsFit, BranchFit, Covered, Early, Loading, Restoring
<1>6. ~crossed' => ServedFit' /\ EditFit'
  BY <1>1, <1>2, RunParts, RunFacts, BlankRows DEF ServedFit, EditFit, BranchFit, Early, Late, Loading, Restoring
<1>7. (~broken' /\ ~crossed' /\ record'.kept) => RecordFit'
  BY <1>1, <1>2, RunParts, RunFacts, BlankRows
     DEF RecordFit, Describes, ServedFit, EditFit, BranchFit, Early, Loading, Restoring
<1> QED
  BY <1>3, <1>4, <1>5, <1>6, <1>7 DEF RunInv

LEMMA PutBackKeeps == ASSUME RunInv, run.at = "install", run.branch = "idempotent", run' = Install!NoRun, conf' = bak,
         UNCHANGED <<bak, record, packages, index, service, broken, crossed>> PROVE RunInv'
<1>1. run.at = "install" /\ run.branch = "idempotent" /\ run' = Install!NoRun /\ conf' = bak /\
      UNCHANGED <<bak, record, packages, index, service, broken, crossed>>
  BY RunParts, RunFacts, ExtraRows, BlankRows DEF Restoring
<1>2. InstallTyped'
  BY <1>1, RunParts, RunFacts, BlankRows, ExtraRows DEF InstallTyped
<1>3. BranchFit'
  BY <1>1, RunParts, RunFacts, BlankRows DEF BranchFit, Early, Late, Loading, Restoring
<1>4. ~broken' => FlagsFit'
  BY <1>1, RunParts, RunFacts, BlankRows DEF FlagsFit, BranchFit, Covered, Early, Loading, Restoring
<1>5. ~crossed' => ServedFit' /\ EditFit'
  BY <1>1, RunParts, RunFacts, BlankRows DEF ServedFit, EditFit, BranchFit, Early, Late, Loading, Restoring
<1>6. (~broken' /\ ~crossed' /\ record'.kept) => RecordFit'
  BY <1>1, RunParts, RunFacts, BlankRows
     DEF RecordFit, Describes, ServedFit, EditFit, BranchFit, Early, Loading, Restoring
<1> QED
  BY <1>2, <1>3, <1>4, <1>5, <1>6 DEF RunInv

LEMMA PrewarmFailsKeeps == ASSUME RunInv, Install!PrewarmFails PROVE RunInv'
<1>1. /\ run.at = "install" /\ run.extras = {} /\ UNCHANGED <<record, packages, index, service, broken, crossed>>
      /\ run.branch \in {"fresh", "idempotent", "force"}
      /\ run.branch = "fresh" => conf' = Install!NoConf /\ bak' = Install!NoConf
      /\ run.branch = "idempotent" => conf' = bak /\ UNCHANGED bak
      /\ run.branch = "force" => UNCHANGED <<conf, bak>>
      /\ run' = IF run.branch # "idempotent" THEN [run EXCEPT !.at = "leave"] ELSE Install!NoRun
  BY RunParts, RunFacts DEF Install!PrewarmFails, Install!At, Install!Goes, Install!Rest, Install!RecordsAfterFailure, BranchFit, Late
<1> QED
  BY <1>1, FailedKeeps, PutBackKeeps

LEMMA ServiceStarts ==
  ASSUME InstallTyped, NEW s \in {Install!Started, Install!Stopped}
  PROVE  s \in ServiceRow /\ (s.up => s.model = conf.model)
<1>1. [up |-> TRUE, model |-> conf.model] \in ServiceRow
  BY RunFacts DEF ServiceRow
<1>2. s = [up |-> TRUE, model |-> conf.model] \/ s = Install!Stopped
  BY Zenon DEF Install!Started
<1>3. [up |-> TRUE, model |-> conf.model].model = conf.model
  OBVIOUS
<1> QED
  BY <1>1, <1>2, <1>3, BlankRows

LEMMA RegisterKeeps == ASSUME RunInv, Install!Register PROVE RunInv'
<1>1. /\ run.at = "register" /\ service' \in ServiceRow /\ (service'.up => service'.model = conf.model)
      /\ UNCHANGED <<conf, bak, record, packages, index, broken, crossed>>
      /\ run' \in RunRow /\ run'.at = "leave" /\ run'.records
  BY RunParts, RunFacts, ExtraRows, BlankRows, LeaveLate, ServiceStarts DEF Install!Register, Early, Install!At, Install!Goes, Install!Rest
<1>2. InstallTyped'
  BY <1>1, RunParts, RunFacts, BlankRows, ExtraRows DEF InstallTyped
<1>3. BranchFit'
  BY <1>1, RunParts, RunFacts, BlankRows DEF BranchFit, Early, Late, Loading, Restoring
<1>4. ~broken' => FlagsFit'
  BY <1>1, RunParts, RunFacts, BlankRows DEF FlagsFit, BranchFit, Covered, Early, Loading, Restoring
<1>5. ~crossed' => ServedFit' /\ EditFit'
  BY <1>1, RunParts, RunFacts, BlankRows DEF ServedFit, EditFit, BranchFit, Early, Late, Loading, Restoring
<1>6. (~broken' /\ ~crossed' /\ record'.kept) => RecordFit'
  BY <1>1, RunParts, RunFacts, BlankRows
     DEF RecordFit, Describes, ServedFit, EditFit, BranchFit, Early, Loading, Restoring
<1> QED
  BY <1>2, <1>3, <1>4, <1>5, <1>6 DEF RunInv

LEMMA LeaveKeeps == ASSUME RunInv, Install!Leave PROVE RunInv'
<1> DEFINE m == Install!Managed(conf)
<1>1. m \in RecordRow /\ m.edited = conf.edited /\ m.model = conf.model /\ m.flags = conf.flags \ Install!GraphKeys
  BY RunParts, RunFacts DEF Install!Managed, Install!GraphKeys, RecordRow
<1>2. /\ run.at = "leave" /\ run' = Install!NoRun /\ UNCHANGED <<conf, bak, packages, index, service, crossed>>
      /\ \/ (record' = m \/ record' = Install!NoRecord) /\ broken' = broken
         \/ record' = record /\ broken' = TRUE
  BY Zenon DEF Install!Leave, Install!At, Install!Goes, Install!Recorded
<1>3. /\ run.at = "leave" /\ run' = Install!NoRun /\ record' \in {record, m, Install!NoRecord}
      /\ broken' \in BOOLEAN /\ (~broken' => ~broken /\ record' \in {m, Install!NoRecord})
      /\ UNCHANGED <<conf, bak, packages, index, service, crossed>>
      /\ record' = record \/ record' = m \/ record' = Install!NoRecord
  BY <1>1, RunParts, RunFacts, ExtraRows, BlankRows, <1>2 DEF InstallTyped
<1> HIDE DEF m
<1>4. InstallTyped'
  BY <1>1, <1>3, RunParts, RunFacts, BlankRows, ExtraRows DEF InstallTyped
<1>5. BranchFit'
  BY <1>1, <1>3, RunParts, RunFacts, BlankRows DEF BranchFit, Early, Late, Loading, Restoring
<1>6. ~broken' => FlagsFit'
  BY <1>1, <1>3, RunParts, RunFacts, BlankRows DEF FlagsFit, BranchFit, Covered, Early, Loading, Restoring
<1>7. ~crossed' => ServedFit' /\ EditFit'
  BY <1>1, <1>3, RunParts, RunFacts, BlankRows DEF ServedFit, EditFit, BranchFit, Early, Late, Loading, Restoring
<1>8. (~broken' /\ ~crossed' /\ record'.kept) => RecordFit'
  BY <1>1, <1>3, RunParts, RunFacts, BlankRows
     DEF RecordFit, Describes, ServedFit, EditFit, BranchFit, Early, Loading, Restoring
<1> QED
  BY <1>4, <1>5, <1>6, <1>7, <1>8 DEF RunInv

LEMMA OutKeeps == ASSUME RunInv, run' = Install!NoRun \/ (run' \in RunRow /\ run'.at = "leave" /\ run'.records /\ run.at \notin Early),
         broken' = TRUE, UNCHANGED <<conf, bak, record, packages, index, service, crossed>> PROVE RunInv'
<1>1. /\ broken' = TRUE /\ UNCHANGED <<conf, bak, record, packages, index, service, crossed>>
      /\ run' = Install!NoRun \/ (run' \in RunRow /\ run'.at = "leave" /\ run'.records /\ run.at \notin Early)
  BY RunParts, RunFacts, ExtraRows, BlankRows DEF Restoring
<1>2. InstallTyped'
  BY <1>1, RunParts, RunFacts, BlankRows, ExtraRows DEF InstallTyped
<1>3. BranchFit'
  BY <1>1, RunParts, RunFacts, BlankRows DEF BranchFit, Early, Late, Loading, Restoring
<1>4. ~broken' => FlagsFit'
  BY <1>1, RunParts, RunFacts, BlankRows DEF FlagsFit, BranchFit, Covered, Early, Loading, Restoring
<1>5. ~crossed' => ServedFit' /\ EditFit'
  BY <1>1, RunParts, RunFacts, BlankRows DEF ServedFit, EditFit, BranchFit, Early, Late, Loading, Restoring
<1>6. (~broken' /\ ~crossed' /\ record'.kept) => RecordFit'
  BY <1>1, RunParts, RunFacts, BlankRows
     DEF RecordFit, Describes, ServedFit, EditFit, BranchFit, Early, Loading, Restoring
<1> QED
  BY <1>2, <1>3, <1>4, <1>5, <1>6 DEF RunInv

LEMMA InterruptKeeps == ASSUME RunInv, Install!Interrupt PROVE RunInv'
<1>1. /\ broken' = TRUE /\ UNCHANGED <<conf, bak, record, packages, index, service, crossed>>
      /\ Install!Leaves \/ run' = Install!NoRun
  BY DEF Install!Interrupt, Install!Goes
<1> QED
  BY <1>1, LeaveEarly, LeaveLate, OutKeeps

LEMMA IndexKeeps == ASSUME RunInv, Install!Index PROVE RunInv'
<1>1. service.up /\ index' = index \cup {service.model} /\ run' = run /\ UNCHANGED <<conf, bak, record, packages, service, broken, crossed>>
  BY RunParts, RunFacts, ExtraRows, BlankRows DEF Install!Index, Install!At, Install!Goes, Install!Rest
<1>2. InstallTyped'
  BY <1>1, RunParts, RunFacts, BlankRows, ExtraRows DEF InstallTyped
<1>3. BranchFit'
  BY <1>1, RunParts, RunFacts, BlankRows DEF BranchFit, Early, Late, Loading, Restoring
<1>4. ~broken' => FlagsFit'
  BY <1>1, RunParts, RunFacts, BlankRows DEF FlagsFit, BranchFit, Covered, Early, Loading, Restoring
<1>5. ~crossed' => ServedFit' /\ EditFit'
  BY <1>1, RunParts, RunFacts, BlankRows DEF ServedFit, EditFit, BranchFit, Early, Late, Loading, Restoring
<1>6. (~broken' /\ ~crossed' /\ record'.kept) => RecordFit'
  BY <1>1, RunParts, RunFacts, BlankRows
     DEF RecordFit, Describes, ServedFit, EditFit, BranchFit, Early, Loading, Restoring
<1> QED
  BY <1>2, <1>3, <1>4, <1>5, <1>6 DEF RunInv

LEMMA ByHandCrosses == ASSUME InstallTyped, Install!ByHand PROVE crossed' \in BOOLEAN /\ (~crossed' => ~crossed /\ run.at = "none")
  BY DEF Install!ByHand, Install!At, InstallTyped

LEMMA EditKeeps == ASSUME RunInv, Install!Edit PROVE RunInv'
<1> DEFINE c == [conf EXCEPT !.edited = TRUE]
<1>1. c \in Install!Confs /\ c.there = conf.there /\ c.model = conf.model /\ c.edited /\ c.flags = conf.flags
  BY RunParts DEF InstallTyped, Install!Confs
<1>2. /\ conf.there /\ conf' = c /\ run' = run /\ UNCHANGED <<bak, record, packages, index, service, broken>>
      /\ crossed' \in BOOLEAN /\ (~crossed' => ~crossed /\ run.at = "none")
  BY <1>1, RunParts, RunFacts, ExtraRows, BlankRows, ByHandCrosses DEF Install!Edit
<1> HIDE DEF c
<1>3. InstallTyped'
  BY <1>1, <1>2, RunParts, RunFacts, BlankRows, ExtraRows DEF InstallTyped
<1>4. BranchFit'
  BY <1>1, <1>2, RunParts, RunFacts, BlankRows DEF BranchFit, Early, Late, Loading, Restoring
<1>5. ~broken' => FlagsFit'
  BY <1>1, <1>2, RunParts, RunFacts, BlankRows DEF FlagsFit, BranchFit, Covered, Early, Loading, Restoring
<1>6. ~crossed' => ServedFit' /\ EditFit'
  BY <1>1, <1>2, RunParts, RunFacts, BlankRows DEF ServedFit, EditFit, BranchFit, Early, Late, Loading, Restoring
<1>7. (~broken' /\ ~crossed' /\ record'.kept) => RecordFit'
  BY <1>1, <1>2, RunParts, RunFacts, BlankRows
     DEF RecordFit, Describes, ServedFit, EditFit, BranchFit, Early, Loading, Restoring
<1> QED
  BY <1>3, <1>4, <1>5, <1>6, <1>7 DEF RunInv

LEMMA StartKeeps == ASSUME RunInv, Install!Start PROVE RunInv'
<1>1. /\ conf.there /\ service' \in ServiceRow /\ (service'.up => service'.model = conf.model) /\ run' = run
      /\ UNCHANGED <<conf, bak, record, packages, index, broken>>
      /\ crossed' \in BOOLEAN /\ (~crossed' => ~crossed /\ run.at = "none")
  BY RunParts, RunFacts, ExtraRows, BlankRows, ByHandCrosses, ServiceStarts DEF Install!Start
<1>2. InstallTyped'
  BY <1>1, RunParts, RunFacts, BlankRows, ExtraRows DEF InstallTyped
<1>3. BranchFit'
  BY <1>1, RunParts, RunFacts, BlankRows DEF BranchFit, Early, Late, Loading, Restoring
<1>4. ~broken' => FlagsFit'
  BY <1>1, RunParts, RunFacts, BlankRows DEF FlagsFit, BranchFit, Covered, Early, Loading, Restoring
<1>5. ~crossed' => ServedFit' /\ EditFit'
  BY <1>1, RunParts, RunFacts, BlankRows DEF ServedFit, EditFit, BranchFit, Early, Late, Loading, Restoring
<1>6. (~broken' /\ ~crossed' /\ record'.kept) => RecordFit'
  BY <1>1, RunParts, RunFacts, BlankRows
     DEF RecordFit, Describes, ServedFit, EditFit, BranchFit, Early, Loading, Restoring
<1> QED
  BY <1>2, <1>3, <1>4, <1>5, <1>6 DEF RunInv

LEMMA UninstallKeeps == ASSUME RunInv, Install!Uninstall PROVE RunInv'
<1>1. /\ service' = Install!Stopped /\ index' \in {index, {}} /\ run' = run /\ UNCHANGED <<conf, bak, record, packages, broken>>
      /\ crossed' \in BOOLEAN /\ (~crossed' => ~crossed /\ run.at = "none")
  BY RunParts, RunFacts, ExtraRows, BlankRows, ByHandCrosses DEF Install!Uninstall
<1>2. InstallTyped'
  BY <1>1, RunParts, RunFacts, BlankRows, ExtraRows DEF InstallTyped
<1>3. BranchFit'
  BY <1>1, RunParts, RunFacts, BlankRows DEF BranchFit, Early, Late, Loading, Restoring
<1>4. ~broken' => FlagsFit'
  BY <1>1, RunParts, RunFacts, BlankRows DEF FlagsFit, BranchFit, Covered, Early, Loading, Restoring
<1>5. ~crossed' => ServedFit' /\ EditFit'
  BY <1>1, RunParts, RunFacts, BlankRows DEF ServedFit, EditFit, BranchFit, Early, Late, Loading, Restoring
<1>6. (~broken' /\ ~crossed' /\ record'.kept) => RecordFit'
  BY <1>1, RunParts, RunFacts, BlankRows
     DEF RecordFit, Describes, ServedFit, EditFit, BranchFit, Early, Loading, Restoring
<1> QED
  BY <1>2, <1>3, <1>4, <1>5, <1>6 DEF RunInv

LEMMA RunStarts == Install!InstallInit \/ InstallRests => RunInv
<1> SUFFICES ASSUME Install!InstallInit \/ InstallRests PROVE RunInv
  OBVIOUS
<1> DEFINE c == [Install!NoConf EXCEPT !.there = TRUE]
<1>1. c \in Install!Confs /\ c.there /\ c.flags = {} /\ ~c.edited /\ c.model = "english"
  BY DEF Install!NoConf, Install!Confs, Install!Models
<1>2. Install!Managed(c) \in RecordRow /\ ~Install!Managed(c).edited /\ Install!Managed(c).model = c.model /\ Install!Managed(c).flags = {}
  BY <1>1 DEF Install!Managed, RecordRow, Install!Confs, Install!Models
<1>3. /\ \/ conf = Install!NoConf /\ record = Install!NoRecord
         \/ conf = c /\ record \in {Install!NoRecord, Install!Managed(c)}
      /\ bak = Install!NoConf /\ packages = {} /\ index = {} /\ service = Install!Stopped /\ run = Install!NoRun
      /\ broken = FALSE /\ crossed = FALSE
  BY DEF Install!InstallInit, InstallRests
<1> HIDE DEF c
<1>4. InstallTyped
  BY <1>1, <1>2, <1>3, BlankRows DEF InstallTyped
<1>5. BranchFit /\ FlagsFit /\ ServedFit
  BY <1>1, <1>3, BlankRows DEF BranchFit, FlagsFit, ServedFit, Covered, Early, Late, Loading, Restoring
<1>6. EditFit /\ (record.kept => RecordFit)
  BY <1>1, <1>2, <1>3, BlankRows DEF EditFit, RecordFit, Describes, Early, Loading
<1> QED
  BY <1>4, <1>5, <1>6 DEF RunInv

LEMMA RunStep == ASSUME RunInv, Install!InstallNext PROVE RunInv'
<1>1. CASE \E force, asks \in BOOLEAN : \E wish \in Install!Offered(asks) : Install!Begin(wish, force, asks)
  <2>1. PICK force \in BOOLEAN, asks \in BOOLEAN : \E wish \in Install!Offered(asks) : Install!Begin(wish, force, asks)
    BY <1>1
  <2>2. PICK wish \in Install!Offered(asks) : Install!Begin(wish, force, asks)
    BY <2>1
  <2>3. wish \in SUBSET Install!Features
    BY <2>2, InstallFits DEF Install!Offered
  <2> QED
    BY <2>2, <2>3, BeginRunKeeps
<1> QED
  BY <1>1, DegradeKeeps, GuardKeeps, BackUpKeeps, ConfirmKeeps, StopServiceKeeps, DeleteDatabaseKeeps, WriteConfigKeeps, OverwriteKeeps,
     AbortKeeps, ProceedKeeps, InstallExtraKeeps, PrewarmKeeps, PrewarmFailsKeeps, RegisterKeeps, LeaveKeeps, InterruptKeeps,
     IndexKeeps, EditKeeps, StartKeeps, UninstallKeeps, Zenon DEF Install!InstallNext

LEMMA RunStill == ASSUME RunInv, UNCHANGED installVars PROVE RunInv'
  BY DEF installVars, RunInv, InstallTyped, BranchFit, FlagsFit, ServedFit, EditFit, RecordFit, Covered, Describes

LEMMA RunsGood ==
  ASSUME RunInv
  PROVE  Install!InstallTypeOK /\ Install!FlagHasPackage /\ Install!IndexFitsConfig /\ Install!NoFalseAlarm
<1>1. Install!InstallTypeOK
  BY RunParts, RunFacts DEF InstallTyped, Install!InstallTypeOK, RecordRow, ServiceRow
<1>2. Install!FlagHasPackage
  BY RunParts DEF FlagsFit, Covered, Early, Install!FlagHasPackage, Install!At
<1>3. Install!IndexFitsConfig /\ Install!NoFalseAlarm
  BY RunParts DEF ServedFit, RecordFit, Install!IndexFitsConfig, Install!NoFalseAlarm, Install!At
<1> QED
  BY <1>1, <1>2, <1>3

\* Where an edit goes: a plain re-run has noticed it, a forced one rebuilds.
LEMMA EditsAreNoticed ==
  ASSUME RunInv, Install!InstallNext, conf.edited, conf'.there, ~conf'.edited, ~crossed'
  PROVE  run.noticed \/ run.branch = "force"
<1>1. conf.there
  BY RunParts, BlankRows DEF BranchFit
<1>2. \/ Install!Overwrite \/ Install!WriteConfig \/ Install!Confirm \/ Install!StopService \/ Install!PrewarmFails \/ Install!Abort
      \/ Install!InstallExtra
  <2>1. conf' # conf
    OBVIOUS
  <2>2. ~Install!Edit
    BY RunParts DEF Install!Edit, InstallTyped, Install!Confs
  <2> QED
    BY <2>1, <2>2 DEF Install!InstallNext, Install!Begin, Install!Degrade, Install!Guard, Install!BackUp, Install!DeleteDatabase,
         Install!Proceed, Install!Prewarm, Install!Register, Install!Leave, Install!Interrupt, Install!Index, Install!Start,
         Install!Uninstall
<1>3. crossed \in BOOLEAN /\ (crossed => crossed')
  <2>1. crossed' = crossed \/ Install!StopService
    BY <1>2, Zenon DEF Install!Overwrite, Install!WriteConfig, Install!Confirm, Install!PrewarmFails, Install!Abort,
         Install!InstallExtra, Install!Rest
  <2>2. Install!StopService => crossed' = crossed \/ crossed' = TRUE
    BY Zenon DEF Install!StopService
  <2> QED
    BY <2>1, <2>2, RunParts DEF InstallTyped
<1>4. run.at \in Early
  BY <1>3, RunParts DEF EditFit
<1>5. \/ run.at = "overwrite" \/ run.at = "write" \/ run.at = "confirm" \/ run.at = "stop"
  BY <1>2, <1>4 DEF Early, Install!Overwrite, Install!WriteConfig, Install!Confirm, Install!StopService, Install!PrewarmFails,
         Install!Abort, Install!InstallExtra, Install!At
<1> QED
  BY <1>1, <1>3, <1>5, RunParts DEF EditFit, BranchFit

-----------------------------------------------------------------------------
(* InstallLock *)

\* Unless an unlink met a file that was not the stale one: who is past the creation has its own file there, a file of a
\* process is that of one that is past it or dead, and a torn file is still there only before anybody got on.
HolderFit(p) ==
  /\ inst[p].at = "claim" => lockFile = Lock!Blank(p)
  /\ inst[p].at \in {"in", "release"} => lockFile = p
  /\ inst[p].at = "release" => inst[p].read = p
  /\ lockFile = Lock!Blank(p) => inst[p].at = "claim" \/ p \in killed
  /\ lockFile = p => inst[p].at \in {"in", "release"} \/ p \in killed
  /\ lockFile = Lock!Torn => (inst[p].at \in {"out", "inspect", "judge"} \/ p \in killed)
  /\ (lockFile = Lock!Torn /\ inst[p].at = "judge") => inst[p].read = Lock!Torn
InstLockInv ==
  /\ Lock!InstLockTypeOK /\ \A p \in killed : inst[p].at = "ended"
  /\ ~mistaken => \A p \in Installers : HolderFit(p)

InstPlaces == {"out", "again", "claim", "inspect", "judge", "in", "release", "ended"}
InstRow == [at : InstPlaces, read : Lock!Contents, retried : BOOLEAN]
LEMMA LockTyped ==
  Lock!InstLockTypeOK <=> /\ lockFile \in Lock!Contents /\ killed \subseteq Installers /\ mistaken \in BOOLEAN
                          /\ inst \in [Installers -> InstRow]
  BY DEF Lock!InstLockTypeOK, InstRow, InstPlaces

\* The marks of the lock file are apart.
LEMMA MarksApart ==
  /\ \A p \in Installers : /\ p \in Int /\ Lock!Blank(p) \in Int /\ p # 0 /\ p # -100 /\ Lock!Blank(p) # 0 /\ Lock!Blank(p) # -100
                           /\ \A q \in Installers : Lock!Blank(p) # q /\ (Lock!Blank(p) = Lock!Blank(q) => p = q)
  /\ Lock!NoFile = 0 /\ Lock!Torn = -100
  /\ \A p \in Installers : Lock!Blank(p) \in Lock!Contents /\ p \in Lock!Contents
  /\ 0 \in Lock!Contents /\ -100 \in Lock!Contents
<1>1. \A p \in Installers : p \in Nat /\ p # 0 /\ p # 100
  BY InstallFits
<1> QED
  BY <1>1 DEF Lock!Blank, Lock!NoFile, Lock!Torn, Lock!Contents

\* One installer moves: its own facts are to be shown, and for the others what the lock file and the kill change.
LEMMA InstMoves ==
  ASSUME InstLockInv, NEW p \in Installers, NEW r \in InstRow, Lock!Goes(p, r),
         lockFile' \in Lock!Contents, killed' \subseteq Installers, mistaken' \in BOOLEAN, mistaken => mistaken',
         \A q \in Installers : q \in killed' => (q \in killed \/ (q = p /\ r.at = "ended")), p \in killed => r.at = "ended",
         (~mistaken' /\ \A q \in Installers : HolderFit(q)) => \A q \in Installers : HolderFit(q)'
  PROVE  InstLockInv'
<1>1. inst' \in [Installers -> InstRow] /\ inst'[p] = r /\ \A q \in Installers : q # p => inst'[q] = inst[q]
  BY LockTyped DEF InstLockInv, Lock!Goes
<1>2. Lock!InstLockTypeOK'
  BY <1>1 DEF Lock!InstLockTypeOK, InstRow, InstPlaces
<1>3. ASSUME NEW q \in killed' PROVE inst'[q].at = "ended"
  BY <1>1, <1>3 DEF InstLockInv
<1> QED
  BY <1>2, <1>3 DEF InstLockInv

LEMMA InstFacts ==
  ASSUME InstLockInv, NEW p \in Installers
  PROVE  /\ inst[p] \in InstRow /\ inst[p].at \in InstPlaces /\ inst[p].read \in Lock!Contents
         /\ inst \in [Installers -> InstRow] /\ lockFile \in Lock!Contents /\ killed \subseteq Installers /\ mistaken \in BOOLEAN
         /\ p \in killed => inst[p].at = "ended"
  BY LockTyped DEF InstLockInv, InstRow

LEMMA CreateKeeps == ASSUME InstLockInv, NEW p \in Installers, Lock!Create(p) PROVE InstLockInv'
<1>1. CASE lockFile = 0
  <2> DEFINE r == [inst[p] EXCEPT !.at = "claim"]
  <2>1. r \in InstRow /\ r.at = "claim" /\ r.read = inst[p].read
    BY InstFacts DEF InstRow, InstPlaces
  <2>2. /\ inst[p].at \in {"out", "again"} /\ lockFile' = Lock!Blank(p) /\ Lock!Goes(p, r)
        /\ killed' = killed /\ mistaken' = mistaken
    BY <1>1, MarksApart DEF Lock!Create
  <2> HIDE DEF r
  <2>3. inst'[p] = r /\ \A q \in Installers : q # p => inst'[q] = inst[q]
    BY <2>2, InstFacts DEF Lock!Goes
  <2>4. (\A q \in Installers : HolderFit(q)) => \A q \in Installers : HolderFit(q)'
    BY <1>1, <2>1, <2>2, <2>3, MarksApart DEF HolderFit
  <2> QED
    BY <2>1, <2>2, <2>4, InstMoves, InstFacts, MarksApart
<1>2. CASE lockFile # 0
  <2> DEFINE r == [inst[p] EXCEPT !.at = "inspect"]
  <2>1. r \in InstRow /\ r.at = "inspect" /\ r.read = inst[p].read
    BY InstFacts DEF InstRow, InstPlaces
  <2>2. /\ inst[p].at \in {"out", "again"} /\ lockFile' = lockFile /\ Lock!Goes(p, r)
        /\ killed' = killed /\ mistaken' = mistaken
    BY <1>2, MarksApart DEF Lock!Create
  <2> HIDE DEF r
  <2>3. inst'[p] = r /\ \A q \in Installers : q # p => inst'[q] = inst[q]
    BY <2>2, InstFacts DEF Lock!Goes
  <2>4. (\A q \in Installers : HolderFit(q)) => \A q \in Installers : HolderFit(q)'
    BY <1>2, <2>1, <2>2, <2>3, MarksApart DEF HolderFit
  <2> QED
    BY <2>1, <2>2, <2>4, InstMoves, InstFacts, MarksApart
<1> QED
  BY <1>1, <1>2

LEMMA ClaimKeeps == ASSUME InstLockInv, NEW p \in Installers, Lock!Claim(p) PROVE InstLockInv'
<1> DEFINE r == [inst[p] EXCEPT !.at = "in"]
<1>1. r \in InstRow /\ r.at = "in" /\ r.read = inst[p].read
  BY InstFacts DEF InstRow, InstPlaces
<1>2. /\ inst[p].at = "claim" /\ lockFile' = (IF lockFile = Lock!Blank(p) THEN p ELSE lockFile) /\ Lock!Goes(p, r)
      /\ killed' = killed /\ mistaken' = mistaken
  BY MarksApart, InstFacts DEF Lock!Claim, Lock!At
<1> HIDE DEF r
<1>3. inst'[p] = r /\ \A q \in Installers : q # p => inst'[q] = inst[q]
  BY <1>2, InstFacts DEF Lock!Goes
<1>4. (~mistaken' /\ \A q \in Installers : HolderFit(q)) => \A q \in Installers : HolderFit(q)'
  BY <1>1, <1>2, <1>3, InstFacts, MarksApart DEF HolderFit
<1> QED
  BY <1>1, <1>2, <1>4, InstMoves, InstFacts, MarksApart

LEMMA ClaimFailsKeeps == ASSUME InstLockInv, NEW p \in Installers, Lock!ClaimFails(p) PROVE InstLockInv'
<1> DEFINE r == [inst[p] EXCEPT !.at = "ended"]
<1>1. r \in InstRow /\ r.at = "ended" /\ r.read = inst[p].read
  BY InstFacts DEF InstRow, InstPlaces
<1>2. /\ inst[p].at = "claim" /\ lockFile' = 0 /\ Lock!Goes(p, r)
      /\ killed' = killed /\ mistaken' \in BOOLEAN /\ (mistaken' <=> mistaken \/ lockFile \notin {Lock!Blank(p), 0})
  BY MarksApart, InstFacts DEF Lock!ClaimFails, Lock!At
<1> HIDE DEF r
<1>3. inst'[p] = r /\ \A q \in Installers : q # p => inst'[q] = inst[q]
  BY <1>2, InstFacts DEF Lock!Goes
<1>4. (~mistaken' /\ \A q \in Installers : HolderFit(q)) => \A q \in Installers : HolderFit(q)'
  BY <1>1, <1>2, <1>3, InstFacts, MarksApart DEF HolderFit
<1> QED
  BY <1>1, <1>2, <1>4, InstMoves, InstFacts, MarksApart

LEMMA InspectKeeps == ASSUME InstLockInv, NEW p \in Installers, Lock!Inspect(p) PROVE InstLockInv'
<1> DEFINE r == [inst[p] EXCEPT !.at = "judge", !.read = lockFile]
<1>1. r \in InstRow /\ r.at = "judge" /\ r.read = lockFile
  BY InstFacts DEF InstRow, InstPlaces
<1>2. /\ inst[p].at = "inspect" /\ lockFile' = lockFile /\ Lock!Goes(p, r)
      /\ killed' = killed /\ mistaken' = mistaken
  BY MarksApart, InstFacts DEF Lock!Inspect, Lock!At
<1> HIDE DEF r
<1>3. inst'[p] = r /\ \A q \in Installers : q # p => inst'[q] = inst[q]
  BY <1>2, InstFacts DEF Lock!Goes
<1>4. (~mistaken' /\ \A q \in Installers : HolderFit(q)) => \A q \in Installers : HolderFit(q)'
  BY <1>1, <1>2, <1>3, InstFacts, MarksApart DEF HolderFit
<1> QED
  BY <1>1, <1>2, <1>4, InstMoves, InstFacts, MarksApart

LEMMA RefuseKeeps == ASSUME InstLockInv, NEW p \in Installers, Lock!Refuse(p) PROVE InstLockInv'
<1> DEFINE r == [inst[p] EXCEPT !.at = "ended"]
<1>1. r \in InstRow /\ r.at = "ended" /\ r.read = inst[p].read
  BY InstFacts DEF InstRow, InstPlaces
<1>2. /\ inst[p].at = "judge" /\ inst[p].read \in Installers /\ lockFile' = lockFile /\ Lock!Goes(p, r)
      /\ killed' = killed /\ mistaken' = mistaken
  BY MarksApart, InstFacts DEF Lock!Refuse, Lock!At, Lock!HeldByLive, Lock!Alive
<1> HIDE DEF r
<1>3. inst'[p] = r /\ \A q \in Installers : q # p => inst'[q] = inst[q]
  BY <1>2, InstFacts DEF Lock!Goes
<1>4. (~mistaken' /\ \A q \in Installers : HolderFit(q)) => \A q \in Installers : HolderFit(q)'
  BY <1>1, <1>2, <1>3, InstFacts, MarksApart DEF HolderFit
<1> QED
  BY <1>1, <1>2, <1>4, InstMoves, InstFacts, MarksApart

LEMMA ClearStaleKeeps == ASSUME InstLockInv, NEW p \in Installers, Lock!ClearStale(p) PROVE InstLockInv'
<1> DEFINE r == [inst[p] EXCEPT !.at = IF inst[p].retried THEN "ended" ELSE "again", !.retried = TRUE]
<1>1. r \in InstRow /\ r.at \in {"ended", "again"} /\ r.read = inst[p].read
  BY InstFacts DEF InstRow, InstPlaces
<1>2. /\ inst[p].at = "judge" /\ inst[p].read \notin Installers \ killed /\ lockFile' = 0 /\ Lock!Goes(p, r)
      /\ killed' = killed /\ mistaken' \in BOOLEAN /\ (mistaken' <=> mistaken \/ lockFile # inst[p].read \/ Lock!BeingWritten)
  BY MarksApart, InstFacts DEF Lock!ClearStale, Lock!At, Lock!HeldByLive, Lock!Alive
<1> HIDE DEF r
<1>3. inst'[p] = r /\ \A q \in Installers : q # p => inst'[q] = inst[q]
  BY <1>2, InstFacts DEF Lock!Goes
<1>4. ASSUME ~mistaken', \A q \in Installers : HolderFit(q), NEW q \in Installers
      PROVE  inst[q].at \notin {"claim", "in", "release"}
  <2>1. inst[q].at # "claim"
    BY <1>2, <1>4 DEF HolderFit, Lock!BeingWritten, Lock!At
  <2>2. inst[q].at \notin {"in", "release"}
    BY <1>2, <1>4, InstFacts DEF HolderFit
  <2> QED
    BY <2>1, <2>2
<1>5. (~mistaken' /\ \A q \in Installers : HolderFit(q)) => \A q \in Installers : HolderFit(q)'
  BY <1>1, <1>2, <1>3, <1>4, InstFacts, MarksApart DEF HolderFit
<1> QED
  BY <1>1, <1>2, <1>5, InstMoves, InstFacts, MarksApart

LEMMA ReadOwnKeeps == ASSUME InstLockInv, NEW p \in Installers, Lock!ReadOwn(p) PROVE InstLockInv'
<1> DEFINE r == [inst[p] EXCEPT !.at = IF lockFile \in {p, 0} THEN "release" ELSE "ended", !.read = lockFile]
<1>1. r \in InstRow /\ r.at = (IF lockFile \in {p, 0} THEN "release" ELSE "ended") /\ r.read = lockFile
  BY InstFacts DEF InstRow, InstPlaces
<1>2. /\ inst[p].at = "in" /\ lockFile' = lockFile /\ Lock!Goes(p, r)
      /\ killed' = killed /\ mistaken' = mistaken
  BY MarksApart, InstFacts DEF Lock!ReadOwn, Lock!At
<1> HIDE DEF r
<1>3. inst'[p] = r /\ \A q \in Installers : q # p => inst'[q] = inst[q]
  BY <1>2, InstFacts DEF Lock!Goes
<1>4. (~mistaken' /\ \A q \in Installers : HolderFit(q)) => \A q \in Installers : HolderFit(q)'
  BY <1>1, <1>2, <1>3, InstFacts, MarksApart DEF HolderFit
<1> QED
  BY <1>1, <1>2, <1>4, InstMoves, InstFacts, MarksApart

LEMMA ReleaseKeeps == ASSUME InstLockInv, NEW p \in Installers, Lock!Release(p) PROVE InstLockInv'
<1> DEFINE r == [inst[p] EXCEPT !.at = "ended"]
<1>1. r \in InstRow /\ r.at = "ended" /\ r.read = inst[p].read
  BY InstFacts DEF InstRow, InstPlaces
<1>2. /\ inst[p].at = "release" /\ lockFile' = 0 /\ Lock!Goes(p, r)
      /\ killed' = killed /\ mistaken' \in BOOLEAN /\ (mistaken' <=> mistaken \/ lockFile # inst[p].read)
  BY MarksApart, InstFacts DEF Lock!Release, Lock!At
<1> HIDE DEF r
<1>3. inst'[p] = r /\ \A q \in Installers : q # p => inst'[q] = inst[q]
  BY <1>2, InstFacts DEF Lock!Goes
<1>4. (~mistaken' /\ \A q \in Installers : HolderFit(q)) => \A q \in Installers : HolderFit(q)'
  BY <1>1, <1>2, <1>3, InstFacts, MarksApart DEF HolderFit
<1> QED
  BY <1>1, <1>2, <1>4, InstMoves, InstFacts, MarksApart

LEMMA KillKeeps == ASSUME InstLockInv, NEW p \in Installers, Lock!Kill(p) PROVE InstLockInv'
<1> DEFINE r == [inst[p] EXCEPT !.at = "ended"]
<1>1. r \in InstRow /\ r.at = "ended" /\ r.read = inst[p].read
  BY InstFacts DEF InstRow, InstPlaces
<1>2. /\ inst[p].at # "ended" /\ lockFile' = lockFile /\ Lock!Goes(p, r)
      /\ killed' = killed \cup {p} /\ mistaken' = mistaken
  BY MarksApart, InstFacts DEF Lock!Kill, Lock!At
<1> HIDE DEF r
<1>3. inst'[p] = r /\ \A q \in Installers : q # p => inst'[q] = inst[q]
  BY <1>2, InstFacts DEF Lock!Goes
<1>4. (~mistaken' /\ \A q \in Installers : HolderFit(q)) => \A q \in Installers : HolderFit(q)'
  BY <1>1, <1>2, <1>3, InstFacts, MarksApart DEF HolderFit
<1> QED
  BY <1>1, <1>2, <1>4, InstMoves, InstFacts, MarksApart

LEMMA LockStarts == Lock!InstLockInit \/ LockRests => InstLockInv
<1> SUFFICES ASSUME Lock!InstLockInit \/ LockRests PROVE InstLockInv
  OBVIOUS
<1> DEFINE r == Lock!NotStarted
<1>1. r \in InstRow /\ r.at = "out" /\ r.read = 0
  BY MarksApart DEF InstRow, InstPlaces, Lock!NotStarted
<1>2. /\ lockFile \in {0, -100} /\ inst = [p \in Installers |-> r] /\ killed = {} /\ mistaken = FALSE
  BY MarksApart DEF Lock!InstLockInit, LockRests
<1> HIDE DEF r
<1>3. inst \in [Installers -> InstRow] /\ \A p \in Installers : inst[p] = r
  BY <1>1, <1>2
<1>4. \A p \in Installers : HolderFit(p)
  BY <1>1, <1>2, <1>3, MarksApart DEF HolderFit
<1> QED
  BY <1>2, <1>3, <1>4, LockTyped, MarksApart DEF InstLockInv

LEMMA LockStep == ASSUME InstLockInv, Lock!InstLockNext PROVE InstLockInv'
  BY CreateKeeps, ClaimKeeps, ClaimFailsKeeps, InspectKeeps, RefuseKeeps, ClearStaleKeeps, ReadOwnKeeps, ReleaseKeeps, KillKeeps
     DEF Lock!InstLockNext

LEMMA LockStill == ASSUME InstLockInv, UNCHANGED lockVars PROVE InstLockInv'
  BY DEF lockVars, InstLockInv, HolderFit, Lock!InstLockTypeOK

LEMMA InstallersCount == \A S : Lock!Cardinality(S) = Cardinality(S)
  BY DEF Lock!Cardinality, Cardinality, Lock!IsFiniteSet, IsFiniteSet

LEMMA LockGood == ASSUME InstLockInv PROVE Lock!InstLockTypeOK /\ Lock!OneInstaller /\ Lock!NothingLeft
<1> DEFINE inside == {p \in Installers : inst[p].at \in {"in", "release"}}
<1>1. ASSUME ~mistaken PROVE Cardinality(inside) <= 1
  <2>1. \A p, q \in inside : p = q
    BY <1>1 DEF InstLockInv, HolderFit
  <2>2. CASE inside = {}
    BY <2>2, FS_EmptySet
  <2>3. CASE inside # {}
    <3>1. PICK p \in inside : TRUE
      BY <2>3
    <3>2. inside = {p}
      BY <2>1, <3>1
    <3>3. Cardinality({p}) = 1
      BY FS_Singleton, Zenon
    <3> QED
      BY <3>2, <3>3
  <2> QED
    BY <2>2, <2>3
<1>2. Lock!OneInstaller
  BY <1>1, InstallersCount DEF Lock!OneInstaller
<1>3. ASSUME \A p \in Installers : inst[p].at = "ended", killed = {}, ~mistaken PROVE lockFile = 0
  <2>1. \A p \in Installers : lockFile # p /\ lockFile # Lock!Blank(p) /\ lockFile # Lock!Torn
    BY <1>3 DEF InstLockInv, HolderFit
  <2>2. PICK p \in Installers : TRUE
    BY InstallFits
  <2> QED
    BY <2>1, <2>2, MarksApart DEF InstLockInv, Lock!InstLockTypeOK, Lock!Contents
<1>4. Lock!NothingLeft
  BY <1>3, MarksApart DEF Lock!NothingLeft
<1> QED
  BY <1>2, <1>4 DEF InstLockInv

\* InstallSafe, for any wishes, runs, installers, kills and steps of the operator: a config that a run leaves enables only
\* features whose packages are there (FlagHasPackage), the index holds vectors of the config's model (IndexFitsConfig), a
\* reported hand edit is one (NoFalseAlarm) and an unreported one is not overwritten (EditsNoticed), installers exclude
\* each other unless a lock was taken for stale by mistake (OneInstaller), and leave no lock behind (NothingLeft).
THEOREM InstallIsSafe == RequestsSpec => InstallSafe
<1>1. RequestsInit => RunInv /\ InstLockInv
  BY RunStarts, LockStarts, Zenon DEF RequestsInit
<1>2. [RequestsNext]_allVars => [Install!InstallNext]_installVars /\ [Lock!InstLockNext]_lockVars
  BY Zenon DEF RequestsNext, allVars
<1>3. RunInv /\ InstLockInv /\ [RequestsNext]_allVars => RunInv' /\ InstLockInv'
  BY <1>2, RunStep, RunStill, LockStep, LockStill
<1>4. RunInv => (part = "install" => Install!InstallTypeOK /\ Install!FlagHasPackage /\
                                     Install!IndexFitsConfig /\ Install!NoFalseAlarm)
  BY RunsGood
<1>5. InstLockInv => (part = "instlock" => Lock!InstLockTypeOK /\ Lock!OneInstaller /\ Lock!NothingLeft)
  BY LockGood
<1>6. RunInv /\ [RequestsNext]_allVars =>
        [(conf.edited /\ conf'.there /\ ~conf'.edited /\ ~crossed') => (run.noticed \/ run.branch = "force")]_Install!installVars
  <2>1. SUFFICES ASSUME RunInv, [RequestsNext]_allVars, ~UNCHANGED Install!installVars,
                        conf.edited /\ conf'.there /\ ~conf'.edited /\ ~crossed'
                 PROVE  run.noticed \/ run.branch = "force"
    BY Zenon
  <2>2. ~UNCHANGED installVars
    BY <2>1, Zenon DEF installVars, Install!installVars
  <2> QED
    BY <1>2, <2>1, <2>2, EditsAreNoticed
<1> QED
  BY <1>1, <1>3, <1>4, <1>5, <1>6, PTL DEF RequestsSpec, InstallSafe, Install!EditsNoticed

-----------------------------------------------------------------------------
(***************************************************************************)
(* SearchFlow.  Until a request is answered its row carries what its place *)
(* promises (WorkFits): which filters its candidates have passed, against  *)
(* which acl.  What a step leaves in the row is shown to fit once, in the  *)
(* state it is taken in (GoKeeps).                                         *)
(***************************************************************************)

Candidates == [id : Chunks, open : BOOLEAN, graph : BOOLEAN]
SearchPlaces == {"arrived", "hyde", "pipeline", "explain", "expand", "local", "global", "ppr", "fusion", "standard",
                 "variants", "retrieve", "fetch", "merge", "explained", "rank", "context", "done"}
WorkRow == [at : SearchPlaces, ids : SUBSET Chunks, graph : SUBSET Candidates, pool : SUBSET Candidates,
            vector : BOOLEAN, used : BOOLEAN, embedded : BOOLEAN, attempted : BOOLEAN, applied : BOOLEAN,
            expanded : BOOLEAN, hidden : BOOLEAN, warning : {"none", "hyde", "fusion"}]
FlowTyped == /\ stored \subseteq Chunks /\ open \subseteq Chunks /\ shut \subseteq Chunks /\ shut \cap open = {}
             /\ changes \in Nat /\ query \in Search!Queries

\* Nothing embeds for a request that found its embedder cold.
ColdFit(w) == query.fts => ~w.vector /\ ~w.embedded

\* A candidate that the acl once admitted was open to the caller; the pool holds no other.
RowsFit(w) == /\ \A r \in w.graph : r.open => r.id \notin shut
              /\ \A r \in w.pool : r.open /\ r.id \notin shut

\* Which requests come to which places.
PathFit(w) ==
  /\ w.at \in {"explain", "expand", "local", "global", "ppr", "fetch", "merge", "explained"} =>
       query.mode # "none" /\ ~query.fts
  /\ w.at \in {"fusion", "variants"} => query.fusion /\ ~query.fts
  /\ w.at \in {"explain", "explained"} => query.kind = "explain"
  /\ w.at = "merge" => query.mode # "global"
  /\ w.at = "context" => query.kind = "context"

\* HyDE was skipped with a warning, or its vector is on its way to the table.
HydeFit(w) ==
  (query.hyde /\ ~Search!HydeSuppressed /\ w.warning # "hyde") =>
    /\ w.at \in {"pipeline", "standard"} => w.vector
    /\ w.at \in {"retrieve", "rank", "context"} => w.used

\* The candidates of a graph, before the hybrid ones join them.
GraphFit(w) ==
  /\ w.at = "merge" => /\ \A r \in w.graph : r.open
                       /\ query.glob => \A r \in w.graph : r.id \in Matching
  /\ (w.at = "explained" /\ changes = 0) => \A r \in w.graph : r.open <=> r.id \in open

\* The filtered candidates, before they are ranked.
Wanted(c) == (query.glob => c \in Matching) /\ (query.scope # "none" => c \in InScope)
PoolFit(w) ==
  w.at \in {"rank", "context"} =>
    /\ query.scope # "none" => \A r \in w.pool : r.id \in InScope
    /\ (query.glob /\ (query.mode # "global" \/ ~w.expanded)) => \A r \in w.pool : r.id \in Matching
    /\ (changes = 0 /\ query.mode = "none" /\ ~query.fts /\ Search!WithinDepth) => w.pool = {Search!Row(c, FALSE) : c \in Search!Eligible}
    /\ ( /\ changes = 0 /\ ~query.fts /\ Search!WithinDepth /\ ~(query.mode = "global" /\ w.expanded)
         /\ \E c \in stored \ open : Wanted(c) ) => w.hidden

WorkFits(w) == RowsFit(w) /\ PathFit(w) /\ HydeFit(w) /\ GraphFit(w) /\ PoolFit(w)

FailClasses == {"unavailable", "not_found", "not_ready", "not_built", "failed", "timeout"}
Answered == /\ Search!AnswerPermitted /\ Search!RightPage /\ Search!HiddenTold /\ Search!HydeUsed
            /\ answer.results \subseteq Chunks /\ answer.class \in FailClasses \cup {"ok"}

FlowInv == /\ FlowTyped /\ work \in WorkRow /\ ColdFit(work)
           /\ work.at # "done" => answer = Search!NoAnswer /\ WorkFits(work)
           /\ work.at = "done" => Answered
FlowGood == part = "search" => FlowInv

LEMMA FlowFacts ==
  ASSUME work \in WorkRow, query \in Search!Queries
  PROVE  /\ work.at \in SearchPlaces /\ work.ids \subseteq Chunks /\ work.graph \subseteq Candidates /\ work.pool \subseteq Candidates
         /\ work.vector \in BOOLEAN /\ work.used \in BOOLEAN /\ work.embedded \in BOOLEAN /\ work.attempted \in BOOLEAN
         /\ work.applied \in BOOLEAN /\ work.expanded \in BOOLEAN /\ work.hidden \in BOOLEAN
         /\ work.warning \in {"none", "hyde", "fusion"}
         /\ query.kind \in {"search", "context", "explain"} /\ query.mode \in Search!Modes /\ query.fusion \in BOOLEAN
         /\ query.glob \in BOOLEAN /\ query.scope \in {"none", "exact", "prefix"} /\ query.rerank \in BOOLEAN
         /\ query.fts \in BOOLEAN /\ query.hyde \in BOOLEAN
         /\ query.scope # "none" => query.mode = "none"
         /\ query.kind = "context" => query.mode = "none" /\ query.rerank /\ ~query.fts
         /\ query.kind = "explain" => ~query.glob /\ ~query.fts
  BY DEF WorkRow, Search!Queries

LEMMA FlowParts ==
  ASSUME FlowInv
  PROVE  FlowTyped /\ work \in WorkRow /\ query \in Search!Queries /\ ColdFit(work)
         /\ (work.at # "done" => answer = Search!NoAnswer /\ WorkFits(work)) /\ (work.at = "done" => Answered)
  BY DEF FlowInv, FlowTyped

\* A step that goes on.
LEMMA GoKeeps ==
  ASSUME FlowInv, work.at # "done", NEW w \in WorkRow, w.at # "done", ColdFit(w), WorkFits(w), Search!Go(w)
  PROVE  FlowInv'
<1>1. work' = w /\ UNCHANGED <<stored, open, shut, changes, query, answer>> /\ answer = Search!NoAnswer
  BY FlowParts DEF Search!Go
<1>2. FlowTyped' /\ work' \in WorkRow
  BY <1>1, FlowParts DEF FlowTyped
<1>3. ColdFit(work)'
  BY <1>1 DEF ColdFit
<1>4. WorkFits(work)'
  BY <1>1 DEF WorkFits, RowsFit, PathFit, HydeFit, GraphFit, PoolFit, Wanted, Search!HydeSuppressed, Search!Row, Search!Eligible,
     Search!WithinDepth, Search!Reached
<1>5. answer' = Search!NoAnswer'
  BY <1>1 DEF Search!NoAnswer
<1> QED
  BY <1>1, <1>2, <1>3, <1>4, <1>5 DEF FlowInv

\* A step that answers.
LEMMA ReplyKeeps ==
  ASSUME FlowInv, work.at # "done", NEW a, Search!Reply(a), a.results \subseteq Chunks \ shut, a.class \in FailClasses \cup {"ok"},
         (a.class = "ok" /\ query.kind # "context") =>
            /\ query.scope # "none" => a.results \subseteq InScope
            /\ (query.glob /\ (query.mode # "global" \/ ~work.expanded)) => a.results \subseteq Matching,
         ( /\ a.class = "ok" /\ changes = 0 /\ query.mode = "none" /\ query.kind # "context" /\ ~query.fts /\ Search!WithinDepth
           /\ query.kind = "explain" => PageSize <= PoolSize ) => a.results = Search!Reference,
         ( /\ a.class = "ok" /\ changes = 0 /\ query.kind # "context" /\ ~query.fts /\ Search!WithinDepth
           /\ ~(query.mode = "global" /\ work.expanded) /\ \E c \in stored \ open : Wanted(c) ) => a.hidden,
         a.hyde => work.used
  PROVE  FlowInv'
<1> DEFINE w == [work EXCEPT !.at = "done"]
<1>1. /\ w \in WorkRow /\ w.at = "done" /\ w.expanded = work.expanded /\ w.vector = work.vector /\ w.used = work.used
      /\ w.embedded = work.embedded
  BY FlowParts, FlowFacts DEF WorkRow, SearchPlaces
<1>2. work' = w /\ answer' = a /\ UNCHANGED <<stored, open, shut, changes, query>>
  BY DEF Search!Reply
<1> HIDE DEF w
<1>3. FlowTyped' /\ work' \in WorkRow
  BY <1>1, <1>2, FlowParts DEF FlowTyped
<1>4. ColdFit(work)'
  BY <1>1, <1>2, FlowParts DEF ColdFit
<1>5. Search!AnswerPermitted'
  BY <1>1, <1>2 DEF Search!AnswerPermitted
<1>6. Search!RightPage'
  <2>1. Search!Reference' = Search!Reference
    BY <1>2 DEF Search!Reference, Search!Eligible
  <2>2. Search!FtsOnly' <=> query.fts
    BY <1>1, <1>2, FlowParts, FlowFacts DEF Search!FtsOnly, ColdFit
  <2> QED
    BY <1>2, <2>1, <2>2 DEF Search!RightPage, Search!WithinDepth, Search!Reached
<1>7. Search!HiddenTold'
  <2>2. Search!FtsOnly' <=> query.fts
    BY <1>1, <1>2, FlowParts, FlowFacts DEF Search!FtsOnly, ColdFit
  <2> QED
    BY <1>1, <1>2, <2>2 DEF Search!HiddenTold, Wanted, Search!WithinDepth, Search!Reached
<1>8. Search!HydeUsed'
  BY <1>1, <1>2 DEF Search!HydeUsed
<1>9. Answered'
  BY <1>2, <1>5, <1>6, <1>7, <1>8 DEF Answered, FailClasses
<1> QED
  BY <1>1, <1>2, <1>3, <1>4, <1>9 DEF FlowInv

LEMMA FailKeeps ==
  ASSUME FlowInv, work.at # "done", NEW class \in FailClasses, Search!Fail(class)
  PROVE  FlowInv'
<1> DEFINE a == [Search!NoAnswer EXCEPT !.class = class]
<1>1. a.results = {} /\ a.class = class /\ a.class # "ok" /\ ~a.hyde
  BY DEF Search!NoAnswer, FailClasses
<1>2. Search!Reply(a)
  BY DEF Search!Fail
<1> HIDE DEF a
<1> QED
  BY <1>1, <1>2, ReplyKeeps

\* What the index's changes disturb.
LEMMA IndexChangeKeeps == ASSUME FlowInv, NEW c \in Chunks, Search!ChangeIndex(c) PROVE FlowInv'
<1>1. /\ answer = Search!NoAnswer /\ changes' = changes + 1 /\ UNCHANGED <<query, work, answer>>
      /\ stored' \subseteq Chunks /\ open' \subseteq Chunks /\ shut' = shut \ open'
  BY FlowParts DEF Search!ChangeIndex, FlowTyped
<1>2. answer.class = "none" /\ work.at # "done" /\ WorkFits(work)
  BY <1>1, FlowParts DEF Search!NoAnswer, Answered, FailClasses
<1>3. FlowTyped' /\ work' \in WorkRow /\ ColdFit(work)' /\ changes' # 0
  BY <1>1, FlowParts DEF FlowTyped, ColdFit
<1>4. RowsFit(work)' /\ PathFit(work)' /\ HydeFit(work)'
  BY <1>1, <1>2 DEF WorkFits, RowsFit, PathFit, HydeFit, Search!HydeSuppressed
<1>5. GraphFit(work)' /\ PoolFit(work)'
  BY <1>1, <1>2, <1>3 DEF WorkFits, GraphFit, PoolFit
<1>6. answer' = Search!NoAnswer'
  BY <1>1 DEF Search!NoAnswer
<1> QED
  BY <1>1, <1>2, <1>3, <1>4, <1>5, <1>6 DEF FlowInv, WorkFits

LEMMA LookUpKeeps == ASSUME FlowInv, Search!LookUp PROVE FlowInv'
<1> DEFINE w == [work EXCEPT !.at = "hyde"]
<1>1. w \in WorkRow /\ w.at = "hyde" /\ w.vector = work.vector /\ w.embedded = work.embedded /\ w.graph = work.graph /\ w.pool = work.pool
  BY FlowParts, FlowFacts DEF WorkRow, SearchPlaces
<1>2. work.at = "arrived" /\ (Search!Go(w) \/ \E class \in FailClasses : Search!Fail(class))
  BY DEF Search!LookUp, FailClasses
<1> HIDE DEF w
<1>3. ColdFit(w) /\ WorkFits(w)
  BY <1>1, <1>2, FlowParts DEF ColdFit, WorkFits, RowsFit, PathFit, HydeFit, GraphFit, PoolFit
<1> QED
  BY <1>1, <1>2, <1>3, GoKeeps, FailKeeps

\* Steps that fetch no candidates.
LEMMA HydeWarnKeeps ==
  ASSUME FlowInv,
         work.at = "hyde",
         NEW e \in BOOLEAN,
         query.fts => ~e,
         Search!Go([work EXCEPT !.at = "pipeline", !.warning = "hyde", !.embedded = e])
  PROVE  FlowInv'
<1> DEFINE w == [work EXCEPT !.at = "pipeline", !.warning = "hyde", !.embedded = e]
<1>1. /\ w \in WorkRow /\ w.at = "pipeline" /\ w.warning = "hyde" /\ w.embedded = e /\ w.graph = work.graph
      /\ w.pool = work.pool /\ w.vector = work.vector /\ w.used = work.used /\ w.expanded = work.expanded
      /\ w.hidden = work.hidden
  <2>1. w \in WorkRow
    BY FlowParts, FlowFacts DEF WorkRow, SearchPlaces
  <2>2. /\ w.at = "pipeline" /\ w.warning = "hyde" /\ w.embedded = e /\ w.graph = work.graph /\ w.pool = work.pool
        /\ w.vector = work.vector /\ w.used = work.used /\ w.expanded = work.expanded /\ w.hidden = work.hidden
    BY FlowParts DEF WorkRow
  <2> QED
    BY <2>1, <2>2
<1>2. Search!Go(w) /\ work.at # "done"
  OBVIOUS
<1> HIDE DEF w
<1>3. ColdFit(w)
  BY <1>1, FlowParts, FlowFacts DEF ColdFit, WorkFits, PathFit
<1>4. RowsFit(w)
  BY <1>1, <1>2, FlowParts DEF RowsFit, WorkFits
<1>5. PathFit(w)
  BY <1>1, <1>2, FlowParts, FlowFacts DEF PathFit, WorkFits, Search!Modes
<1>6. HydeFit(w)
  BY <1>1, <1>2, FlowParts, FlowFacts DEF HydeFit, WorkFits, PathFit, Search!HydeSuppressed
<1>7. GraphFit(w)
  BY <1>1 DEF GraphFit
<1>8. PoolFit(w)
  BY <1>1 DEF PoolFit
<1> QED
  BY <1>1, <1>2, <1>3, <1>4, <1>5, <1>6, <1>7, <1>8, GoKeeps DEF WorkFits

LEMMA HydeVectorKeeps ==
  ASSUME FlowInv,
         work.at = "hyde",
         ~query.fts,
         Search!Go([work EXCEPT !.at = "pipeline", !.vector = TRUE, !.embedded = TRUE])
  PROVE  FlowInv'
<1> DEFINE w == [work EXCEPT !.at = "pipeline", !.vector = TRUE, !.embedded = TRUE]
<1>1. /\ w \in WorkRow /\ w.at = "pipeline" /\ w.vector = TRUE /\ w.embedded = TRUE /\ w.graph = work.graph
      /\ w.pool = work.pool /\ w.used = work.used /\ w.expanded = work.expanded /\ w.hidden = work.hidden
      /\ w.warning = work.warning
  <2>1. w \in WorkRow
    BY FlowParts, FlowFacts DEF WorkRow, SearchPlaces
  <2>2. /\ w.at = "pipeline" /\ w.vector = TRUE /\ w.embedded = TRUE /\ w.graph = work.graph /\ w.pool = work.pool
        /\ w.used = work.used /\ w.expanded = work.expanded /\ w.hidden = work.hidden /\ w.warning = work.warning
    BY FlowParts DEF WorkRow
  <2> QED
    BY <2>1, <2>2
<1>2. Search!Go(w) /\ work.at # "done"
  OBVIOUS
<1> HIDE DEF w
<1>3. ColdFit(w)
  BY <1>1, FlowParts, FlowFacts DEF ColdFit, WorkFits, PathFit
<1>4. RowsFit(w)
  BY <1>1, <1>2, FlowParts DEF RowsFit, WorkFits
<1>5. PathFit(w)
  BY <1>1, <1>2, FlowParts, FlowFacts DEF PathFit, WorkFits, Search!Modes
<1>6. HydeFit(w)
  BY <1>1, <1>2, FlowParts, FlowFacts DEF HydeFit, WorkFits, PathFit, Search!HydeSuppressed
<1>7. GraphFit(w)
  BY <1>1 DEF GraphFit
<1>8. PoolFit(w)
  BY <1>1 DEF PoolFit
<1> QED
  BY <1>1, <1>2, <1>3, <1>4, <1>5, <1>6, <1>7, <1>8, GoKeeps DEF WorkFits

LEMMA HydeNoneKeeps ==
  ASSUME FlowInv,
         work.at = "hyde",
         ~query.hyde \/ Search!HydeSuppressed,
         Search!Go([work EXCEPT !.at = "pipeline"])
  PROVE  FlowInv'
<1> DEFINE w == [work EXCEPT !.at = "pipeline"]
<1>1. /\ w \in WorkRow /\ w.at = "pipeline" /\ w.graph = work.graph /\ w.pool = work.pool /\ w.vector = work.vector
      /\ w.used = work.used /\ w.embedded = work.embedded /\ w.expanded = work.expanded /\ w.hidden = work.hidden
      /\ w.warning = work.warning
  <2>1. w \in WorkRow
    BY FlowParts, FlowFacts DEF WorkRow, SearchPlaces
  <2>2. /\ w.at = "pipeline" /\ w.graph = work.graph /\ w.pool = work.pool /\ w.vector = work.vector /\ w.used = work.used
        /\ w.embedded = work.embedded /\ w.expanded = work.expanded /\ w.hidden = work.hidden /\ w.warning = work.warning
    BY FlowParts DEF WorkRow
  <2> QED
    BY <2>1, <2>2
<1>2. Search!Go(w) /\ work.at # "done"
  OBVIOUS
<1> HIDE DEF w
<1>3. ColdFit(w)
  BY <1>1, FlowParts, FlowFacts DEF ColdFit, WorkFits, PathFit
<1>4. RowsFit(w)
  BY <1>1, <1>2, FlowParts DEF RowsFit, WorkFits
<1>5. PathFit(w)
  BY <1>1, <1>2, FlowParts, FlowFacts DEF PathFit, WorkFits, Search!Modes
<1>6. HydeFit(w)
  BY <1>1, <1>2, FlowParts, FlowFacts DEF HydeFit, WorkFits, PathFit, Search!HydeSuppressed
<1>7. GraphFit(w)
  BY <1>1 DEF GraphFit
<1>8. PoolFit(w)
  BY <1>1 DEF PoolFit
<1> QED
  BY <1>1, <1>2, <1>3, <1>4, <1>5, <1>6, <1>7, <1>8, GoKeeps DEF WorkFits

LEMMA MoveKeeps ==
  ASSUME FlowInv,
         NEW p \in {"explain", "expand", "local", "global", "ppr", "fusion", "standard"},
         work.at \in {"pipeline", "expand", "local", "global", "ppr", "fetch", "explain", "variants", "fusion"},
         p \in {"explain", "expand", "local", "global", "ppr"} => query.mode # "none" /\ ~query.fts,
         p = "explain" => query.kind = "explain",
         p = "fusion" => query.fusion /\ ~query.fts,
         Search!Go([work EXCEPT !.at = p])
  PROVE  FlowInv'
<1> DEFINE w == [work EXCEPT !.at = p]
<1>1. /\ w \in WorkRow /\ w.at = p /\ w.graph = work.graph /\ w.pool = work.pool /\ w.vector = work.vector
      /\ w.used = work.used /\ w.embedded = work.embedded /\ w.expanded = work.expanded /\ w.hidden = work.hidden
      /\ w.warning = work.warning
  <2>1. w \in WorkRow
    BY FlowParts, FlowFacts DEF WorkRow, SearchPlaces
  <2>2. /\ w.at = p /\ w.graph = work.graph /\ w.pool = work.pool /\ w.vector = work.vector /\ w.used = work.used
        /\ w.embedded = work.embedded /\ w.expanded = work.expanded /\ w.hidden = work.hidden /\ w.warning = work.warning
    BY FlowParts DEF WorkRow
  <2> QED
    BY <2>1, <2>2
<1>2. Search!Go(w) /\ work.at # "done"
  OBVIOUS
<1> HIDE DEF w
<1>3. ColdFit(w)
  BY <1>1, FlowParts, FlowFacts DEF ColdFit, WorkFits, PathFit
<1>4. RowsFit(w)
  BY <1>1, <1>2, FlowParts DEF RowsFit, WorkFits
<1>5. PathFit(w)
  BY <1>1, <1>2, FlowParts, FlowFacts DEF PathFit, WorkFits, Search!Modes
<1>6. HydeFit(w)
  BY <1>1, <1>2, FlowParts, FlowFacts DEF HydeFit, WorkFits, PathFit, Search!HydeSuppressed
<1>7. GraphFit(w)
  BY <1>1 DEF GraphFit
<1>8. PoolFit(w)
  BY <1>1 DEF PoolFit
<1> QED
  BY <1>1, <1>2, <1>3, <1>4, <1>5, <1>6, <1>7, <1>8, GoKeeps DEF WorkFits

LEMMA ExpandedKeeps ==
  ASSUME FlowInv,
         NEW x \in BOOLEAN,
         work.at \in {"expand", "local"},
         NEW p \in {"fusion", "standard"},
         p = "fusion" => query.fusion,
         Search!Go([work EXCEPT !.at = p, !.expanded = x])
  PROVE  FlowInv'
<1> DEFINE w == [work EXCEPT !.at = p, !.expanded = x]
<1>1. /\ w \in WorkRow /\ w.at = p /\ w.expanded = x /\ w.graph = work.graph /\ w.pool = work.pool
      /\ w.vector = work.vector /\ w.used = work.used /\ w.embedded = work.embedded /\ w.hidden = work.hidden
      /\ w.warning = work.warning
  <2>1. w \in WorkRow
    BY FlowParts, FlowFacts DEF WorkRow, SearchPlaces
  <2>2. /\ w.at = p /\ w.expanded = x /\ w.graph = work.graph /\ w.pool = work.pool /\ w.vector = work.vector
        /\ w.used = work.used /\ w.embedded = work.embedded /\ w.hidden = work.hidden /\ w.warning = work.warning
    BY FlowParts DEF WorkRow
  <2> QED
    BY <2>1, <2>2
<1>2. Search!Go(w) /\ work.at # "done"
  OBVIOUS
<1> HIDE DEF w
<1>3. ColdFit(w)
  BY <1>1, FlowParts, FlowFacts DEF ColdFit, WorkFits, PathFit
<1>4. RowsFit(w)
  BY <1>1, <1>2, FlowParts DEF RowsFit, WorkFits
<1>5. PathFit(w)
  BY <1>1, <1>2, FlowParts, FlowFacts DEF PathFit, WorkFits, Search!Modes
<1>6. HydeFit(w)
  BY <1>1, <1>2, FlowParts, FlowFacts DEF HydeFit, WorkFits, PathFit, Search!HydeSuppressed
<1>7. GraphFit(w)
  BY <1>1 DEF GraphFit
<1>8. PoolFit(w)
  BY <1>1 DEF PoolFit
<1> QED
  BY <1>1, <1>2, <1>3, <1>4, <1>5, <1>6, <1>7, <1>8, GoKeeps DEF WorkFits

LEMMA FusedKeeps ==
  ASSUME FlowInv,
         work.at = "fusion",
         NEW p \in {"standard", "variants"},
         NEW v \in BOOLEAN,
         NEW e \in BOOLEAN,
         NEW m \in {"none", "hyde", "fusion"},
         Search!Go([work EXCEPT !.at = p, !.attempted = TRUE, !.vector = v, !.warning = m, !.embedded = e])
  PROVE  FlowInv'
<1> DEFINE w == [work EXCEPT !.at = p, !.attempted = TRUE, !.vector = v, !.warning = m, !.embedded = e]
<1>1. /\ w \in WorkRow /\ w.at = p /\ w.vector = v /\ w.warning = m /\ w.embedded = e /\ w.graph = work.graph
      /\ w.pool = work.pool /\ w.used = work.used /\ w.expanded = work.expanded /\ w.hidden = work.hidden
  <2>1. w \in WorkRow
    BY FlowParts, FlowFacts DEF WorkRow, SearchPlaces
  <2>2. /\ w.at = p /\ w.vector = v /\ w.warning = m /\ w.embedded = e /\ w.graph = work.graph /\ w.pool = work.pool
        /\ w.used = work.used /\ w.expanded = work.expanded /\ w.hidden = work.hidden
    BY FlowParts DEF WorkRow
  <2> QED
    BY <2>1, <2>2
<1>2. Search!Go(w) /\ work.at # "done"
  OBVIOUS
<1> HIDE DEF w
<1>3. ColdFit(w)
  BY <1>1, FlowParts, FlowFacts DEF ColdFit, WorkFits, PathFit
<1>4. RowsFit(w)
  BY <1>1, <1>2, FlowParts DEF RowsFit, WorkFits
<1>5. PathFit(w)
  BY <1>1, <1>2, FlowParts, FlowFacts DEF PathFit, WorkFits, Search!Modes
<1>6. HydeFit(w)
  BY <1>1, <1>2, FlowParts, FlowFacts DEF HydeFit, WorkFits, PathFit, Search!HydeSuppressed
<1>7. GraphFit(w)
  BY <1>1 DEF GraphFit
<1>8. PoolFit(w)
  BY <1>1 DEF PoolFit
<1> QED
  BY <1>1, <1>2, <1>3, <1>4, <1>5, <1>6, <1>7, <1>8, GoKeeps DEF WorkFits

LEMMA UsedKeeps ==
  ASSUME FlowInv,
         work.at = "standard",
         work.vector,
         Search!Go([work EXCEPT !.at = "retrieve", !.used = TRUE])
  PROVE  FlowInv'
<1> DEFINE w == [work EXCEPT !.at = "retrieve", !.used = TRUE]
<1>1. /\ w \in WorkRow /\ w.at = "retrieve" /\ w.used = TRUE /\ w.graph = work.graph /\ w.pool = work.pool
      /\ w.vector = work.vector /\ w.embedded = work.embedded /\ w.expanded = work.expanded /\ w.hidden = work.hidden
      /\ w.warning = work.warning
  <2>1. w \in WorkRow
    BY FlowParts, FlowFacts DEF WorkRow, SearchPlaces
  <2>2. /\ w.at = "retrieve" /\ w.used = TRUE /\ w.graph = work.graph /\ w.pool = work.pool /\ w.vector = work.vector
        /\ w.embedded = work.embedded /\ w.expanded = work.expanded /\ w.hidden = work.hidden /\ w.warning = work.warning
    BY FlowParts DEF WorkRow
  <2> QED
    BY <2>1, <2>2
<1>2. Search!Go(w) /\ work.at # "done"
  OBVIOUS
<1> HIDE DEF w
<1>3. ColdFit(w)
  BY <1>1, FlowParts, FlowFacts DEF ColdFit, WorkFits, PathFit
<1>4. RowsFit(w)
  BY <1>1, <1>2, FlowParts DEF RowsFit, WorkFits
<1>5. PathFit(w)
  BY <1>1, <1>2, FlowParts, FlowFacts DEF PathFit, WorkFits, Search!Modes
<1>6. HydeFit(w)
  BY <1>1, <1>2, FlowParts, FlowFacts DEF HydeFit, WorkFits, PathFit, Search!HydeSuppressed
<1>7. GraphFit(w)
  BY <1>1 DEF GraphFit
<1>8. PoolFit(w)
  BY <1>1 DEF PoolFit
<1> QED
  BY <1>1, <1>2, <1>3, <1>4, <1>5, <1>6, <1>7, <1>8, GoKeeps DEF WorkFits

LEMMA EmbedsKeeps ==
  ASSUME FlowInv,
         work.at = "standard",
         ~work.vector,
         NEW e \in BOOLEAN,
         query.fts => ~e,
         Search!Go([work EXCEPT !.at = "retrieve", !.embedded = e])
  PROVE  FlowInv'
<1> DEFINE w == [work EXCEPT !.at = "retrieve", !.embedded = e]
<1>1. /\ w \in WorkRow /\ w.at = "retrieve" /\ w.embedded = e /\ w.graph = work.graph /\ w.pool = work.pool
      /\ w.vector = work.vector /\ w.used = work.used /\ w.expanded = work.expanded /\ w.hidden = work.hidden
      /\ w.warning = work.warning
  <2>1. w \in WorkRow
    BY FlowParts, FlowFacts DEF WorkRow, SearchPlaces
  <2>2. /\ w.at = "retrieve" /\ w.embedded = e /\ w.graph = work.graph /\ w.pool = work.pool /\ w.vector = work.vector
        /\ w.used = work.used /\ w.expanded = work.expanded /\ w.hidden = work.hidden /\ w.warning = work.warning
    BY FlowParts DEF WorkRow
  <2> QED
    BY <2>1, <2>2
<1>2. Search!Go(w) /\ work.at # "done"
  OBVIOUS
<1> HIDE DEF w
<1>3. ColdFit(w)
  BY <1>1, FlowParts, FlowFacts DEF ColdFit, WorkFits, PathFit
<1>4. RowsFit(w)
  BY <1>1, <1>2, FlowParts DEF RowsFit, WorkFits
<1>5. PathFit(w)
  BY <1>1, <1>2, FlowParts, FlowFacts DEF PathFit, WorkFits, Search!Modes
<1>6. HydeFit(w)
  BY <1>1, <1>2, FlowParts, FlowFacts DEF HydeFit, WorkFits, PathFit, Search!HydeSuppressed
<1>7. GraphFit(w)
  BY <1>1 DEF GraphFit
<1>8. PoolFit(w)
  BY <1>1 DEF PoolFit
<1> QED
  BY <1>1, <1>2, <1>3, <1>4, <1>5, <1>6, <1>7, <1>8, GoKeeps DEF WorkFits

LEMMA IdsKeeps ==
  ASSUME FlowInv,
         work.at \in {"local", "global", "ppr"},
         NEW ids \in SUBSET Chunks,
         Search!Go([work EXCEPT !.at = "fetch", !.ids = ids])
  PROVE  FlowInv'
<1> DEFINE w == [work EXCEPT !.at = "fetch", !.ids = ids]
<1>1. /\ w \in WorkRow /\ w.at = "fetch" /\ w.graph = work.graph /\ w.pool = work.pool /\ w.vector = work.vector
      /\ w.used = work.used /\ w.embedded = work.embedded /\ w.expanded = work.expanded /\ w.hidden = work.hidden
      /\ w.warning = work.warning
  <2>1. w \in WorkRow
    BY FlowParts, FlowFacts DEF WorkRow, SearchPlaces
  <2>2. /\ w.at = "fetch" /\ w.graph = work.graph /\ w.pool = work.pool /\ w.vector = work.vector /\ w.used = work.used
        /\ w.embedded = work.embedded /\ w.expanded = work.expanded /\ w.hidden = work.hidden /\ w.warning = work.warning
    BY FlowParts DEF WorkRow
  <2> QED
    BY <2>1, <2>2
<1>2. Search!Go(w) /\ work.at # "done"
  OBVIOUS
<1> HIDE DEF w
<1>3. ColdFit(w)
  BY <1>1, FlowParts, FlowFacts DEF ColdFit, WorkFits, PathFit
<1>4. RowsFit(w)
  BY <1>1, <1>2, FlowParts DEF RowsFit, WorkFits
<1>5. PathFit(w)
  BY <1>1, <1>2, FlowParts, FlowFacts DEF PathFit, WorkFits, Search!Modes
<1>6. HydeFit(w)
  BY <1>1, <1>2, FlowParts, FlowFacts DEF HydeFit, WorkFits, PathFit, Search!HydeSuppressed
<1>7. GraphFit(w)
  BY <1>1 DEF GraphFit
<1>8. PoolFit(w)
  BY <1>1 DEF PoolFit
<1> QED
  BY <1>1, <1>2, <1>3, <1>4, <1>5, <1>6, <1>7, <1>8, GoKeeps DEF WorkFits

\* What the reads of the table yield.
LEMMA RowFacts ==
  ASSUME NEW c \in Chunks, NEW g \in BOOLEAN
  PROVE  /\ Search!Row(c, g) \in Candidates /\ Search!Row(c, g).id = c /\ Search!Row(c, g).graph = g
         /\ Search!Row(c, g).open = (c \in open)
  BY DEF Search!Row, Candidates

\* All that a search of any depth could find.
AllRows == Search!Rows(Search!Reached)

LEMMA HybridFacts ==
  ASSUME FlowTyped
  PROVE  /\ AllRows \subseteq Candidates
         /\ \A r \in AllRows : /\ r = Search!Row(r.id, FALSE) /\ r.id \in stored /\ (r.open <=> r.id \in open)
                               /\ query.scope = "exact" => r.id \in InScope
         /\ \A c \in stored : (query.scope = "exact" => c \in InScope) => Search!Row(c, FALSE) \in AllRows
<1>1. stored \subseteq Chunks
  BY DEF FlowTyped
<1>2. ASSUME NEW r \in AllRows
      PROVE  /\ r \in Candidates /\ r = Search!Row(r.id, FALSE) /\ r.id \in stored /\ (r.open <=> r.id \in open)
             /\ query.scope = "exact" => r.id \in InScope
  <2>1. PICK c \in stored : r = Search!Row(c, FALSE) /\ (query.scope = "exact" => c \in InScope)
    BY DEF AllRows, Search!Rows, Search!Reached
  <2> QED
    BY <2>1, <1>1, RowFacts
<1>3. \A c \in stored : (query.scope = "exact" => c \in InScope) => Search!Row(c, FALSE) \in AllRows
  BY DEF AllRows, Search!Rows, Search!Reached
<1> QED
  BY <1>2, <1>3

LEMMA SearchCount == \A S : Search!Cardinality(S) = Cardinality(S)
  BY DEF Search!Cardinality, Cardinality, Search!IsFiniteSet, IsFiniteSet

\* The vector leg of a collection that fits in the depth reads all of it.
LEMMA NearestAreAll ==
  ASSUME FlowTyped, Search!WithinDepth, NEW near \in Search!VectorLeg
  PROVE  near = Search!Reached
<1>1. Search!Reached \subseteq Chunks
  BY DEF FlowTyped, Search!Reached
<1>2. IsFiniteSet(Search!Reached)
  BY <1>1, SearchFits, FS_Subset
<1>3. near \subseteq Search!Reached /\ Cardinality(near) = Cardinality(Search!Reached)
  BY SearchCount DEF Search!VectorLeg
<1> QED
  BY <1>2, <1>3, FS_Subset

\* What a search finds is part of that, and all of it within the depth.
LEMMA LegFacts ==
  ASSUME FlowTyped, NEW found
  PROVE  /\ found \in Search!FtsRows => found \subseteq AllRows
         /\ found \in Search!HybridRows \cup Search!FusedRows =>
              found \subseteq AllRows /\ (Search!WithinDepth => found = AllRows)
<1>1. ASSUME found \in Search!FtsRows PROVE found \subseteq AllRows
  <2>1. PICK ids \in Search!FtsLeg : found = Search!Rows(ids)
    BY <1>1 DEF Search!FtsRows
  <2> QED
    BY <2>1 DEF Search!FtsLeg, Search!Rows, AllRows
<1>2. ASSUME found \in Search!HybridRows \cup Search!FusedRows
      PROVE  found \subseteq AllRows /\ (Search!WithinDepth => found = AllRows)
  <2>1. PICK ids \in SUBSET Search!Reached, near \in Search!VectorLeg : found = Search!Rows(ids) /\ near \subseteq ids
    <3>1. CASE found \in Search!HybridRows
      BY <3>1 DEF Search!HybridRows
    <3>2. CASE found \in Search!FusedRows
      BY <3>2 DEF Search!FusedRows
    <3> QED
      BY <1>2, <3>1, <3>2
  <2>2. found \subseteq AllRows
    BY <2>1 DEF Search!Rows, AllRows
  <2>3. Search!WithinDepth => ids = Search!Reached
    BY <2>1, NearestAreAll
  <2> QED
    BY <2>1, <2>2, <2>3 DEF AllRows
<1> QED
  BY <1>1, <1>2

LEMMA ByIdFacts ==
  ASSUME FlowTyped, NEW ids
  PROVE  /\ Search!RowsById(ids) \subseteq Candidates
         /\ \A r \in Search!RowsById(ids) : r.id \in stored /\ (r.open <=> r.id \in open)
<1>1. stored \subseteq Chunks
  BY DEF FlowTyped
<1>2. ASSUME NEW r \in Search!RowsById(ids)
      PROVE  r \in Candidates /\ r.id \in stored /\ (r.open <=> r.id \in open)
  <2>1. PICK c \in stored : r = Search!Row(c, TRUE)
    BY DEF Search!RowsById
  <2> QED
    BY <2>1, <1>1, RowFacts
<1> QED
  BY <1>2

\* The filters.
Filtered(S) == Search!Wildcarded(Search!Globbed(S))

LEMMA FilterFacts ==
  ASSUME query \in Search!Queries, NEW S
  PROVE  /\ \A r : r \in Search!Globbed(S) <=> r \in S /\ (query.glob => r.id \in Matching)
         /\ \A r : r \in Filtered(S) <=> r \in Search!Globbed(S) /\ (query.scope = "prefix" => r.id \in InScope)
         /\ \A r : r \in Search!Admitted(S) <=> r \in S /\ r.open
         /\ Search!Hides(S) <=> \E r \in S : ~r.open
         /\ Search!Hides(S) \in BOOLEAN
<1>1. query.glob \in BOOLEAN
  BY DEF Search!Queries
<1>2. \A r : r \in Search!Globbed(S) <=> r \in S /\ (query.glob => r.id \in Matching)
  BY <1>1 DEF Search!Globbed
<1>3. \A r : r \in Filtered(S) <=> r \in Search!Globbed(S) /\ (query.scope = "prefix" => r.id \in InScope)
  BY DEF Filtered, Search!Wildcarded
<1>4. \A r : r \in Search!Admitted(S) <=> r \in S /\ r.open
  BY DEF Search!Admitted
<1>5. (Search!Hides(S) <=> \E r \in S : ~r.open) /\ Search!Hides(S) \in BOOLEAN
  BY DEF Search!Hides
<1> QED
  BY <1>2, <1>3, <1>4, <1>5

\* What a standard search admits, of all that the table holds or of a part of it.
LEMMA FilteredFacts ==
  ASSUME FlowTyped, NEW found \in SUBSET AllRows
  PROVE  /\ Search!Admitted(Filtered(found)) \subseteq Candidates
         /\ \A r \in Search!Admitted(Filtered(found)) :
              /\ r.open /\ r.id \in open /\ (query.glob => r.id \in Matching) /\ (query.scope # "none" => r.id \in InScope)
         /\ Search!Hides(Filtered(found)) \in BOOLEAN
         /\ found = AllRows =>
              /\ Search!Admitted(Filtered(found)) = {Search!Row(c, FALSE) : c \in Search!Eligible}
              /\ (\E c \in stored \ open : Wanted(c)) => Search!Hides(Filtered(found))
<1>0. query \in Search!Queries /\ query.scope \in {"none", "exact", "prefix"} /\ stored \subseteq Chunks
  BY DEF FlowTyped, Search!Queries
<1>1. \A r : r \in Filtered(found) <=> r \in found /\ (query.glob => r.id \in Matching) /\ (query.scope = "prefix" => r.id \in InScope)
  BY <1>0, FilterFacts
<1>2. \A r : r \in Search!Admitted(Filtered(found)) <=> r \in Filtered(found) /\ r.open
  BY <1>0, FilterFacts
<1>3. (Search!Hides(Filtered(found)) <=> \E r \in Filtered(found) : ~r.open) /\ Search!Hides(Filtered(found)) \in BOOLEAN
  BY <1>0, FilterFacts
<1>4. ASSUME NEW r \in Search!Admitted(Filtered(found))
      PROVE  r \in Candidates /\ r.open /\ r.id \in open /\ (query.glob => r.id \in Matching) /\ (query.scope # "none" => r.id \in InScope)
  BY <1>0, <1>1, <1>2, HybridFacts
<1>5. ASSUME found = AllRows PROVE Search!Admitted(Filtered(found)) = {Search!Row(c, FALSE) : c \in Search!Eligible}
  <2>1. ASSUME NEW r \in Search!Admitted(Filtered(found)) PROVE r \in {Search!Row(c, FALSE) : c \in Search!Eligible}
    <3>1. r \in AllRows
      BY <1>1, <1>2
    <3>2. r = Search!Row(r.id, FALSE) /\ r.id \in stored /\ r.id \in open
      BY <3>1, <1>4, HybridFacts
    <3>3. r.id \in Search!Eligible
      BY <3>2, <1>4 DEF Search!Eligible
    <3> QED
      BY <3>2, <3>3
  <2>2. ASSUME NEW c \in Search!Eligible PROVE Search!Row(c, FALSE) \in Search!Admitted(Filtered(found))
    <3>1. c \in open /\ c \in stored /\ (query.glob => c \in Matching) /\ (query.scope # "none" => c \in InScope)
      BY DEF Search!Eligible
    <3>2. Search!Row(c, FALSE) \in found /\ Search!Row(c, FALSE).id = c /\ Search!Row(c, FALSE).open
      BY <1>0, <1>5, <3>1, HybridFacts, RowFacts
    <3> QED
      BY <3>1, <3>2, <1>0, <1>1, <1>2
  <2> QED
    BY <2>1, <2>2
<1>6. ASSUME found = AllRows, NEW c \in stored \ open, Wanted(c) PROVE Search!Hides(Filtered(found))
  <2>1. Search!Row(c, FALSE) \in found /\ Search!Row(c, FALSE).id = c /\ ~Search!Row(c, FALSE).open
    BY <1>0, <1>6, HybridFacts, RowFacts DEF Wanted
  <2>2. Search!Row(c, FALSE) \in Filtered(found)
    BY <2>1, <1>0, <1>1, <1>6 DEF Wanted
  <2> QED
    BY <2>1, <2>2, <1>3
<1> QED
  BY <1>3, <1>4, <1>5, <1>6

\* Steps that fetch candidates.
LEMMA RetrievedKeeps ==
  ASSUME FlowInv,
         work.at \in {"retrieve", "variants"},
         NEW found \in SUBSET AllRows,
         ~query.fts /\ Search!WithinDepth => found = AllRows,
         NEW x \in BOOLEAN,
         Search!Go([work EXCEPT !.at = "rank",
                                !.applied = x,
                                !.pool = Search!Admitted(Filtered(found)),
                                !.hidden = Search!Hides(Filtered(found))])
  PROVE  FlowInv'
<1> DEFINE w == [work EXCEPT !.at = "rank",
                             !.applied = x,
                             !.pool = Search!Admitted(Filtered(found)),
                             !.hidden = Search!Hides(Filtered(found))]
<1>1. /\ w \in WorkRow /\ w.at = "rank" /\ w.pool = Search!Admitted(Filtered(found))
      /\ w.hidden = Search!Hides(Filtered(found)) /\ w.graph = work.graph /\ w.vector = work.vector /\ w.used = work.used
      /\ w.embedded = work.embedded /\ w.expanded = work.expanded /\ w.warning = work.warning
  <2>1. w \in WorkRow
    BY FlowParts, FlowFacts, FilteredFacts DEF WorkRow, SearchPlaces
  <2>2. /\ w.at = "rank" /\ w.pool = Search!Admitted(Filtered(found)) /\ w.hidden = Search!Hides(Filtered(found))
        /\ w.graph = work.graph /\ w.vector = work.vector /\ w.used = work.used /\ w.embedded = work.embedded
        /\ w.expanded = work.expanded /\ w.warning = work.warning
    BY FlowParts DEF WorkRow
  <2> QED
    BY <2>1, <2>2
<1>2. Search!Go(w) /\ work.at # "done"
  OBVIOUS
<1> HIDE DEF w
<1>3. ColdFit(w)
  BY <1>1, FlowParts, FlowFacts DEF ColdFit, WorkFits, PathFit
<1>4. RowsFit(w)
  BY <1>1, <1>2, FlowParts, FilteredFacts DEF RowsFit, WorkFits, FlowTyped
<1>5. PathFit(w)
  BY <1>1, <1>2, FlowParts, FlowFacts DEF PathFit, WorkFits
<1>6. HydeFit(w)
  BY <1>1, <1>2, FlowParts, FlowFacts DEF HydeFit, WorkFits, PathFit, Search!HydeSuppressed
<1>7. GraphFit(w)
  BY <1>1, <1>2, FlowParts, FlowFacts DEF GraphFit
<1>8. PoolFit(w)
  BY <1>1, <1>2, FlowParts, FlowFacts, FilteredFacts DEF PoolFit
<1> QED
  BY <1>1, <1>2, <1>3, <1>4, <1>5, <1>6, <1>7, <1>8, GoKeeps DEF WorkFits

LEMMA GlobalKeeps ==
  ASSUME FlowInv,
         work.at = "fetch",
         query.mode = "global",
         NEW rows,
         rows = Search!RowsById(work.ids),
         Search!Go([work EXCEPT !.at = "rank",
                                !.expanded = TRUE,
                                !.graph = Search!Admitted(rows),
                                !.pool = Search!Admitted(rows),
                                !.hidden = Search!Hides(rows)])
  PROVE  FlowInv'
<1>0. /\ Search!Admitted(rows) \subseteq Candidates /\ Search!Hides(rows) \in BOOLEAN
      /\ \A r \in Search!Admitted(rows) : r.open /\ r.id \in open
  BY FlowParts, FilterFacts, ByIdFacts
<1> DEFINE w == [work EXCEPT !.at = "rank",
                             !.expanded = TRUE,
                             !.graph = Search!Admitted(rows),
                             !.pool = Search!Admitted(rows),
                             !.hidden = Search!Hides(rows)]
<1>1. /\ w \in WorkRow /\ w.at = "rank" /\ w.expanded = TRUE /\ w.graph = Search!Admitted(rows)
      /\ w.pool = Search!Admitted(rows) /\ w.hidden = Search!Hides(rows) /\ w.vector = work.vector /\ w.used = work.used
      /\ w.embedded = work.embedded /\ w.warning = work.warning
  <2>1. w \in WorkRow
    BY FlowParts, FlowFacts, <1>0 DEF WorkRow, SearchPlaces
  <2>2. /\ w.at = "rank" /\ w.expanded = TRUE /\ w.graph = Search!Admitted(rows) /\ w.pool = Search!Admitted(rows)
        /\ w.hidden = Search!Hides(rows) /\ w.vector = work.vector /\ w.used = work.used /\ w.embedded = work.embedded
        /\ w.warning = work.warning
    BY FlowParts DEF WorkRow
  <2> QED
    BY <2>1, <2>2
<1>2. Search!Go(w) /\ work.at # "done"
  OBVIOUS
<1> HIDE DEF w
<1>3. ColdFit(w)
  BY <1>1, FlowParts, FlowFacts DEF ColdFit, WorkFits, PathFit
<1>4. RowsFit(w)
  BY <1>1, <1>2, FlowParts, <1>0 DEF RowsFit, WorkFits, FlowTyped
<1>5. PathFit(w)
  BY <1>1, <1>2, FlowParts, FlowFacts DEF PathFit, WorkFits
<1>6. HydeFit(w)
  BY <1>1, <1>2, FlowParts, FlowFacts DEF HydeFit, WorkFits, PathFit, Search!HydeSuppressed
<1>7. GraphFit(w)
  BY <1>1, <1>2, FlowParts, FlowFacts DEF GraphFit
<1>8. PoolFit(w)
  BY <1>1, <1>2, FlowParts, FlowFacts, <1>0 DEF PoolFit
<1> QED
  BY <1>1, <1>2, <1>3, <1>4, <1>5, <1>6, <1>7, <1>8, GoKeeps DEF WorkFits

LEMMA FetchedKeeps ==
  ASSUME FlowInv,
         work.at = "fetch",
         query.mode # "global",
         NEW rows,
         rows = Search!Globbed(Search!RowsById(work.ids)),
         Search!Go([work EXCEPT !.at = "merge",
                                !.expanded = TRUE,
                                !.graph = Search!Admitted(rows),
                                !.pool = Search!Admitted(rows),
                                !.hidden = Search!Hides(rows)])
  PROVE  FlowInv'
<1>0. /\ Search!Admitted(rows) \subseteq Candidates /\ Search!Hides(rows) \in BOOLEAN
      /\ \A r \in Search!Admitted(rows) : r.open /\ r.id \in open /\ (query.glob => r.id \in Matching)
  BY FlowParts, FilterFacts, ByIdFacts
<1> DEFINE w == [work EXCEPT !.at = "merge",
                             !.expanded = TRUE,
                             !.graph = Search!Admitted(rows),
                             !.pool = Search!Admitted(rows),
                             !.hidden = Search!Hides(rows)]
<1>1. /\ w \in WorkRow /\ w.at = "merge" /\ w.expanded = TRUE /\ w.graph = Search!Admitted(rows)
      /\ w.pool = Search!Admitted(rows) /\ w.hidden = Search!Hides(rows) /\ w.vector = work.vector /\ w.used = work.used
      /\ w.embedded = work.embedded /\ w.warning = work.warning
  <2>1. w \in WorkRow
    BY FlowParts, FlowFacts, <1>0 DEF WorkRow, SearchPlaces
  <2>2. /\ w.at = "merge" /\ w.expanded = TRUE /\ w.graph = Search!Admitted(rows) /\ w.pool = Search!Admitted(rows)
        /\ w.hidden = Search!Hides(rows) /\ w.vector = work.vector /\ w.used = work.used /\ w.embedded = work.embedded
        /\ w.warning = work.warning
    BY FlowParts DEF WorkRow
  <2> QED
    BY <2>1, <2>2
<1>2. Search!Go(w) /\ work.at # "done"
  OBVIOUS
<1> HIDE DEF w
<1>3. ColdFit(w)
  BY <1>1, FlowParts, FlowFacts DEF ColdFit, WorkFits, PathFit
<1>4. RowsFit(w)
  BY <1>1, <1>2, FlowParts, <1>0 DEF RowsFit, WorkFits, FlowTyped
<1>5. PathFit(w)
  BY <1>1, <1>2, FlowParts, FlowFacts DEF PathFit, WorkFits
<1>6. HydeFit(w)
  BY <1>1, <1>2, FlowParts, FlowFacts DEF HydeFit, WorkFits, PathFit, Search!HydeSuppressed
<1>7. GraphFit(w)
  BY <1>1, <1>2, FlowParts, FlowFacts, <1>0 DEF GraphFit
<1>8. PoolFit(w)
  BY <1>1, <1>2, FlowParts, FlowFacts DEF PoolFit
<1> QED
  BY <1>1, <1>2, <1>3, <1>4, <1>5, <1>6, <1>7, <1>8, GoKeeps DEF WorkFits

LEMMA MergedKeeps ==
  ASSUME FlowInv,
         work.at = "merge",
         NEW found \in Search!HybridRows,
         NEW rows,
         rows = Search!Globbed(found),
         Search!Go([work EXCEPT !.at = "rank",
                                !.pool = Search!Merged(work.graph, Search!Admitted(rows)),
                                !.hidden = work.hidden \/ Search!Hides(rows),
                                !.embedded = TRUE])
  PROVE  FlowInv'
<1>a. /\ query.mode # "none" /\ query.mode # "global" /\ ~query.fts /\ query.scope = "none"
      /\ \A r \in work.graph : r \in Candidates /\ r.open /\ r.id \notin shut /\ (query.glob => r.id \in Matching)
  BY FlowParts, FlowFacts DEF WorkFits, PathFit, RowsFit, GraphFit
<1>0. found \subseteq AllRows /\ (Search!WithinDepth => found = AllRows)
  BY FlowParts, LegFacts
<1>b. /\ Search!Hides(rows) \in BOOLEAN
      /\ \A r \in Search!Admitted(rows) : r \in Candidates /\ r.open /\ r.id \in open /\ (query.glob => r.id \in Matching)
  BY <1>0, FlowParts, FilterFacts, HybridFacts
<1>c. (Search!WithinDepth /\ \E c \in stored \ open : Wanted(c)) => Search!Hides(rows)
  <2> SUFFICES ASSUME Search!WithinDepth, NEW c \in stored \ open, Wanted(c) PROVE \E r \in rows : ~r.open
    BY FlowParts, FilterFacts
  <2>1. Search!Row(c, FALSE) \in found /\ Search!Row(c, FALSE).id = c /\ ~Search!Row(c, FALSE).open
    BY <1>0, <1>a, FlowParts, HybridFacts, RowFacts DEF FlowTyped
  <2>2. Search!Row(c, FALSE) \in rows
    <3>1. query.glob => Search!Row(c, FALSE).id \in Matching
      BY <2>1 DEF Wanted
    <3> QED
      BY <3>1, <2>1, FlowParts, FilterFacts
  <2> QED
    BY <2>1, <2>2
<1>d. \A r \in Search!Merged(work.graph, Search!Admitted(rows)) :
        r \in Candidates /\ r.open /\ r.id \notin shut /\ (query.glob => r.id \in Matching)
  BY <1>a, <1>b, FlowParts DEF Search!Merged, FlowTyped
<1>e. Search!Merged(work.graph, Search!Admitted(rows)) \in SUBSET Candidates /\ (work.hidden \/ Search!Hides(rows)) \in BOOLEAN
  BY <1>b, <1>d
<1> DEFINE w == [work EXCEPT !.at = "rank",
                             !.pool = Search!Merged(work.graph, Search!Admitted(rows)),
                             !.hidden = work.hidden \/ Search!Hides(rows),
                             !.embedded = TRUE]
<1>1. /\ w \in WorkRow /\ w.at = "rank" /\ w.pool = Search!Merged(work.graph, Search!Admitted(rows))
      /\ w.hidden = (work.hidden \/ Search!Hides(rows)) /\ w.embedded = TRUE /\ w.graph = work.graph
      /\ w.vector = work.vector /\ w.used = work.used /\ w.expanded = work.expanded /\ w.warning = work.warning
  <2>1. w \in WorkRow
    BY FlowParts, FlowFacts, <1>e DEF WorkRow, SearchPlaces
  <2>2. /\ w.at = "rank" /\ w.pool = Search!Merged(work.graph, Search!Admitted(rows))
        /\ w.hidden = (work.hidden \/ Search!Hides(rows)) /\ w.embedded = TRUE /\ w.graph = work.graph
        /\ w.vector = work.vector /\ w.used = work.used /\ w.expanded = work.expanded /\ w.warning = work.warning
    BY FlowParts DEF WorkRow
  <2> QED
    BY <2>1, <2>2
<1>2. Search!Go(w) /\ work.at # "done"
  OBVIOUS
<1> HIDE DEF w
<1>3. ColdFit(w)
  BY <1>1, FlowParts, FlowFacts DEF ColdFit, WorkFits, PathFit
<1>4. RowsFit(w)
  BY <1>1, <1>2, FlowParts, <1>d DEF RowsFit, WorkFits, FlowTyped
<1>5. PathFit(w)
  BY <1>1, <1>2, FlowParts, FlowFacts DEF PathFit, WorkFits
<1>6. HydeFit(w)
  BY <1>1, <1>2, FlowParts, FlowFacts DEF HydeFit, WorkFits, PathFit, Search!HydeSuppressed
<1>7. GraphFit(w)
  BY <1>1, <1>2, FlowParts, FlowFacts DEF GraphFit
<1>8. PoolFit(w)
  BY <1>1, <1>2, FlowParts, FlowFacts, <1>a, <1>c, <1>d DEF PoolFit
<1> QED
  BY <1>1, <1>2, <1>3, <1>4, <1>5, <1>6, <1>7, <1>8, GoKeeps DEF WorkFits

LEMMA ExplainedKeeps ==
  ASSUME FlowInv,
         work.at = "explain",
         NEW rows \in SUBSET Candidates,
         \A r \in rows : r.open <=> r.id \in open,
         NEW e \in BOOLEAN,
         Search!Go([work EXCEPT !.at = "explained", !.graph = rows, !.embedded = e])
  PROVE  FlowInv'
<1> DEFINE w == [work EXCEPT !.at = "explained", !.graph = rows, !.embedded = e]
<1>1. /\ w \in WorkRow /\ w.at = "explained" /\ w.graph = rows /\ w.embedded = e /\ w.pool = work.pool
      /\ w.vector = work.vector /\ w.used = work.used /\ w.expanded = work.expanded /\ w.hidden = work.hidden
      /\ w.warning = work.warning
  <2>1. w \in WorkRow
    BY FlowParts, FlowFacts DEF WorkRow, SearchPlaces
  <2>2. /\ w.at = "explained" /\ w.graph = rows /\ w.embedded = e /\ w.pool = work.pool /\ w.vector = work.vector
        /\ w.used = work.used /\ w.expanded = work.expanded /\ w.hidden = work.hidden /\ w.warning = work.warning
    BY FlowParts DEF WorkRow
  <2> QED
    BY <2>1, <2>2
<1>2. Search!Go(w) /\ work.at # "done"
  OBVIOUS
<1> HIDE DEF w
<1>3. ColdFit(w)
  BY <1>1, FlowParts, FlowFacts DEF ColdFit, WorkFits, PathFit
<1>4. RowsFit(w)
  BY <1>1, <1>2, FlowParts DEF RowsFit, WorkFits, FlowTyped
<1>5. PathFit(w)
  BY <1>1, <1>2, FlowParts, FlowFacts DEF PathFit, WorkFits
<1>6. HydeFit(w)
  BY <1>1, <1>2, FlowParts, FlowFacts DEF HydeFit, WorkFits, PathFit, Search!HydeSuppressed
<1>7. GraphFit(w)
  BY <1>1, <1>2, FlowParts, FlowFacts DEF GraphFit
<1>8. PoolFit(w)
  BY <1>1, <1>2, FlowParts, FlowFacts DEF PoolFit
<1> QED
  BY <1>1, <1>2, <1>3, <1>4, <1>5, <1>6, <1>7, <1>8, GoKeeps DEF WorkFits

LEMMA ExplainRankedKeeps ==
  ASSUME FlowInv,
         work.at = "explained",
         NEW found \in Search!HybridRows,
         NEW rows,
         rows = Search!Merged(work.graph, found),
         Search!Go([work EXCEPT !.at = "rank",
                                !.pool = Search!Admitted(rows),
                                !.hidden = Search!Hides(rows),
                                !.embedded = TRUE])
  PROVE  FlowInv'
<1>a. /\ query.mode # "none" /\ ~query.fts /\ query.scope = "none" /\ ~query.glob
      /\ \A r \in work.graph : r \in Candidates /\ (r.open => r.id \notin shut) /\ (changes = 0 => (r.open <=> r.id \in open))
  BY FlowParts, FlowFacts DEF WorkFits, PathFit, RowsFit, GraphFit
<1>0. found \subseteq AllRows /\ (Search!WithinDepth => found = AllRows)
  BY FlowParts, LegFacts
<1>b. \A r \in rows : r \in Candidates /\ (r.open => r.id \notin shut)
  BY <1>0, <1>a, FlowParts, HybridFacts DEF Search!Merged, FlowTyped
<1>c. /\ Search!Hides(rows) \in BOOLEAN /\ Search!Admitted(rows) \subseteq Candidates
      /\ \A r \in Search!Admitted(rows) : r.open /\ r.id \notin shut
  BY <1>b, FlowParts, FilterFacts
<1>d. (changes = 0 /\ Search!WithinDepth /\ \E c \in stored \ open : Wanted(c)) => Search!Hides(rows)
  <2> SUFFICES ASSUME changes = 0, Search!WithinDepth, NEW c \in stored \ open PROVE \E r \in rows : ~r.open
    BY FlowParts, FilterFacts
  <2>1. Search!Row(c, FALSE) \in found /\ Search!Row(c, FALSE).id = c /\ ~Search!Row(c, FALSE).open
    BY <1>0, <1>a, FlowParts, HybridFacts, RowFacts DEF FlowTyped
  <2>2. CASE c \in Search!Ids(work.graph)
    <3>1. PICK r \in work.graph : r.id = c
      BY <2>2 DEF Search!Ids
    <3>2. r \in rows
      BY DEF Search!Merged
    <3> QED
      BY <3>1, <3>2, <1>a
  <2>3. CASE c \notin Search!Ids(work.graph)
    BY <2>1, <2>3 DEF Search!Merged
  <2> QED
    BY <2>2, <2>3
<1> DEFINE w == [work EXCEPT !.at = "rank",
                             !.pool = Search!Admitted(rows),
                             !.hidden = Search!Hides(rows),
                             !.embedded = TRUE]
<1>1. /\ w \in WorkRow /\ w.at = "rank" /\ w.pool = Search!Admitted(rows) /\ w.hidden = Search!Hides(rows)
      /\ w.embedded = TRUE /\ w.graph = work.graph /\ w.vector = work.vector /\ w.used = work.used
      /\ w.expanded = work.expanded /\ w.warning = work.warning
  <2>1. w \in WorkRow
    BY FlowParts, FlowFacts, <1>c DEF WorkRow, SearchPlaces
  <2>2. /\ w.at = "rank" /\ w.pool = Search!Admitted(rows) /\ w.hidden = Search!Hides(rows) /\ w.embedded = TRUE
        /\ w.graph = work.graph /\ w.vector = work.vector /\ w.used = work.used /\ w.expanded = work.expanded
        /\ w.warning = work.warning
    BY FlowParts DEF WorkRow
  <2> QED
    BY <2>1, <2>2
<1>2. Search!Go(w) /\ work.at # "done"
  OBVIOUS
<1> HIDE DEF w
<1>3. ColdFit(w)
  BY <1>1, FlowParts, FlowFacts DEF ColdFit, WorkFits, PathFit
<1>4. RowsFit(w)
  BY <1>1, <1>2, FlowParts, <1>c DEF RowsFit, WorkFits, FlowTyped
<1>5. PathFit(w)
  BY <1>1, <1>2, FlowParts, FlowFacts DEF PathFit, WorkFits
<1>6. HydeFit(w)
  BY <1>1, <1>2, FlowParts, FlowFacts DEF HydeFit, WorkFits, PathFit, Search!HydeSuppressed
<1>7. GraphFit(w)
  BY <1>1, <1>2, FlowParts, FlowFacts DEF GraphFit
<1>8. PoolFit(w)
  BY <1>1, <1>2, FlowParts, FlowFacts, <1>a, <1>d DEF PoolFit
<1> QED
  BY <1>1, <1>2, <1>3, <1>4, <1>5, <1>6, <1>7, <1>8, GoKeeps DEF WorkFits

\* The ranking.
\* Who comes before a candidate, comes before the ones behind it.
LEMMA BeforeTransitive ==
  ASSUME NEW e \in Candidates, NEW d \in Candidates, NEW c \in Candidates, Search!Before(e, d), Search!Before(d, c)
  PROVE  Search!Before(e, c)
<1>1. e.id \in Int /\ d.id \in Int /\ c.id \in Int /\ e.graph \in BOOLEAN /\ d.graph \in BOOLEAN /\ c.graph \in BOOLEAN
  BY SearchFits DEF Candidates
<1> QED
  BY <1>1 DEF Search!Before

\* A cut to the pool changes no page that fits into it.
LEMMA TopOfTop ==
  ASSUME NEW P \in SUBSET Candidates, IsFiniteSet(P), PageSize <= PoolSize
  PROVE  Search!Top(Search!Top(P, PoolSize), PageSize) = Search!Top(P, PageSize)
<1> DEFINE Ahead(S, c) == {d \in S : Search!Before(d, c)}
           T == Search!Top(P, PoolSize)
<1>1. \A S, n, c : c \in Search!Top(S, n) <=> c \in S /\ Cardinality(Ahead(S, c)) < n
  BY SearchCount DEF Search!Top
<1>2. \A c \in P : IsFiniteSet(Ahead(P, c)) /\ Cardinality(Ahead(P, c)) \in Nat
  <2> TAKE c \in P
  <2>1. Ahead(P, c) \in SUBSET P
    OBVIOUS
  <2>2. IsFiniteSet(Ahead(P, c))
    BY <2>1, FS_Subset
  <2> QED
    BY <2>2, FS_CardinalityType
<1>3. ASSUME NEW c \in T PROVE Ahead(T, c) = Ahead(P, c)
  <2>1. c \in P /\ Cardinality(Ahead(P, c)) < PoolSize
    BY <1>1
  <2>2. ASSUME NEW d \in Ahead(P, c) PROVE d \in T
    <3>1. d \in P /\ Search!Before(d, c)
      OBVIOUS
    <3>2. Ahead(P, d) \subseteq Ahead(P, c)
      BY <2>1, <3>1, BeforeTransitive
    <3>3. Cardinality(Ahead(P, d)) <= Cardinality(Ahead(P, c))
      BY <1>2, <2>1, <3>2, FS_Subset
    <3>4. Cardinality(Ahead(P, d)) < PoolSize
      <4>1. Cardinality(Ahead(P, d)) \in Nat /\ Cardinality(Ahead(P, c)) \in Nat
        BY <1>2, <2>1, <3>1
      <4> HIDE DEF Ahead
      <4> QED
        BY <4>1, <2>1, <3>3, SearchFits
    <3> QED
      BY <1>1, <3>1, <3>4
  <2>3. T \subseteq P
    BY <1>1
  <2> QED
    BY <2>2, <2>3
<1>4. ASSUME NEW c PROVE c \in Search!Top(T, PageSize) <=> c \in Search!Top(P, PageSize)
  <2>1. CASE c \in T
    <3>1. c \in P
      BY <2>1, <1>1
    <3>2. Ahead(T, c) = Ahead(P, c)
      BY <2>1, <1>3
    <3> HIDE DEF Ahead, T
    <3>3. c \in Search!Top(T, PageSize) <=> Cardinality(Ahead(T, c)) < PageSize
      BY <2>1, <1>1
    <3>4. c \in Search!Top(P, PageSize) <=> Cardinality(Ahead(P, c)) < PageSize
      BY <3>1, <1>1
    <3> QED
      BY <3>2, <3>3, <3>4
  <2>2. CASE c \notin T
    <3>1. c \notin Search!Top(T, PageSize)
      BY <2>2, <1>1
    <3>2. SUFFICES ASSUME c \in Search!Top(P, PageSize) PROVE c \in T
      BY <3>1, <2>2
    <3>3. c \in P /\ Cardinality(Ahead(P, c)) < PageSize
      BY <3>2, <1>1
    <3>4. Cardinality(Ahead(P, c)) < PoolSize
      BY <3>3, <1>2, SearchFits
    <3> QED
      BY <3>3, <3>4, <1>1
  <2> QED
    BY <2>1, <2>2
<1> QED
  BY <1>4

\* The top of the visible chunks is the page that the request should get.
LEMMA TopIds ==
  ASSUME FlowTyped, NEW P, P = {Search!Row(c, FALSE) : c \in Search!Eligible}
  PROVE  /\ IsFiniteSet(P) /\ P \subseteq Candidates
         /\ Search!Ids(Search!Top(P, PageSize)) = Search!Reference
<1> DEFINE E == Search!Eligible
           Better(d, c) == IF query.rerank THEN d > c ELSE d < c
           row(c) == Search!Row(c, FALSE)
           Over(c) == {d \in E : Better(d, c)}
           Ahead(c) == {q \in P : Search!Before(q, row(c))}
<1>1. E \subseteq Chunks /\ IsFiniteSet(E)
  <2>1. E \in SUBSET Chunks
    BY DEF FlowTyped, Search!Eligible
  <2> QED
    BY <2>1, SearchFits, FS_Subset
<1>2. \A c \in E : row(c) \in Candidates /\ row(c).id = c /\ row(c).graph = FALSE /\ c \in Int
  BY <1>1, RowFacts, SearchFits
<1>3. P = {row(c) : c \in E}
  OBVIOUS
<1>4. \A c, d \in E : Search!Before(row(d), row(c)) <=> Better(d, c)
  <2> TAKE c, d \in E
  <2> HIDE DEF E, row
  <2>1. row(c).id = c /\ row(d).id = d /\ ~row(c).graph /\ ~row(d).graph /\ row(c).graph = row(d).graph
    BY <1>2
  <2> QED
    BY <2>1 DEF Search!Before
<1>5. Search!Reference = {c \in E : Cardinality(Over(c)) < PageSize}
  BY SearchCount DEF Search!Reference
<1>6. \A q : q \in Search!Top(P, PageSize) <=> q \in P /\ Cardinality({d \in P : Search!Before(d, q)}) < PageSize
  BY SearchCount DEF Search!Top
<1> HIDE DEF E, row
<1>7. IsFiniteSet(P)
  <2> DEFINE f == [c \in E |-> row(c)]
  <2>1. f \in Surjection(E, P)
    BY <1>3 DEF Surjection
  <2> QED
    BY <2>1, <1>1, FS_Surjection
<1>8. ASSUME NEW c \in E PROVE Cardinality(Ahead(c)) = Cardinality(Over(c))
  <2> DEFINE f == [d \in Over(c) |-> row(d)]
  <2>1. f \in [Over(c) -> Ahead(c)]
    BY <1>3, <1>4
  <2>2. \A d, e \in Over(c) : f[d] = f[e] => d = e
    BY <1>2
  <2>3. \A q \in Ahead(c) : \E d \in Over(c) : f[d] = q
    BY <1>3, <1>4
  <2>4. ExistsBijection(Over(c), Ahead(c))
    <3> HIDE DEF f, Over, Ahead
    <3>1. f \in Injection(Over(c), Ahead(c))
      BY <2>1, <2>2 DEF Injection, IsInjective
    <3>2. f \in Surjection(Over(c), Ahead(c))
      BY <2>1, <2>3 DEF Surjection
    <3> QED
      BY <3>1, <3>2 DEF ExistsBijection, Bijection
  <2>5. IsFiniteSet(Over(c))
    <3>1. Over(c) \in SUBSET E
      OBVIOUS
    <3> QED
      BY <3>1, <1>1, FS_Subset
  <2> HIDE DEF Over, Ahead
  <2> QED
    BY <2>4, <2>5, FS_Bijection
<1>9. \A c \in E : row(c) \in Search!Top(P, PageSize) <=> c \in Search!Reference
  BY <1>3, <1>5, <1>6, <1>8
<1>10. Search!Ids(Search!Top(P, PageSize)) = Search!Reference
  <2>1. ASSUME NEW i \in Search!Ids(Search!Top(P, PageSize)) PROVE i \in Search!Reference
    <3>1. PICK q \in Search!Top(P, PageSize) : i = q.id
      BY DEF Search!Ids
    <3>2. PICK c \in E : q = row(c)
      BY <3>1, <1>6, <1>3
    <3> QED
      BY <3>1, <3>2, <1>2, <1>9
  <2>2. ASSUME NEW c \in Search!Reference PROVE c \in Search!Ids(Search!Top(P, PageSize))
    <3>1. c \in E /\ row(c) \in Search!Top(P, PageSize) /\ row(c).id = c
      BY <1>2, <1>5, <1>9
    <3> QED
      BY <3>1 DEF Search!Ids
  <2> QED
    BY <2>1, <2>2
<1> QED
  BY <1>2, <1>3, <1>7, <1>10

\* A page holds ids of the pool, and without graph mode the ones it should.
LEMMA PageFacts ==
  ASSUME FlowInv
  PROVE  /\ \A i \in Search!Page : \E r \in work.pool : i = r.id
         /\ ( /\ work.pool = {Search!Row(c, FALSE) : c \in Search!Eligible}
              /\ query.kind = "explain" => PageSize <= PoolSize ) => Search!Page = Search!Reference
<1>1. \A S, n : Search!Top(S, n) \subseteq S
  BY DEF Search!Top
<1>2. \A i \in Search!Page : \E r \in work.pool : i = r.id
  BY <1>1 DEF Search!Page, Search!Ids
<1>3. ASSUME work.pool = {Search!Row(c, FALSE) : c \in Search!Eligible}, query.kind = "explain" => PageSize <= PoolSize
      PROVE  Search!Page = Search!Reference
  <2>1. /\ IsFiniteSet(work.pool) /\ work.pool \in SUBSET Candidates
        /\ Search!Ids(Search!Top(work.pool, PageSize)) = Search!Reference
    BY <1>3, FlowParts, TopIds
  <2>2. CASE query.kind = "explain"
    BY <2>1, <2>2, <1>3, TopOfTop DEF Search!Page
  <2>3. CASE query.kind # "explain"
    BY <2>1, <2>3 DEF Search!Page
  <2> QED
    BY <2>2, <2>3
<1> QED
  BY <1>2, <1>3

\* The steps of a request.
LEMMA FtsFacts == ASSUME FlowInv PROVE Search!FtsOnly <=> query.fts
  BY FlowParts, FlowFacts DEF Search!FtsOnly, ColdFit

LEMMA HydeKeeps == ASSUME FlowInv, Search!ResolveHyde PROVE FlowInv'
<1>1. work.at = "hyde"
  BY DEF Search!ResolveHyde
<1>2. CASE (~query.hyde \/ Search!HydeSuppressed) /\ Search!Go([work EXCEPT !.at = "pipeline"])
  BY <1>1, <1>2, HydeNoneKeeps
<1>3. CASE /\ query.hyde /\ ~Search!HydeSuppressed
           /\ Search!Go([[work EXCEPT !.at = "pipeline"] EXCEPT !.warning = "hyde", !.embedded = ~query.fts])
  <2>1. [[work EXCEPT !.at = "pipeline"] EXCEPT !.warning = "hyde", !.embedded = ~query.fts] =
          [work EXCEPT !.at = "pipeline", !.warning = "hyde", !.embedded = ~query.fts]
    BY FlowParts DEF WorkRow
  <2> QED
    BY <1>1, <1>3, <2>1, FlowParts, FlowFacts, HydeWarnKeeps
<1>4. CASE ~query.fts /\ Search!Go([[work EXCEPT !.at = "pipeline"] EXCEPT !.vector = TRUE, !.embedded = TRUE])
  <2>1. [[work EXCEPT !.at = "pipeline"] EXCEPT !.vector = TRUE, !.embedded = TRUE] =
          [work EXCEPT !.at = "pipeline", !.vector = TRUE, !.embedded = TRUE]
    BY FlowParts DEF WorkRow
  <2> QED
    BY <1>1, <1>4, <2>1, HydeVectorKeeps
<1>5. CASE \E class \in FailClasses : Search!Fail(class)
  BY <1>1, <1>5, FailKeeps
<1> QED
  BY <1>2, <1>3, <1>4, <1>5 DEF Search!ResolveHyde, FailClasses

LEMMA DispatchKeeps == ASSUME FlowInv, Search!Dispatch PROVE FlowInv'
<1>1. work.at = "pipeline"
  BY DEF Search!Dispatch
<1>2. Search!FtsOnly <=> query.fts
  BY FtsFacts
<1> DEFINE p == CASE query.kind = "explain" /\ query.mode # "none" -> "explain"
                  [] Search!Mode = "naive" -> "expand"
                  [] Search!Mode \in {"local", "global", "ppr"} -> Search!Mode
                  [] OTHER -> Search!AfterExpansion
<1>3. Search!Go([work EXCEPT !.at = p])
  BY DEF Search!Dispatch
<1>4. /\ p \in {"explain", "expand", "local", "global", "ppr", "fusion", "standard"}
      /\ p \in {"explain", "expand", "local", "global", "ppr"} => query.mode # "none" /\ ~query.fts
      /\ p = "explain" => query.kind = "explain" /\ query.mode # "none"
      /\ p = "fusion" => query.fusion /\ ~query.fts
  <2>1. CASE query.kind = "explain" /\ query.mode # "none"
    BY <2>1, FlowParts, FlowFacts
  <2>2. CASE ~(query.kind = "explain" /\ query.mode # "none") /\ Search!Mode = "naive"
    BY <2>2, <1>2 DEF Search!Mode
  <2>3. CASE ~(query.kind = "explain" /\ query.mode # "none") /\ Search!Mode \in {"local", "global", "ppr"}
    BY <2>3, <1>2 DEF Search!Mode
  <2>4. CASE ~(query.kind = "explain" /\ query.mode # "none") /\ Search!Mode \notin {"naive", "local", "global", "ppr"}
    <3>1. p = Search!AfterExpansion
      BY <2>4
    <3> QED
      BY <3>1, <1>2 DEF Search!AfterExpansion, Search!Fusion
  <2> QED
    BY <2>1, <2>2, <2>3, <2>4
<1> HIDE DEF p
<1> QED
  BY <1>1, <1>3, <1>4, MoveKeeps

LEMMA ExpandKeeps == ASSUME FlowInv, Search!Expand PROVE FlowInv'
<1>1. PICK x \in BOOLEAN : work.at = "expand" /\ Search!Go([work EXCEPT !.at = Search!AfterExpansion, !.expanded = x])
  BY DEF Search!Expand
<1>2. Search!AfterExpansion \in {"fusion", "standard"} /\ (Search!AfterExpansion = "fusion" => query.fusion)
  BY DEF Search!AfterExpansion, Search!Fusion
<1> QED
  BY <1>1, <1>2, ExpandedKeeps

LEMMA FusionKeeps == ASSUME FlowInv, Search!FusionVariants PROVE FlowInv'
<1> DEFINE F(p, v, m, e) == [work EXCEPT !.at = p, !.attempted = TRUE, !.vector = v, !.warning = m, !.embedded = e]
<1>1. work.at = "fusion"
  BY DEF Search!FusionVariants
<1>2. \/ Search!Go(F("standard", work.vector /\ query.kind = "explain", work.warning, work.embedded))
      \/ Search!Go(F("standard", FALSE, "fusion", work.embedded))
      \/ Search!Go(F("standard", FALSE, "fusion", TRUE))
      \/ Search!Go(F("variants", FALSE, work.warning, TRUE))
  <2> DEFINE single == [work EXCEPT !.at = "standard", !.attempted = TRUE, !.vector = FALSE]
  <2>1. /\ [single EXCEPT !.vector = work.vector /\ query.kind = "explain"] =
             F("standard", work.vector /\ query.kind = "explain", work.warning, work.embedded)
        /\ [single EXCEPT !.warning = "fusion"] = F("standard", FALSE, "fusion", work.embedded)
        /\ [single EXCEPT !.warning = "fusion", !.embedded = TRUE] = F("standard", FALSE, "fusion", TRUE)
        /\ [work EXCEPT !.at = "variants", !.attempted = TRUE, !.embedded = TRUE, !.vector = FALSE] =
             F("variants", FALSE, work.warning, TRUE)
    BY FlowParts DEF WorkRow
  <2>2. \/ Search!Go([single EXCEPT !.vector = work.vector /\ query.kind = "explain"])
        \/ Search!Go([single EXCEPT !.warning = "fusion"])
        \/ Search!Go([single EXCEPT !.warning = "fusion", !.embedded = TRUE])
        \/ Search!Go([work EXCEPT !.at = "variants", !.attempted = TRUE, !.embedded = TRUE, !.vector = FALSE])
    BY DEF Search!FusionVariants
  <2> QED
    BY <2>1, <2>2
<1>3. (work.vector /\ query.kind = "explain") \in BOOLEAN /\ work.warning \in {"none", "hyde", "fusion"} /\ work.embedded \in BOOLEAN
  BY FlowParts, FlowFacts
<1>4. ASSUME NEW p \in {"standard", "variants"}, NEW v \in BOOLEAN, NEW e \in BOOLEAN, NEW m \in {"none", "hyde", "fusion"},
             Search!Go(F(p, v, m, e))
      PROVE  FlowInv'
  BY <1>1, <1>4, FusedKeeps
<1> HIDE DEF F
<1> QED
  BY <1>2, <1>3, <1>4

LEMMA VariantsKeeps == ASSUME FlowInv, Search!VariantSearches PROVE FlowInv'
<1>1. work.at = "variants" /\ ~query.fts
  BY FlowParts DEF Search!VariantSearches, WorkFits, PathFit
<1>2. CASE Search!Go([work EXCEPT !.at = "standard"])
  BY <1>1, <1>2, MoveKeeps
<1>3. CASE \E applied \in BOOLEAN, found \in Search!FusedRows :
             Search!Go([work EXCEPT !.at = "rank", !.applied = applied, !.pool = Search!Admitted(Filtered(found)),
                                    !.hidden = Search!Hides(Filtered(found))])
  <2>1. PICK applied \in BOOLEAN, found \in Search!FusedRows :
             Search!Go([work EXCEPT !.at = "rank", !.applied = applied, !.pool = Search!Admitted(Filtered(found)),
                                    !.hidden = Search!Hides(Filtered(found))])
    BY <1>3
  <2>2. found \subseteq AllRows /\ (Search!WithinDepth => found = AllRows)
    BY FlowParts, LegFacts
  <2> QED
    BY <1>1, <2>1, <2>2, RetrievedKeeps
<1> QED
  BY <1>2, <1>3 DEF Search!VariantSearches, Filtered

LEMMA EmbedKeeps == ASSUME FlowInv, Search!Embed PROVE FlowInv'
<1>1. work.at = "standard"
  BY DEF Search!Embed
<1>2. CASE work.vector /\ Search!Go([work EXCEPT !.at = "retrieve", !.used = TRUE])
  BY <1>1, <1>2, UsedKeeps
<1>3. CASE ~work.vector /\ Search!Go([work EXCEPT !.at = "retrieve", !.embedded = work.embedded \/ ~Search!FtsOnly])
  <2> DEFINE e == work.embedded \/ ~Search!FtsOnly
  <2>1. e \in BOOLEAN /\ (query.fts => ~e)
    BY FlowParts, FlowFacts, FtsFacts DEF ColdFit
  <2> HIDE DEF e
  <2> QED
    BY <1>1, <1>3, <2>1, EmbedsKeeps DEF e
<1>4. CASE \E class \in FailClasses : Search!Fail(class)
  BY <1>1, <1>4, FailKeeps
<1> QED
  BY <1>2, <1>3, <1>4 DEF Search!Embed, FailClasses

LEMMA RetrieveKeeps == ASSUME FlowInv, Search!Retrieve PROVE FlowInv'
<1>1. work.at = "retrieve"
  BY DEF Search!Retrieve
<1>2. CASE \E found \in (IF Search!FtsOnly THEN Search!FtsRows ELSE Search!HybridRows) :
             Search!Go([work EXCEPT !.at = "rank", !.pool = Search!Admitted(Filtered(found)), !.hidden = Search!Hides(Filtered(found))])
  <2>1. PICK found \in (IF Search!FtsOnly THEN Search!FtsRows ELSE Search!HybridRows) :
             Search!Go([work EXCEPT !.at = "rank", !.pool = Search!Admitted(Filtered(found)), !.hidden = Search!Hides(Filtered(found))])
    BY <1>2
  <2>2. found \in SUBSET AllRows /\ (~query.fts /\ Search!WithinDepth => found = AllRows)
    BY <2>1, FtsFacts, FlowParts, LegFacts
  <2>3. [work EXCEPT !.at = "rank", !.pool = Search!Admitted(Filtered(found)), !.hidden = Search!Hides(Filtered(found))] =
        [work EXCEPT !.at = "rank", !.applied = work.applied, !.pool = Search!Admitted(Filtered(found)),
                     !.hidden = Search!Hides(Filtered(found))]
    BY FlowParts DEF WorkRow
  <2> QED
    BY <1>1, <2>1, <2>2, <2>3, FlowParts, FlowFacts, RetrievedKeeps
<1>3. CASE Search!Fail("failed")
  BY <1>1, <1>3, FailKeeps DEF FailClasses
<1> QED
  BY <1>2, <1>3 DEF Search!Retrieve, Search!AdmittedAll, Filtered

LEMMA LocalKeeps == ASSUME FlowInv, Search!LocalCommunities PROVE FlowInv'
<1>1. work.at = "local"
  BY DEF Search!LocalCommunities
<1>2. CASE Search!Go([work EXCEPT !.at = "standard"])
  BY <1>1, <1>2, MoveKeeps
<1>3. CASE Search!Go([work EXCEPT !.at = "standard", !.expanded = TRUE])
  BY <1>1, <1>3, ExpandedKeeps
<1>4. CASE Search!Fail("not_built")
  BY <1>1, <1>4, FailKeeps DEF FailClasses
<1>5. CASE \E ids \in SUBSET Chunks : Search!Go([work EXCEPT !.at = "fetch", !.ids = ids])
  BY <1>1, <1>5, IdsKeeps
<1> QED
  BY <1>2, <1>3, <1>4, <1>5 DEF Search!LocalCommunities

LEMMA CommunityKeeps == ASSUME FlowInv, Search!GlobalCommunities \/ Search!Walk PROVE FlowInv'
<1>1. work.at \in {"global", "ppr"}
  BY DEF Search!GlobalCommunities, Search!Walk
<1>2. CASE Search!Go([work EXCEPT !.at = "standard"])
  BY <1>1, <1>2, MoveKeeps
<1>3. CASE Search!Fail("not_built") \/ Search!Fail("failed")
  BY <1>1, <1>3, FailKeeps DEF FailClasses
<1>4. CASE \E ids \in SUBSET Chunks : Search!Go([work EXCEPT !.at = "fetch", !.ids = ids])
  BY <1>1, <1>4, IdsKeeps
<1> QED
  BY <1>2, <1>3, <1>4 DEF Search!GlobalCommunities, Search!Walk

LEMMA FetchKeeps == ASSUME FlowInv, Search!FetchGraphChunks PROVE FlowInv'
<1>1. work.at = "fetch"
  BY DEF Search!FetchGraphChunks
<1>2. CASE Search!Go([work EXCEPT !.at = "standard"])
  BY <1>1, <1>2, MoveKeeps
<1>3. ASSUME query.mode = "global", ~Search!Go([work EXCEPT !.at = "standard"]) PROVE FlowInv'
  <2> DEFINE rows == Search!RowsById(work.ids)
  <2>1. Search!Go([work EXCEPT !.at = "rank", !.expanded = TRUE, !.graph = Search!Admitted(rows),
                               !.pool = Search!Admitted(rows), !.hidden = Search!Hides(rows)])
    BY <1>3 DEF Search!FetchGraphChunks
  <2> QED
    BY <1>1, <1>3, <2>1, GlobalKeeps
<1>4. ASSUME query.mode # "global", ~Search!Go([work EXCEPT !.at = "standard"]) PROVE FlowInv'
  <2> DEFINE rows == Search!Globbed(Search!RowsById(work.ids))
  <2>1. Search!Go([work EXCEPT !.at = "merge", !.expanded = TRUE, !.graph = Search!Admitted(rows),
                               !.pool = Search!Admitted(rows), !.hidden = Search!Hides(rows)])
    BY <1>4 DEF Search!FetchGraphChunks
  <2> QED
    BY <1>1, <1>4, <2>1, FetchedKeeps
<1> QED
  BY <1>2, <1>3, <1>4

LEMMA MergeKeeps == ASSUME FlowInv, Search!MergeHybrid PROVE FlowInv'
<1>1. work.at = "merge"
  BY DEF Search!MergeHybrid
<1>2. CASE \E class \in FailClasses : Search!Fail(class)
  BY <1>1, <1>2, FailKeeps
<1>3. ASSUME ~\E class \in FailClasses : Search!Fail(class) PROVE FlowInv'
  <2> DEFINE R(found) == Search!Globbed(found)
  <2>1. PICK found \in Search!HybridRows :
          Search!Go([work EXCEPT !.at = "rank", !.pool = Search!Merged(work.graph, Search!Admitted(R(found))),
                                 !.hidden = work.hidden \/ Search!Hides(R(found)), !.embedded = TRUE])
    BY <1>3 DEF Search!MergeHybrid, FailClasses
  <2> QED
    BY <1>1, <2>1, MergedKeeps
<1> QED
  BY <1>2, <1>3

LEMMA ExplainKeeps == ASSUME FlowInv, Search!ExplainCandidates PROVE FlowInv'
<1>1. work.at = "explain"
  BY DEF Search!ExplainCandidates
<1>2. CASE Search!Go([work EXCEPT !.at = "standard"])
  BY <1>1, <1>2, MoveKeeps
<1>3. CASE Search!Fail("not_built") \/ Search!Fail("failed")
  BY <1>1, <1>3, FailKeeps DEF FailClasses
<1>4. CASE \E ids \in SUBSET Chunks : Search!Go([work EXCEPT !.at = "explained", !.graph = Search!RowsById(ids)])
  <2>1. PICK ids \in SUBSET Chunks : Search!Go([work EXCEPT !.at = "explained", !.graph = Search!RowsById(ids)])
    BY <1>4
  <2>2. [work EXCEPT !.at = "explained", !.graph = Search!RowsById(ids)] =
        [work EXCEPT !.at = "explained", !.graph = Search!RowsById(ids), !.embedded = work.embedded]
    BY FlowParts DEF WorkRow
  <2> QED
    BY <1>1, <2>1, <2>2, FlowParts, FlowFacts, ByIdFacts, ExplainedKeeps
<1>5. CASE \E found \in Search!HybridRows : Search!Go([work EXCEPT !.at = "explained", !.graph = found, !.embedded = TRUE])
  <2>1. PICK found \in Search!HybridRows : Search!Go([work EXCEPT !.at = "explained", !.graph = found, !.embedded = TRUE])
    BY <1>5
  <2>2. found \in SUBSET Candidates /\ \A r \in found : r.open <=> r.id \in open
    BY FlowParts, LegFacts, HybridFacts
  <2> QED
    BY <1>1, <2>1, <2>2, ExplainedKeeps
<1> QED
  BY <1>2, <1>3, <1>4, <1>5 DEF Search!ExplainCandidates

LEMMA ExplainMergeKeeps == ASSUME FlowInv, Search!ExplainMerge PROVE FlowInv'
<1>1. work.at = "explained"
  BY DEF Search!ExplainMerge
<1>2. CASE \E class \in FailClasses : Search!Fail(class)
  BY <1>1, <1>2, FailKeeps
<1>3. ASSUME ~\E class \in FailClasses : Search!Fail(class) PROVE FlowInv'
  <2> DEFINE R(found) == Search!Merged(work.graph, found)
  <2>1. PICK found \in Search!HybridRows :
          Search!Go([work EXCEPT !.at = "rank", !.pool = Search!Admitted(R(found)), !.hidden = Search!Hides(R(found)),
                                 !.embedded = TRUE])
    BY <1>3 DEF Search!ExplainMerge, FailClasses
  <2> QED
    BY <1>1, <2>1, ExplainRankedKeeps
<1> QED
  BY <1>2, <1>3

\* What the answer takes over.
LEMMA FoundFacts ==
  ASSUME FlowInv, work.at \in {"rank", "context"}, NEW S, S \subseteq Chunks \ shut, NEW a,
         a = [Search!Found EXCEPT !.results = S], query.kind # "context" => S = Search!Page, Search!Reply(a)
  PROVE  FlowInv'
<1>1. /\ a.results = S /\ a.class = "ok" /\ a.hidden = work.hidden
      /\ a.hyde = (query.hyde /\ ~Search!HydeSuppressed /\ work.warning # "hyde")
  BY DEF Search!Found
<1>2. WorkFits(work) /\ work.at # "done"
  BY FlowParts
<1>3. PoolFit(work) /\ HydeFit(work)
  BY <1>2 DEF WorkFits
<1>4. query.kind # "context" =>
        /\ query.scope # "none" => a.results \subseteq InScope
        /\ (query.glob /\ (query.mode # "global" \/ ~work.expanded)) => a.results \subseteq Matching
  <2>1. \A i \in Search!Page : \E r \in work.pool : i = r.id
    BY PageFacts
  <2>2. query.scope # "none" => \A r \in work.pool : r.id \in InScope
    BY <1>3 DEF PoolFit
  <2>3. (query.glob /\ (query.mode # "global" \/ ~work.expanded)) => \A r \in work.pool : r.id \in Matching
    BY <1>3 DEF PoolFit
  <2> QED
    BY <1>1, <2>1, <2>2, <2>3
<1>5. ( /\ changes = 0 /\ query.mode = "none" /\ query.kind # "context" /\ ~query.fts /\ Search!WithinDepth
        /\ query.kind = "explain" => PageSize <= PoolSize ) => a.results = Search!Reference
  <2>1. (changes = 0 /\ query.mode = "none" /\ ~query.fts /\ Search!WithinDepth) => work.pool = {Search!Row(c, FALSE) : c \in Search!Eligible}
    BY <1>3 DEF PoolFit
  <2> QED
    BY <1>1, <2>1, PageFacts
<1>6. ( /\ changes = 0 /\ ~query.fts /\ Search!WithinDepth /\ ~(query.mode = "global" /\ work.expanded)
        /\ \E c \in stored \ open : Wanted(c) ) => a.hidden
  BY <1>1, <1>3 DEF PoolFit
<1>7. a.hyde => work.used
  BY <1>1, <1>3 DEF HydeFit
<1> QED
  BY <1>1, <1>2, <1>4, <1>5, <1>6, <1>7, ReplyKeeps

LEMMA PagePermitted == ASSUME FlowInv, work.at \in {"rank", "context"} PROVE Search!Page \subseteq Chunks \ shut
<1>1. work.pool \subseteq Candidates /\ \A r \in work.pool : r.id \notin shut
  BY FlowParts, FlowFacts DEF WorkFits, RowsFit
<1>2. \A r \in work.pool : r.id \in Chunks
  BY <1>1 DEF Candidates
<1> QED
  BY <1>1, <1>2, PageFacts

LEMMA RankKeeps == ASSUME FlowInv, Search!Rank PROVE FlowInv'
<1>1. work.at = "rank"
  BY DEF Search!Rank
<1>2. CASE query.kind # "context" /\ Search!Reply(Search!Found)
  <2>1. Search!Found = [Search!Found EXCEPT !.results = Search!Page]
    BY DEF Search!Found
  <2> QED
    BY <1>1, <1>2, <2>1, PagePermitted, FoundFacts
<1>3. CASE query.kind = "context" /\ Search!Go([work EXCEPT !.at = "context"])
  <2> DEFINE w == [work EXCEPT !.at = "context"]
  <2>1. /\ w \in WorkRow /\ w.at = "context" /\ w.graph = work.graph /\ w.pool = work.pool /\ w.vector = work.vector
        /\ w.used = work.used /\ w.embedded = work.embedded /\ w.expanded = work.expanded /\ w.hidden = work.hidden
        /\ w.warning = work.warning
    BY FlowParts, FlowFacts DEF WorkRow, SearchPlaces
  <2>2. Search!Go(w)
    BY <1>3
  <2> HIDE DEF w
  <2>3. ColdFit(w) /\ RowsFit(w) /\ PathFit(w)
    BY <1>1, <1>3, <2>1, FlowParts DEF ColdFit, WorkFits, RowsFit, PathFit
  <2>4. HydeFit(w) /\ GraphFit(w)
    BY <1>1, <2>1, FlowParts DEF WorkFits, HydeFit, GraphFit
  <2>5. PoolFit(w)
    BY <1>1, <2>1, FlowParts DEF WorkFits, PoolFit
  <2> QED
    BY <1>1, <2>1, <2>2, <2>3, <2>4, <2>5, GoKeeps DEF WorkFits
<1>4. CASE Search!Fail("failed")
  BY <1>1, <1>4, FailKeeps DEF FailClasses
<1> QED
  BY <1>2, <1>3, <1>4 DEF Search!Rank

\* A context answer is asked for by a context request only.
LEMMA ContextKeeps == ASSUME FlowInv, Search!FetchContext PROVE FlowInv'
<1> DEFINE S == Search!Page \cup Search!Ids(Search!Admitted(Search!Neighbours))
<1>1. work.at = "context" /\ Search!Reply([Search!Found EXCEPT !.results = S])
  BY DEF Search!FetchContext, Search!Found
<1>2. Search!Ids(Search!Admitted(Search!Neighbours)) \subseteq Chunks \ shut
  <2> SUFFICES ASSUME NEW r \in Search!Admitted(Search!Neighbours) PROVE r.id \in Chunks \ shut
    BY DEF Search!Ids
  <2>1. r \in Search!Neighbours /\ r.open
    BY DEF Search!Admitted
  <2>2. PICK c \in stored : r = Search!Row(c, FALSE)
    BY <2>1 DEF Search!Neighbours, Search!Rows
  <2> QED
    BY <2>1, <2>2, RowFacts, FlowParts DEF FlowTyped
<1>3. query.kind = "context"
  BY <1>1, FlowParts DEF WorkFits, PathFit
<1> HIDE DEF S
<1> QED
  BY <1>1, <1>2, <1>3, PagePermitted, FoundFacts DEF S

LEMMA BudgetKeeps == ASSUME FlowInv, Search!BudgetExceeded PROVE FlowInv'
  BY FailKeeps DEF Search!BudgetExceeded, FailClasses

LEMMA FlowStep == ASSUME FlowInv, Search!SearchNext PROVE FlowInv'
  BY IndexChangeKeeps, LookUpKeeps, HydeKeeps, DispatchKeeps, ExpandKeeps, FusionKeeps, VariantsKeeps, EmbedKeeps, RetrieveKeeps,
     LocalKeeps, CommunityKeeps, FetchKeeps, MergeKeeps, ExplainKeeps, ExplainMergeKeeps, RankKeeps, ContextKeeps, BudgetKeeps
     DEF Search!SearchNext

LEMMA FlowStutter == ASSUME FlowInv, UNCHANGED searchVars PROVE FlowInv'
<1>1. UNCHANGED <<stored, open, shut, changes, query, work, answer>>
  BY DEF searchVars
<1>2. FlowTyped' /\ work' \in WorkRow /\ ColdFit(work)'
  BY <1>1, FlowParts DEF FlowTyped, ColdFit
<1>3. work.at # "done" => WorkFits(work)'
  BY <1>1, FlowParts DEF WorkFits, RowsFit, PathFit, HydeFit, GraphFit, PoolFit, Wanted, Search!HydeSuppressed, Search!Row, Search!Eligible,
     Search!WithinDepth, Search!Reached
<1>4. work.at = "done" => Answered'
  BY <1>1, FlowParts DEF Answered, Search!AnswerPermitted, Search!RightPage, Search!Reference, Search!Eligible, Search!FtsOnly,
     Search!HiddenTold, Search!HydeUsed, Search!WithinDepth, Search!Reached
<1>5. work.at # "done" => answer' = Search!NoAnswer'
  BY <1>1, FlowParts DEF Search!NoAnswer
<1> QED
  BY <1>1, <1>2, <1>3, <1>4, <1>5 DEF FlowInv

LEMMA FlowStart == ASSUME Search!SearchInit PROVE FlowInv
<1>1. FlowTyped
  BY DEF Search!SearchInit, FlowTyped
<1>2. /\ work \in WorkRow /\ work.at = "arrived" /\ ~work.vector /\ ~work.embedded /\ work.graph = {} /\ work.pool = {}
      /\ answer = Search!NoAnswer
  BY DEF Search!SearchInit, Search!NoWork, WorkRow, SearchPlaces
<1>3. ColdFit(work) /\ WorkFits(work)
  BY <1>2 DEF ColdFit, WorkFits, RowsFit, PathFit, HydeFit, GraphFit, PoolFit
<1> QED
  BY <1>1, <1>2, <1>3 DEF FlowInv

LEMMA FlowSafe ==
  ASSUME FlowInv
  PROVE  /\ Search!SearchTypeOK /\ Search!AnswerPermitted /\ Search!RightPage /\ Search!HiddenTold /\ Search!HydeUsed
         /\ Search!ColdNeverEmbeds
<1>1. CASE work.at = "done"
  BY <1>1, FlowParts, FlowFacts DEF Answered, FailClasses, FlowTyped, Search!SearchTypeOK, Search!ColdNeverEmbeds, ColdFit
<1>2. CASE work.at # "done"
  <2>1. answer.class = "none" /\ answer.results = {} /\ ~answer.hyde
    BY <1>2, FlowParts DEF Search!NoAnswer
  <2> QED
    BY <2>1, FlowParts DEF FlowTyped, Search!SearchTypeOK, Search!ColdNeverEmbeds, ColdFit, Search!AnswerPermitted,
       Search!RightPage, Search!HiddenTold, Search!HydeUsed
<1> QED
  BY <1>1, <1>2

\* What a request answers, whatever path it takes through expansion, fusion, the graph
\* modes and the explain, however documents are deleted or ingested again with another acl
\* between its awaits, for every collection, page, pool and candidate depth: nothing the
\* caller may not see and nothing outside its scope and glob; hyde_applied only of a vector
\* that was searched with; and no embedding on a cold embedder.  On a quiet index whose
\* reachable chunks are no more than the candidate depth also: exactly the best visible
\* chunks, and a page cut short by the acl says so.  (Beyond the depth neither is claimed.)
THEOREM AnswersAreRight == RequestsSpec => []AnswersRight
<1>1. RequestsInit => FlowGood
  BY FlowStart DEF RequestsInit, FlowGood
<1>2. FlowGood /\ [RequestsNext]_allVars => FlowGood'
  <2> SUFFICES ASSUME FlowGood, [RequestsNext]_allVars, part' = "search" PROVE FlowInv'
    BY DEF FlowGood
  <2>1. CASE part = "search" /\ Search!SearchNext
    BY <2>1, FlowStep DEF FlowGood
  <2>2. CASE UNCHANGED <<part, searchVars>>
    BY <2>2, FlowStutter DEF FlowGood
  <2> QED
    BY <2>1, <2>2 DEF RequestsNext, allVars
<1>3. FlowGood => AnswersRight
  BY FlowSafe DEF FlowGood, AnswersRight
<1> QED
  BY <1>1, <1>2, <1>3, PTL DEF RequestsSpec

=============================================================================
