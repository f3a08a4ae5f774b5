--------------------- MODULE DescriptionLifecycleProofs ---------------------
(***************************************************************************)
(* DescriptionLifecycle for any number of collections, any queue bound and *)
(* any number of read attempts: the failure that readers see is that of    *)
(* the row they see, a manual description is changed by operators alone,   *)
(* and the generation slot and its queue are never left wrong.             *)
(***************************************************************************)
EXTENDS DescriptionLifecycle, FiniteSetTheorems, TLAPS

Drawn == {"generating", "landing", "recording"} \cup Writing \cup Merged
Begun == {"reading", "seen"} \cup Drawn

-----------------------------------------------------------------------------
\* A run writes under the collection lock, and a merge is followed by its version before the
\* lock is free (the shutdown may lose the version, which then stays behind for good).
LockFits(c) ==
  /\ job[c].pc \in Writing <=> lock[c] = "job"
  /\ job[c].pc \in Merged => lock[c] = "merged"
  /\ lock[c] = "merged" => version[c] < changes[c]

\* The guard of the write held when the lock was taken, and holds until the merge.
GuardHolds(c) == job[c].pc \in Writing => row[c].source \notin {"manual", "missing"}

\* What a run read was true then: its version is not newer than the row it stands for, and, the
\* excused reads aside, it is the version of that very row.
ReadTrue(c) ==
  job[c].pc \in Begun =>
    /\ job[c].version <= version[c] /\ job[c].base <= changes[c]
    /\ job[c].version = changes[c] => job[c].base = changes[c]
    /\ job[c].pc = "reading" /\ ~job[c].excused => job[c].version = job[c].base
    /\ job[c].pc = "seen" /\ ~job[c].excused =>
         job[c].version <= job[c].base /\ job[c].base <= version[c]
    /\ job[c].pc \in Drawn /\ ~job[c].excused => job[c].version = job[c].base

\* A failure whose record landed is in the row before its version moves.
FailureLanded(c) == job[c].pc = "merged_failed" => row[c].status = "failed"

\* Nothing remembered is newer than the row.
PastOnly(c) == failures[c] <= version[c] /\ failed[c].base <= changes[c]

\* NoStaleFailure for one collection.
NotStale(c) == failures[c] = changes[c] => failed[c].base = changes[c]

\* The last failed run of the row as it is is either remembered or in the row.
FailureKept(c) ==
  failed[c].base = changes[c] /\ ~failed[c].excused =>
    (failures[c] = version[c] /\ version[c] = changes[c]) \/ row[c].status = "failed"

True(c) == /\ LockFits(c) /\ GuardHolds(c) /\ ReadTrue(c) /\ FailureLanded(c)
           /\ PastOnly(c) /\ NotStale(c) /\ FailureKept(c)

\* The queue, and the shutdown that nothing outlives.
QueueInv == /\ IsFiniteSet(Places) /\ SlotAndQueue
            /\ phase = "disconnected" => \A c \in Collections : ~InFlight(c)

IInv == TypeOK /\ QueueInv /\ \A c \in Collections : True(c)

-----------------------------------------------------------------------------
Jobs == [pc : Pcs, kind : Kinds, reads : 0..RowReadAttempts, version : Nat,
         expected : Rows, base : Nat, excused : BOOLEAN]

Typed(c) ==
  /\ row[c] \in Rows /\ version[c] \in Nat /\ changes[c] \in Nat /\ version[c] <= changes[c]
  /\ lock[c] \in LockStates /\ job[c] \in Jobs
  /\ failures[c] \in Nat \cup {-1} /\ failed[c] \in [base : Nat \cup {-1}, excused : BOOLEAN]

Functional ==
  /\ row \in [Collections -> Rows] /\ version \in [Collections -> Nat]
  /\ changes \in [Collections -> Nat] /\ lock \in [Collections -> LockStates]
  /\ job \in [Collections -> Jobs] /\ failures \in [Collections -> Nat \cup {-1}]
  /\ failed \in [Collections -> [base : Nat \cup {-1}, excused : BOOLEAN]]

QueueTyped ==
  /\ slot \in Collections \cup {NoOne}
  /\ Places \subseteq Collections /\ waiting \in [Places -> SUBSET Places]
  /\ maxQueued \in QueueLimits
  /\ asking \subseteq [collection : Collections, seen : Rows]
  /\ phase \in {"up", "closed", "draining", "disconnected"}

LEMMA TypeParts ==
  TypeOK <=> Functional /\ QueueTyped /\ \A c \in Collections : version[c] <= changes[c]
BY DEF TypeOK, Functional, QueueTyped, Jobs

LEMMA TypeAt ==
  ASSUME TypeOK, NEW c \in Collections
  PROVE  Typed(c)
BY DEF TypeOK, Typed, Jobs

\* The phases of a run are apart.
LEMMA PcsApart ==
  /\ Writing \cap Merged = {} /\ Writing \cap Drafting = {} /\ Merged \cap Drafting = {}
  /\ "none" \notin Begun /\ "none" \notin Drafting
BY DEF Writing, Merged, Drafting, Begun, Drawn

-----------------------------------------------------------------------------
\* A collection that a step leaves alone, but for a remembered failure that is out of date.
Alone(d) ==
  /\ row'[d] = row[d] /\ version'[d] = version[d] /\ lock'[d] = lock[d] /\ job'[d] = job[d]
  /\ changes'[d] = changes[d] /\ failed'[d] = failed[d]
  /\ failures'[d] = failures[d] \/ (failures'[d] = -1 /\ failures[d] # version[d])

LEMMA AloneTrue ==
  ASSUME TypeOK, NEW d \in Collections, True(d), Alone(d)
  PROVE  True(d)'
<1>1. Typed(d)
  BY TypeAt
<1> USE <1>1 DEF Typed, Alone, True, Rows, Jobs
<1>2. LockFits(d)' /\ GuardHolds(d)'
  BY DEF LockFits, GuardHolds
<1>3. ReadTrue(d)' /\ FailureLanded(d)'
  BY DEF ReadTrue, FailureLanded
<1>4. PastOnly(d)'
  BY DEF PastOnly
<1>5. NotStale(d)' /\ FailureKept(d)'
  BY DEF NotStale, FailureKept
<1> QED
  BY <1>2, <1>3, <1>4, <1>5

LEMMA RememberAlone ==
  ASSUME TypeOK, NEW c \in Collections, Remember(c)
  PROVE  /\ failures'[c] = job[c].version
         /\ failures' \in [Collections -> Nat \cup {-1}]
         /\ \A d \in Collections \ {c} :
              failures'[d] = failures[d] \/ (failures'[d] = -1 /\ failures[d] # version[d])
<1>1. Functional
  BY TypeParts
<1> QED
  BY <1>1 DEF Remember, Functional, Jobs

-----------------------------------------------------------------------------
\* Every step keeps what the invariant says of each collection.
LEMMA StepTrue ==
  ASSUME IInv, Next
  PROVE  \A d \in Collections : True(d)'
<1> USE DEF IInv
<1>0. Functional /\ \A c \in Collections : Typed(c) /\ True(c)
  BY TypeParts, TypeAt
<1>1. ASSUME NEW c \in Collections, RequestGeneration(c) PROVE \A d \in Collections : True(d)'
  <2> USE <1>1 DEF RequestGeneration
  <2>1. ASSUME NEW d \in Collections \ {c} PROVE Alone(d)
    BY <1>0, <2>1 DEF Alone, Functional
  <2>2. True(c)'
    <3> USE <1>0 DEF True, Typed, Functional, Jobs
    <3>1. LockFits(c)' /\ GuardHolds(c)'
      BY DEF LockFits, GuardHolds, Rows, Sources, LockStates, Operations, NoRow, Begun, Drawn,
             Drafting, Writing, Merged
    <3>2. ReadTrue(c)'
      BY DEF LockFits, ReadTrue, Begun, Drawn, Drafting, Writing, Merged
    <3>3. FailureLanded(c)' /\ PastOnly(c)' /\ NotStale(c)' /\ FailureKept(c)'
      BY DEF LockFits, FailureLanded, ReadTrue, PastOnly, NotStale, FailureKept, Rows, NoRow,
             Begun, Drawn, Drafting, Writing, Merged
    <3> QED
      BY <3>1, <3>2, <3>3
  <2> QED
    BY <2>1, <2>2, <1>0, AloneTrue
<1>2. ASSUME NEW c \in Collections, Begin(c) PROVE \A d \in Collections : True(d)'
  <2> USE <1>2 DEF Begin, At, Goto
  <2>1. ASSUME NEW d \in Collections \ {c} PROVE Alone(d)
    BY <1>0, <2>1 DEF Alone, Functional
  <2>2. True(c)'
    <3> USE <1>0 DEF True, Typed, Functional, Jobs
    <3>1. LockFits(c)' /\ GuardHolds(c)'
      BY DEF LockFits, GuardHolds, Rows, Sources, LockStates, Operations, NoRow, Begun, Drawn,
             Drafting, Writing, Merged
    <3>2. ReadTrue(c)'
      BY DEF LockFits, ReadTrue, Begun, Drawn, Drafting, Writing, Merged
    <3>3. FailureLanded(c)' /\ PastOnly(c)' /\ NotStale(c)' /\ FailureKept(c)'
      BY DEF LockFits, FailureLanded, ReadTrue, PastOnly, NotStale, FailureKept, Rows, NoRow,
             Begun, Drawn, Drafting, Writing, Merged
    <3> QED
      BY <3>1, <3>2, <3>3
  <2> QED
    BY <2>1, <2>2, <1>0, AloneTrue
<1>3. ASSUME NEW c \in Collections, StartRead(c) PROVE \A d \in Collections : True(d)'
  <2> USE <1>3 DEF StartRead, At
  <2>1. ASSUME NEW d \in Collections \ {c} PROVE Alone(d)
    BY <1>0, <2>1 DEF Alone, Functional
  <2>2. True(c)'
    <3> USE <1>0 DEF True, Typed, Functional, Jobs
    <3>1. LockFits(c)' /\ GuardHolds(c)'
      BY DEF LockFits, GuardHolds, Rows, Sources, LockStates, Operations, NoRow, Begun, Drawn,
             Drafting, Writing, Merged
    <3>2. ReadTrue(c)'
      BY DEF LockFits, ReadTrue, Begun, Drawn, Drafting, Writing, Merged
    <3>3. FailureLanded(c)' /\ PastOnly(c)' /\ NotStale(c)' /\ FailureKept(c)'
      BY DEF LockFits, FailureLanded, ReadTrue, PastOnly, NotStale, FailureKept, Rows, NoRow,
             Begun, Drawn, Drafting, Writing, Merged
    <3> QED
      BY <3>1, <3>2, <3>3
  <2> QED
    BY <2>1, <2>2, <1>0, AloneTrue
<1>4. ASSUME NEW c \in Collections, SeeRow(c) PROVE \A d \in Collections : True(d)'
  <2> USE <1>4 DEF SeeRow, At
  <2>1. ASSUME NEW d \in Collections \ {c} PROVE Alone(d)
    BY <1>0, <2>1 DEF Alone, Functional
  <2>2. True(c)'
    <3> USE <1>0 DEF True, Typed, Functional, Jobs
    <3>1. LockFits(c)' /\ GuardHolds(c)'
      BY DEF LockFits, GuardHolds, Rows, Sources, LockStates, Operations, NoRow, Begun, Drawn,
             Drafting, Writing, Merged
    <3>2. ReadTrue(c)'
      BY DEF LockFits, ReadTrue, Begun, Drawn, Drafting, Writing, Merged
    <3>3. FailureLanded(c)' /\ PastOnly(c)' /\ NotStale(c)' /\ FailureKept(c)'
      BY DEF LockFits, FailureLanded, ReadTrue, PastOnly, NotStale, FailureKept, Rows, NoRow,
             Begun, Drawn, Drafting, Writing, Merged
    <3> QED
      BY <3>1, <3>2, <3>3
  <2> QED
    BY <2>1, <2>2, <1>0, AloneTrue
<1>5. ASSUME NEW c \in Collections, ReadFails(c) PROVE \A d \in Collections : True(d)'
  <2> USE <1>5 DEF ReadFails, At, FinishFailed, Finish, Idle
  <2>1. ASSUME NEW d \in Collections \ {c} PROVE Alone(d)
    BY <1>0, <2>1, RememberAlone DEF Alone, Functional
  <2>2. True(c)'
    <3>1. /\ job'[c].pc = "none" /\ lock'[c] # "job" /\ (lock'[c] = "merged" => lock[c] = "merged")
          /\ failed'[c].base = job[c].base /\ failed'[c].excused = job[c].excused
          /\ failures'[c] = job[c].version
      BY <1>0, RememberAlone DEF Functional, Typed, Jobs, True, LockFits, Writing, Merged
    <3>2. job[c].pc \in {"reading"} \cup Drawn
      BY DEF Drawn, Writing
    <3> QED
      BY <3>1, <3>2, <1>0
         DEF True, Typed, Jobs, LockFits, GuardHolds, ReadTrue, FailureLanded, PastOnly, NotStale,
             FailureKept, Begun, Drawn, Writing, Merged
  <2> QED
    BY <2>1, <2>2, <1>0, AloneTrue
<1>6. ASSUME NEW c \in Collections, ReadAgain(c) PROVE \A d \in Collections : True(d)'
  <2> USE <1>6 DEF ReadAgain, At
  <2>1. ASSUME NEW d \in Collections \ {c} PROVE Alone(d)
    BY <1>0, <2>1 DEF Alone, Functional
  <2>2. True(c)'
    <3> USE <1>0 DEF True, Typed, Functional, Jobs
    <3>1. LockFits(c)' /\ GuardHolds(c)'
      BY DEF LockFits, GuardHolds, Rows, Sources, LockStates, Operations, NoRow, Begun, Drawn,
             Drafting, Writing, Merged
    <3>2. ReadTrue(c)'
      BY DEF LockFits, ReadTrue, Begun, Drawn, Drafting, Writing, Merged
    <3>3. FailureLanded(c)' /\ PastOnly(c)' /\ NotStale(c)' /\ FailureKept(c)'
      BY DEF LockFits, FailureLanded, ReadTrue, PastOnly, NotStale, FailureKept, Rows, NoRow,
             Begun, Drawn, Drafting, Writing, Merged
    <3> QED
      BY <3>1, <3>2, <3>3
  <2> QED
    BY <2>1, <2>2, <1>0, AloneTrue
<1>7. ASSUME NEW c \in Collections, TakeRow(c) PROVE \A d \in Collections : True(d)'
  <2> USE <1>7 DEF TakeRow, At, Finish, Idle
  <2>1. ASSUME NEW d \in Collections \ {c} PROVE Alone(d)
    BY <1>0, <2>1 DEF Alone, Functional
  <2>2. True(c)'
    <3>1. CASE job'[c].pc = "none"
      BY <3>1, <1>0 DEF True, Typed, Functional, LockFits, GuardHolds, ReadTrue, FailureLanded,
                        PastOnly, NotStale, FailureKept, Begun, Drawn, Writing, Merged
    <3>2. CASE job'[c].pc # "none"
      <4>1. /\ job'[c].pc = "generating" /\ job'[c].version = job[c].version
            /\ job'[c].base = job[c].base
            /\ ~job'[c].excused => ~job[c].excused /\ version[c] = job[c].version
            /\ job[c].pc = "seen" /\ UNCHANGED <<row, version, lock, changes, failures, failed>>
        BY <3>2, <1>0 DEF Functional, Jobs
      <4> HIDE <1>7 DEF TakeRow, At, Finish, Idle
      <4>2. ReadTrue(c)'
        BY <4>1, <1>0 DEF True, Typed, Jobs, ReadTrue, Begun, Drawn
      <4> QED
        BY <4>1, <4>2, <1>0 DEF True, Typed, LockFits, GuardHolds, FailureLanded, PastOnly,
                                NotStale, FailureKept, Writing, Merged
    <3> QED
      BY <3>1, <3>2
  <2> QED
    BY <2>1, <2>2, <1>0, AloneTrue
<1>8. ASSUME NEW c \in Collections, EndGenerate(c) PROVE \A d \in Collections : True(d)'
  <2> USE <1>8 DEF EndGenerate, At, Goto
  <2>1. ASSUME NEW d \in Collections \ {c} PROVE Alone(d)
    BY <1>0, <2>1 DEF Alone, Functional
  <2>2. True(c)'
    <3> USE <1>0 DEF True, Typed, Functional, Jobs
    <3>1. LockFits(c)' /\ GuardHolds(c)'
      BY DEF LockFits, GuardHolds, Rows, Sources, LockStates, Operations, NoRow, Begun, Drawn,
             Drafting, Writing, Merged
    <3>2. ReadTrue(c)'
      BY DEF LockFits, ReadTrue, Begun, Drawn, Drafting, Writing, Merged
    <3>3. FailureLanded(c)' /\ PastOnly(c)' /\ NotStale(c)' /\ FailureKept(c)'
      BY DEF LockFits, FailureLanded, ReadTrue, PastOnly, NotStale, FailureKept, Rows, NoRow,
             Begun, Drawn, Drafting, Writing, Merged
    <3> QED
      BY <3>1, <3>2, <3>3
  <2> QED
    BY <2>1, <2>2, <1>0, AloneTrue
<1>9. ASSUME NEW c \in Collections, CheckGuard(c) PROVE \A d \in Collections : True(d)'
  <2> USE <1>9 DEF CheckGuard, At, Goto, Finish, Idle, GuardRefuses, NoRow
  <2>1. ASSUME NEW d \in Collections \ {c} PROVE Alone(d)
    BY <1>0, <2>1 DEF Alone, Functional
  <2>2. True(c)'
    <3>1. CASE job'[c].pc = "none"
      <4>1. job[c].pc \in {"landing", "recording"} /\ lock'[c] = lock[c]
        BY <3>1, <1>0 DEF Functional, Jobs
      <4> QED
        BY <4>1, <3>1, <1>0 DEF True, Typed, LockFits, GuardHolds, ReadTrue, FailureLanded,
                        PastOnly, NotStale, FailureKept, Begun, Drawn, Writing, Merged
    <3>2. CASE job'[c].pc # "none"
      <4>1. /\ job'[c].pc \in Writing /\ job'[c].version = job[c].version
            /\ job'[c].base = job[c].base /\ job'[c].excused = job[c].excused
            /\ lock'[c] = "job" /\ row[c] # NoRow /\ row[c].source # "manual"
        BY <3>2, <1>0 DEF Functional, Jobs, Writing
      <4>2. row[c].source # "missing"
        BY <4>1, <1>0 DEF Typed, Rows, Sources
      <4>3. ReadTrue(c)'
        BY <4>1, <1>0 DEF True, Typed, ReadTrue, Begun, Drawn, Writing, Merged
      <4> QED
        BY <4>1, <4>2, <4>3, <1>0 DEF True, Typed, LockFits, GuardHolds, FailureLanded, PastOnly,
                                      NotStale, FailureKept, Writing, Merged
    <3> QED
      BY <3>1, <3>2
  <2> QED
    BY <2>1, <2>2, <1>0, AloneTrue
<1>10. ASSUME NEW c \in Collections, ApplyMissing(c) PROVE \A d \in Collections : True(d)'
  <2> USE <1>10 DEF ApplyMissing, At, Finish, Idle
  <2>1. ASSUME NEW d \in Collections \ {c} PROVE Alone(d)
    BY <1>0, <2>1 DEF Alone, Functional
  <2>2. True(c)'
    <3> USE <1>0 DEF True, Typed, Functional, Jobs
    <3>1. LockFits(c)' /\ GuardHolds(c)'
      BY DEF LockFits, GuardHolds, Rows, Sources, LockStates, Operations, NoRow, Begun, Drawn,
             Drafting, Writing, Merged
    <3>2. ReadTrue(c)'
      BY DEF LockFits, ReadTrue, Begun, Drawn, Drafting, Writing, Merged
    <3>3. FailureLanded(c)' /\ PastOnly(c)' /\ NotStale(c)' /\ FailureKept(c)'
      BY DEF LockFits, FailureLanded, ReadTrue, PastOnly, NotStale, FailureKept, Rows, NoRow,
             Begun, Drawn, Drafting, Writing, Merged
    <3> QED
      BY <3>1, <3>2, <3>3
  <2> QED
    BY <2>1, <2>2, <1>0, AloneTrue
<1>11. ASSUME NEW c \in Collections, SaveFails(c) PROVE \A d \in Collections : True(d)'
  <2> USE <1>11 DEF SaveFails, At, Goto
  <2>1. ASSUME NEW d \in Collections \ {c} PROVE Alone(d)
    BY <1>0, <2>1 DEF Alone, Functional
  <2>2. True(c)'
    <3> USE <1>0 DEF True, Typed, Functional, Jobs
    <3>1. LockFits(c)' /\ GuardHolds(c)'
      BY DEF LockFits, GuardHolds, Rows, Sources, LockStates, Operations, NoRow, Begun, Drawn,
             Drafting, Writing, Merged
    <3>2. ReadTrue(c)'
      BY DEF LockFits, ReadTrue, Begun, Drawn, Drafting, Writing, Merged
    <3>3. FailureLanded(c)' /\ PastOnly(c)' /\ NotStale(c)' /\ FailureKept(c)'
      BY DEF LockFits, FailureLanded, ReadTrue, PastOnly, NotStale, FailureKept, Rows, NoRow,
             Begun, Drawn, Drafting, Writing, Merged
    <3> QED
      BY <3>1, <3>2, <3>3
  <2> QED
    BY <2>1, <2>2, <1>0, AloneTrue
<1>12. ASSUME NEW c \in Collections, RecordFails(c) PROVE \A d \in Collections : True(d)'
  <2> USE <1>12 DEF RecordFails, At, FinishFailed, Finish, Idle
  <2>1. ASSUME NEW d \in Collections \ {c} PROVE Alone(d)
    BY <1>0, <2>1, RememberAlone DEF Alone, Functional
  <2>2. True(c)'
    <3>1. /\ job'[c].pc = "none" /\ lock'[c] # "job" /\ (lock'[c] = "merged" => lock[c] = "merged")
          /\ failed'[c].base = job[c].base /\ failed'[c].excused = job[c].excused
          /\ failures'[c] = job[c].version
      BY <1>0, RememberAlone DEF Functional, Typed, Jobs, True, LockFits, Writing, Merged
    <3>2. job[c].pc \in {"reading"} \cup Drawn
      BY DEF Drawn, Writing
    <3> QED
      BY <3>1, <3>2, <1>0
         DEF True, Typed, Jobs, LockFits, GuardHolds, ReadTrue, FailureLanded, PastOnly, NotStale,
             FailureKept, Begun, Drawn, Writing, Merged
  <2> QED
    BY <2>1, <2>2, <1>0, AloneTrue
<1>13. ASSUME NEW c \in Collections, Merge(c) PROVE \A d \in Collections : True(d)'
  <2> USE <1>13 DEF Merge, At, Goto
  <2>1. ASSUME NEW d \in Collections \ {c} PROVE Alone(d)
    BY <1>0, <2>1 DEF Alone, Functional
  <2>2. True(c)'
    <3>1. /\ job[c].pc \in Writing /\ job'[c].pc \in Merged
          /\ job'[c].version = job[c].version /\ job'[c].base = job[c].base
          /\ job'[c].excused = job[c].excused
          /\ lock'[c] = "merged" /\ changes'[c] = changes[c] + 1
      BY <1>0 DEF Functional, Jobs, Writing, Merged
    <3>2. job'[c].pc = "merged_failed" => row'[c].status = "failed"
      BY <1>0 DEF Functional, Jobs, Rows, NoRow
    <3>3. ReadTrue(c)'
      BY <3>1, <1>0 DEF True, Typed, Jobs, ReadTrue, Begun, Drawn, Writing, Merged
    <3> QED
      BY <3>1, <3>2, <3>3, <1>0 DEF True, Typed, LockFits, GuardHolds, FailureLanded, PastOnly,
                                    NotStale, FailureKept, Writing, Merged
  <2> QED
    BY <2>1, <2>2, <1>0, AloneTrue
<1>14. ASSUME NEW c \in Collections, Settle(c) PROVE \A d \in Collections : True(d)'
  <2> USE <1>14 DEF Settle, At, Finish, Idle, Recorded
  <2>1. ASSUME NEW d \in Collections \ {c} PROVE Alone(d)
    BY <1>0, <2>1 DEF Alone, Functional
  <2>2. True(c)'
    <3> USE <1>0 DEF True, Typed, Functional, Jobs
    <3>1. LockFits(c)' /\ GuardHolds(c)'
      BY DEF LockFits, GuardHolds, Rows, Sources, LockStates, Operations, NoRow, Begun, Drawn,
             Drafting, Writing, Merged
    <3>2. ReadTrue(c)'
      BY DEF LockFits, ReadTrue, Begun, Drawn, Drafting, Writing, Merged
    <3>3. FailureLanded(c)' /\ PastOnly(c)' /\ NotStale(c)' /\ FailureKept(c)'
      BY DEF LockFits, FailureLanded, ReadTrue, PastOnly, NotStale, FailureKept, Rows, NoRow,
             Begun, Drawn, Drafting, Writing, Merged
    <3> QED
      BY <3>1, <3>2, <3>3
  <2> QED
    BY <2>1, <2>2, <1>0, AloneTrue
<1>15. ASSUME NEW c \in Collections, CleanupFails(c) PROVE \A d \in Collections : True(d)'
  <2> USE <1>15 DEF CleanupFails, At, Goto, Finish, Idle, Recorded
  <2>1. ASSUME NEW d \in Collections \ {c} PROVE Alone(d)
    BY <1>0, <2>1, RememberAlone DEF Alone, Functional
  <2>2. True(c)'
    <3>1. version[c] < changes[c] /\ version'[c] = version[c] + 1 /\ lock'[c] = "free"
      BY <1>0 DEF True, LockFits, Functional, Merged
    <3>2. CASE job[c].pc = "merged_text"
      <4>1. /\ job'[c].pc = "recording" /\ job'[c].version = job[c].version
            /\ job'[c].base = job[c].base /\ job'[c].excused = job[c].excused
        BY <3>2, <1>0 DEF Functional, Jobs
      <4> QED
        BY <3>1, <3>2, <4>1, <1>0
           DEF True, Typed, Jobs, LockFits, GuardHolds, ReadTrue, FailureLanded, PastOnly, NotStale,
               FailureKept, Begun, Drawn, Writing, Merged
    <3>3. CASE job[c].pc = "merged_failed"
      <4>1. /\ job'[c].pc = "none" /\ failures'[c] = job[c].version
            /\ failed'[c].base = changes[c] /\ failed'[c].excused = FALSE
        BY <3>3, <1>0, RememberAlone DEF Functional, Jobs
      <4> QED
        BY <3>1, <3>3, <4>1, <1>0
           DEF True, Typed, Jobs, LockFits, GuardHolds, ReadTrue, FailureLanded, PastOnly, NotStale,
               FailureKept, Begun, Drawn, Writing, Merged
    <3> QED
      BY <3>2, <3>3
  <2> QED
    BY <2>1, <2>2, <1>0, AloneTrue
<1>16. ASSUME NEW c \in Collections, Change(c) PROVE \A d \in Collections : True(d)'
  <2> USE <1>16 DEF Change
  <2>1. ASSUME NEW d \in Collections \ {c} PROVE Alone(d)
    BY <1>0, <2>1 DEF Alone, Functional
  <2>2. True(c)'
    <3>1. /\ lock'[c] = "merged" /\ changes'[c] = changes[c] + 1 /\ lock[c] # "job" /\ lock[c] # "merged"
      BY <1>0 DEF Functional, Operations
    <3> QED
      BY <3>1, <1>0
         DEF True, Typed, Jobs, LockFits, GuardHolds, ReadTrue, FailureLanded, PastOnly, NotStale,
             FailureKept, Begun, Drawn, Writing, Merged
  <2> QED
    BY <2>1, <2>2, <1>0, AloneTrue
<1>17. ASSUME NEW c \in Collections, EndChange(c) PROVE \A d \in Collections : True(d)'
  <2> USE <1>17 DEF EndChange
  <2>1. ASSUME NEW d \in Collections \ {c} PROVE Alone(d)
    BY <1>0, <2>1 DEF Alone, Functional
  <2>2. True(c)'
    <3> USE <1>0 DEF True, Typed, Functional, Jobs
    <3>1. LockFits(c)' /\ GuardHolds(c)'
      BY DEF LockFits, GuardHolds, Rows, Sources, LockStates, Operations, NoRow, Begun, Drawn,
             Drafting, Writing, Merged
    <3>2. ReadTrue(c)'
      BY DEF LockFits, ReadTrue, Begun, Drawn, Drafting, Writing, Merged
    <3>3. FailureLanded(c)' /\ PastOnly(c)' /\ NotStale(c)' /\ FailureKept(c)'
      BY DEF LockFits, FailureLanded, ReadTrue, PastOnly, NotStale, FailureKept, Rows, NoRow,
             Begun, Drawn, Drafting, Writing, Merged
    <3> QED
      BY <3>1, <3>2, <3>3
  <2> QED
    BY <2>1, <2>2, <1>0, AloneTrue
<1>18. ASSUME NEW c \in Collections, GiveUp(c) PROVE \A d \in Collections : True(d)'
  <2> USE <1>18 DEF GiveUp, Operations
  <2>1. ASSUME NEW d \in Collections \ {c} PROVE Alone(d)
    BY <1>0, <2>1 DEF Alone, Functional
  <2>2. True(c)'
    <3> USE <1>0 DEF True, Typed, Functional, Jobs
    <3>1. LockFits(c)' /\ GuardHolds(c)'
      BY DEF LockFits, GuardHolds, Rows, Sources, LockStates, Operations, NoRow, Begun, Drawn,
             Drafting, Writing, Merged
    <3>2. ReadTrue(c)'
      BY DEF LockFits, ReadTrue, Begun, Drawn, Drafting, Writing, Merged
    <3>3. FailureLanded(c)' /\ PastOnly(c)' /\ NotStale(c)' /\ FailureKept(c)'
      BY DEF LockFits, FailureLanded, ReadTrue, PastOnly, NotStale, FailureKept, Rows, NoRow,
             Begun, Drawn, Drafting, Writing, Merged
    <3> QED
      BY <3>1, <3>2, <3>3
  <2> QED
    BY <2>1, <2>2, <1>0, AloneTrue
<1>19. ASSUME NEW c \in Collections, CreateRow(c) PROVE \A d \in Collections : True(d)'
  <2> USE <1>19 DEF CreateRow, NoRow, Bare
  <2>1. ASSUME NEW d \in Collections \ {c} PROVE Alone(d)
    BY <1>0, <2>1 DEF Alone, Functional
  <2>2. True(c)'
    <3> USE <1>0 DEF True, Typed, Functional, Jobs
    <3>1. LockFits(c)' /\ GuardHolds(c)'
      BY DEF LockFits, GuardHolds, Rows, Sources, LockStates, Operations, NoRow, Begun, Drawn,
             Drafting, Writing, Merged
    <3>2. ReadTrue(c)'
      BY DEF LockFits, ReadTrue, Begun, Drawn, Drafting, Writing, Merged
    <3>3. FailureLanded(c)' /\ PastOnly(c)' /\ NotStale(c)' /\ FailureKept(c)'
      BY DEF LockFits, FailureLanded, ReadTrue, PastOnly, NotStale, FailureKept, Rows, NoRow,
             Begun, Drawn, Drafting, Writing, Merged
    <3> QED
      BY <3>1, <3>2, <3>3
  <2> QED
    BY <2>1, <2>2, <1>0, AloneTrue
<1>20. ASSUME NEW c \in Collections, EndCancelled(c) PROVE \A d \in Collections : True(d)'
  <2> USE <1>20 DEF EndCancelled, InFlight, Finish, Idle
  <2>1. ASSUME NEW d \in Collections \ {c} PROVE Alone(d)
    BY <1>0, <2>1 DEF Alone, Functional
  <2>2. True(c)'
    <3> USE <1>0 DEF True, Typed, Functional, Jobs
    <3>1. LockFits(c)' /\ GuardHolds(c)'
      BY DEF LockFits, GuardHolds, Rows, Sources, LockStates, Operations, NoRow, Begun, Drawn,
             Drafting, Writing, Merged
    <3>2. ReadTrue(c)'
      BY DEF LockFits, ReadTrue, Begun, Drawn, Drafting, Writing, Merged
    <3>3. FailureLanded(c)' /\ PastOnly(c)' /\ NotStale(c)' /\ FailureKept(c)'
      BY DEF LockFits, FailureLanded, ReadTrue, PastOnly, NotStale, FailureKept, Rows, NoRow,
             Begun, Drawn, Drafting, Writing, Merged
    <3> QED
      BY <3>1, <3>2, <3>3
  <2> QED
    BY <2>1, <2>2, <1>0, AloneTrue
<1>21. ASSUME NEW c \in Collections, NEW operation \in Operations, TakeLock(c, operation)
      PROVE  \A d \in Collections : True(d)'
  <2> USE <1>21 DEF TakeLock
  <2>1. ASSUME NEW d \in Collections \ {c} PROVE Alone(d)
    BY <1>0, <2>1 DEF Alone, Functional
  <2>2. True(c)'
    BY <1>0 DEF True, Typed, Functional, LockFits, GuardHolds, ReadTrue, FailureLanded, PastOnly,
                NotStale, FailureKept, Operations, Writing, Merged
  <2> QED
    BY <2>1, <2>2, <1>0, AloneTrue
<1>22. ASSUME NEW a \in asking, AnswerRequest(a) PROVE \A d \in Collections : True(d)'
  <2> USE <1>22 DEF AnswerRequest
  <2>1. a.collection \in Collections
    BY DEF TypeOK
  <2>2. ASSUME NEW d \in Collections \ {a.collection} PROVE Alone(d)
    BY <1>0, <2>1, <2>2 DEF Alone, Functional, Admit
  <2>3. CASE UNCHANGED job
    BY <2>3, <1>0, AloneTrue DEF Alone
  <2>4. CASE job' # job
    <3> DEFINE c == a.collection
    <3>1. ~InFlight(c) /\ job'[c].pc = "spawned"
      <4>1. PICK kind \in Asked : ~InFlight(c) /\ Admit(c, kind)
        BY <2>4
      <4> QED
        BY <4>1, <2>1, <1>0 DEF Admit, Idle, Functional
    <3>2. True(c)'
      BY <3>1, <2>1, <1>0
         DEF True, Typed, Functional, LockFits, GuardHolds, ReadTrue, FailureLanded, PastOnly,
             NotStale, FailureKept, InFlight, Drafting, Writing, Merged, Begun, Drawn
    <3> QED
      BY <3>2, <2>1, <2>2, <1>0, AloneTrue
  <2> QED
    BY <2>3, <2>4
<1>23. CASE Close \/ Drain \/ Disconnect
  BY <1>23, <1>0, AloneTrue DEF Close, Drain, Disconnect, Alone
<1> QED
  BY <1>1, <1>2, <1>3, <1>4, <1>5, <1>6, <1>7, <1>8, <1>9, <1>10, <1>11, <1>12, <1>13, <1>14,
     <1>15, <1>16, <1>17, <1>18, <1>19, <1>20, <1>21, <1>22, <1>23
     DEF Next, JobStep, OperatorStep

-----------------------------------------------------------------------------
\* The order of the queue.
Ordered(q) == \A c, d \in DOMAIN q : c \in q[d] <=> c # d /\ d \notin q[c]

LEMMA KeepFacts ==
  ASSUME QueueTyped, QueueInv, NEW S \in SUBSET Places, Keep(S)
  PROVE  /\ Places' = S /\ waiting' \in [S -> SUBSET S]
         /\ Ordered(waiting')
         /\ IsFiniteSet(S) /\ Cardinality(S) <= Cardinality(Places)
<1>1. Places' = S /\ waiting' \in [S -> SUBSET S]
  BY DEF Keep, Places
<1>2. Ordered(waiting')
  BY DEF Keep, Places, Ordered, QueueInv, SlotAndQueue, QueueTyped
<1>3. IsFiniteSet(S) /\ Cardinality(S) <= Cardinality(Places)
  BY FS_Subset DEF QueueInv
<1> QED
  BY <1>1, <1>2, <1>3

\* What a release leaves: c has no place and not the slot, the slot is passed on to a place or
\* freed with none left, and outside a drain everyone else keeps a place or gets the slot.
LEMMA ReleaseFacts ==
  ASSUME TypeOK, QueueInv, NEW c \in Collections, Release(c)
  PROVE  /\ Places' \subseteq Places \ {c} /\ waiting' \in [Places' -> SUBSET Places']
         /\ Ordered(waiting')
         /\ IsFiniteSet(Places') /\ Cardinality(Places') <= Cardinality(Places)
         /\ slot' # c /\ slot' \notin Places'
         /\ slot' = slot \/ slot' = NoOne \/ slot' \in Places
         /\ slot' = NoOne => Places' = {}
         /\ phase # "draining" => \A d \in Places : d # c => d \in Places' \/ d = slot'
         /\ slot # c => slot' = slot
<1>0. QueueTyped /\ NoOne \notin Collections
  BY TypeParts, NoOneFits
<1>1. CASE slot = c
  <2>0. c \notin Places /\ PassOn
    BY <1>1 DEF QueueInv, SlotAndQueue, Release
  <2>1. CASE \E g \in Places : Grantable(g)
    <3>1. PICK g \in Places : Best(g) /\ slot' = g /\ Keep({d \in Places : d # g /\ ~Ahead(d, g)})
      BY <2>0, <2>1 DEF PassOn
    <3> DEFINE S == {d \in Places : d # g /\ ~Ahead(d, g)}
    <3>2. /\ Places' = S /\ waiting' \in [S -> SUBSET S] /\ Ordered(waiting')
          /\ IsFiniteSet(S) /\ Cardinality(S) <= Cardinality(Places)
      BY <3>1, <1>0, KeepFacts
    <3>3. phase # "draining" => \A d \in Places : ~Ahead(d, g)
      BY <3>1 DEF Best, Grantable
    <3> QED
      BY <1>0, <1>1, <2>0, <3>1, <3>2, <3>3 DEF QueueTyped
  <2>2. CASE ~\E g \in Places : Grantable(g)
    <3>1. slot' = NoOne /\ Keep({})
      BY <2>0, <2>2 DEF PassOn
    <3>2. /\ Places' = {} /\ waiting' \in [{} -> SUBSET {}] /\ Ordered(waiting')
          /\ IsFiniteSet({}) /\ Cardinality({}) <= Cardinality(Places)
      BY <3>1, <1>0, KeepFacts
    <3>3. phase # "draining" => Places = {}
      BY <2>2 DEF Grantable
    <3> QED
      BY <1>0, <1>1, <2>0, <3>1, <3>2, <3>3
  <2> QED
    BY <2>1, <2>2
<1>2. CASE slot # c
  <2>1. slot' = slot /\ Keep(Places \ {c})
    BY <1>2 DEF Release
  <2> DEFINE S == Places \ {c}
  <2>2. /\ Places' = S /\ waiting' \in [S -> SUBSET S] /\ Ordered(waiting')
        /\ IsFiniteSet(S) /\ Cardinality(S) <= Cardinality(Places)
    BY <2>1, <1>0, KeepFacts
  <2>3. slot \notin Places /\ (slot = NoOne => Places = {})
    BY DEF QueueInv, SlotAndQueue
  <2> QED
    BY <1>2, <2>1, <2>2, <2>3
<1> QED
  BY <1>1, <1>2

LEMMA AdmitFacts ==
  ASSUME TypeOK, QueueInv, NEW c \in Collections, NEW kind, Admit(c, kind), ~IsFull, ~InFlight(c)
  PROVE  /\ Places' \subseteq Places \cup {c} /\ waiting' \in [Places' -> SUBSET Places']
         /\ Ordered(waiting')
         /\ IsFiniteSet(Places') /\ Cardinality(Places') <= maxQueued
         /\ c \notin Places /\ slot # c
         /\ \/ slot = NoOne /\ slot' = c /\ Places' = {}
            \/ slot' = slot /\ slot # NoOne /\ Places' = Places \cup {c}
<1>0. QueueTyped /\ NoOne \notin Collections /\ maxQueued \in Nat
  BY TypeParts, NoOneFits, LimitsFit DEF QueueTyped
<1>1. c \notin Places /\ slot # c
  BY <1>0 DEF QueueInv, SlotAndQueue, InFlight, Drafting
<1>2. CASE slot = NoOne
  <2>1. slot' = c /\ waiting' = waiting
    BY <1>2 DEF Admit
  <2>2. Places = {} /\ Places' = Places
    BY <1>2, <2>1 DEF QueueInv, SlotAndQueue, Places
  <2>3. Cardinality(Places') = 0 /\ IsFiniteSet(Places')
    BY <2>2, FS_EmptySet
  <2> QED
    BY <1>0, <1>1, <1>2, <2>1, <2>2, <2>3 DEF QueueTyped, Ordered, Places
<1>3. CASE slot # NoOne
  <2>1. slot' = slot /\ waiting' = [d \in Places \cup {c} |-> IF d = c THEN Places ELSE waiting[d]]
    BY <1>3 DEF Admit
  <2>2. Places' = Places \cup {c}
    BY <2>1 DEF Places
  <2>3. waiting' \in [Places' -> SUBSET Places']
    BY <1>0, <2>1, <2>2 DEF QueueTyped
  <2>4. Ordered(waiting')
    <3>1. SUFFICES ASSUME NEW x \in Places \cup {c}, NEW y \in Places \cup {c}
                   PROVE  x \in waiting'[y] <=> x # y /\ y \notin waiting'[x]
      BY <2>1 DEF Ordered
    <3>2. \A d \in Places : waiting'[d] = waiting[d] /\ waiting[d] \subseteq Places
      BY <1>0, <1>1, <2>1 DEF QueueTyped
    <3>3. waiting'[c] = Places
      BY <2>1
    <3> QED
      BY <1>1, <3>2, <3>3 DEF QueueInv, SlotAndQueue
  <2>5. IsFiniteSet(Places') /\ Cardinality(Places') = Cardinality(Places) + 1
    BY <1>1, <2>2, FS_AddElement DEF QueueInv
  <2>6. Cardinality(Places) < maxQueued /\ Cardinality(Places) \in Nat
    BY <1>0, <1>3, FS_CardinalityType DEF IsFull, QueueInv
  <2> QED
    BY <1>0, <1>1, <1>3, <2>1, <2>2, <2>3, <2>4, <2>5, <2>6
<1> QED
  BY <1>2, <1>3

-----------------------------------------------------------------------------
\* A step that leaves the slot and the queue alone.
LEMMA QueueStays ==
  ASSUME TypeOK, QueueInv, UNCHANGED <<slot, waiting, maxQueued, phase>>,
         NEW c \in Collections, InFlight(c), \A d \in Collections \ {c} : job'[d] = job[d],
         job'[c].pc \in {"spawned", "queued"} => job[c].pc \in {"spawned", "queued"},
         job'[c].pc \in {"reading", "seen", "generating"} => c = slot,
         c = slot => job'[c].pc \in Drafting,
         c \in Places => job'[c].pc \in {"spawned", "queued"}
  PROVE  QueueInv'
<1>1. QueueTyped /\ NoOne \notin Collections /\ Places' = Places
  BY TypeParts, NoOneFits DEF Places
<1>2. SlotAndQueue'
  BY <1>1 DEF QueueInv, SlotAndQueue, QueueTyped
<1> QED
  BY <1>1, <1>2 DEF QueueInv, InFlight

\* A run that ends, or ends its model call.
LEMMA QueueReleased ==
  ASSUME TypeOK, QueueInv, UNCHANGED <<maxQueued, phase>>,
         NEW c \in Collections, InFlight(c), \A d \in Collections \ {c} : job'[d] = job[d],
         job'[c].pc \notin Drafting, Release(c)
  PROVE  QueueInv'
<1>1. QueueTyped /\ NoOne \notin Collections /\ maxQueued \in Nat
  BY TypeParts, NoOneFits, LimitsFit DEF QueueTyped
<1>2. /\ Places' \subseteq Places \ {c} /\ Ordered(waiting')
      /\ IsFiniteSet(Places') /\ Cardinality(Places') <= Cardinality(Places)
      /\ slot' # c /\ slot' \notin Places'
      /\ slot' = slot \/ slot' = NoOne \/ slot' \in Places
      /\ slot' = NoOne => Places' = {}
      /\ phase # "draining" => \A d \in Places : d # c => d \in Places' \/ d = slot'
      /\ slot # c => slot' = slot
  BY ReleaseFacts
<1>3. Cardinality(Places) \in Nat /\ Cardinality(Places') \in Nat
  BY <1>2, FS_CardinalityType DEF QueueInv
<1>4. Cardinality(Places)' <= maxQueued'
  BY <1>1, <1>2, <1>3 DEF QueueInv, SlotAndQueue
<1>5. SlotAndQueue'
  <2>1. (slot = NoOne => Places = {})'
    BY <1>2
  <2>2. (slot # NoOne => job[slot].pc \in Drafting)'
    BY <1>1, <1>2 DEF QueueInv, SlotAndQueue, QueueTyped, Drafting
  <2>3. (\A x, y \in Places : x \in waiting[y] <=> x # y /\ y \notin waiting[x])'
    BY <1>2 DEF Ordered, Places
  <2>4. (\A x \in Places : x # slot /\ job[x].pc \in {"spawned", "queued"})'
    BY <1>1, <1>2 DEF QueueInv, SlotAndQueue, QueueTyped
  <2>5. (\A x \in Collections :
           /\ job[x].pc \in {"reading", "seen", "generating"} => x = slot
           /\ job[x].pc \in {"spawned", "queued"} /\ phase # "draining" => x = slot \/ x \in Places)'
    BY <1>1, <1>2 DEF QueueInv, SlotAndQueue, QueueTyped, Drafting
  <2> QED
    BY <1>4, <2>1, <2>2, <2>3, <2>4, <2>5 DEF SlotAndQueue
<1> QED
  BY <1>2, <1>5 DEF QueueInv, InFlight

\* A request that is admitted.
LEMMA QueueAdmits ==
  ASSUME TypeOK, QueueInv, UNCHANGED <<maxQueued, phase>>, phase = "up",
         NEW c \in Collections, NEW kind, ~InFlight(c), ~IsFull, Admit(c, kind)
  PROVE  QueueInv'
<1>1. QueueTyped /\ NoOne \notin Collections /\ Functional
  BY TypeParts, NoOneFits
<1>2. /\ Ordered(waiting') /\ IsFiniteSet(Places') /\ Cardinality(Places') <= maxQueued
      /\ c \notin Places /\ slot # c
      /\ \/ slot = NoOne /\ slot' = c /\ Places' = {}
         \/ slot' = slot /\ slot # NoOne /\ Places' = Places \cup {c}
  BY AdmitFacts
<1>3. job'[c].pc = "spawned" /\ \A d \in Collections \ {c} : job'[d] = job[d]
  BY <1>1 DEF Admit, Idle, Functional
<1>4. SlotAndQueue'
  <2>1. (\A x, y \in Places : x \in waiting[y] <=> x # y /\ y \notin waiting[x])'
    BY <1>2 DEF Ordered, Places
  <2>2. Cardinality(Places)' <= maxQueued'
    BY <1>2
  <2>3. (/\ slot = NoOne => Places = {}
         /\ slot # NoOne => job[slot].pc \in Drafting
         /\ \A x \in Places : x # slot /\ job[x].pc \in {"spawned", "queued"})'
    BY <1>1, <1>2, <1>3 DEF QueueInv, SlotAndQueue, QueueTyped, Drafting
  <2>4. (\A x \in Collections :
           /\ job[x].pc \in {"reading", "seen", "generating"} => x = slot
           /\ job[x].pc \in {"spawned", "queued"} /\ phase # "draining" => x = slot \/ x \in Places)'
    BY <1>1, <1>2, <1>3 DEF QueueInv, SlotAndQueue, QueueTyped
  <2> QED
    BY <2>1, <2>2, <2>3, <2>4 DEF SlotAndQueue
<1> QED
  BY <1>2, <1>4 DEF QueueInv

\* Every step keeps the queue.
LEMMA StepQueue ==
  ASSUME IInv, Next
  PROVE  QueueInv'
<1> USE DEF IInv
<1>0. Functional /\ QueueTyped /\ UNCHANGED maxQueued
  BY TypeParts DEF Next
<1>a. ASSUME NEW c \in Collections
      PROVE  /\ c = slot => job[c].pc \in Drafting
             /\ c \in Places => c # slot /\ job[c].pc \in {"spawned", "queued"}
             /\ job[c].pc \in {"reading", "seen", "generating"} => c = slot
  BY NoOneFits DEF QueueInv, SlotAndQueue
<1>1. ASSUME NEW c \in Collections, Begin(c) PROVE QueueInv'
  <2>1. InFlight(c) /\ UNCHANGED <<slot, waiting, phase>>
    BY <1>1 DEF Begin, At, Goto, InFlight, Writing
  <2>2. \A d \in Collections \ {c} : job'[d] = job[d]
    BY <1>1, <1>0 DEF Begin, At, Goto, Functional
  <2>3. /\ job'[c].pc \in {"spawned", "queued"} => job[c].pc \in {"spawned", "queued"}
        /\ job'[c].pc \in {"reading", "seen", "generating"} => c = slot
        /\ c = slot => job'[c].pc \in Drafting
        /\ c \in Places => job'[c].pc \in {"spawned", "queued"}
    BY <1>1, <1>0, <1>a DEF Begin, At, Goto, Functional, Jobs, Drafting
  <2> QED
    BY <1>0, <2>1, <2>2, <2>3, QueueStays
<1>2. ASSUME NEW c \in Collections, StartRead(c) PROVE QueueInv'
  <2>1. InFlight(c) /\ UNCHANGED <<slot, waiting, phase>>
    BY <1>2 DEF StartRead, At, InFlight, Writing
  <2>2. \A d \in Collections \ {c} : job'[d] = job[d]
    BY <1>2, <1>0 DEF StartRead, At, Functional
  <2>3. /\ job'[c].pc \in {"spawned", "queued"} => job[c].pc \in {"spawned", "queued"}
        /\ job'[c].pc \in {"reading", "seen", "generating"} => c = slot
        /\ c = slot => job'[c].pc \in Drafting
        /\ c \in Places => job'[c].pc \in {"spawned", "queued"}
    BY <1>2, <1>0, <1>a DEF StartRead, At, Functional, Jobs, Drafting
  <2> QED
    BY <1>0, <2>1, <2>2, <2>3, QueueStays
<1>3. ASSUME NEW c \in Collections, SeeRow(c) PROVE QueueInv'
  <2>1. InFlight(c) /\ UNCHANGED <<slot, waiting, phase>>
    BY <1>3 DEF SeeRow, At, InFlight, Writing
  <2>2. \A d \in Collections \ {c} : job'[d] = job[d]
    BY <1>3, <1>0 DEF SeeRow, At, Functional
  <2>3. /\ job'[c].pc \in {"spawned", "queued"} => job[c].pc \in {"spawned", "queued"}
        /\ job'[c].pc \in {"reading", "seen", "generating"} => c = slot
        /\ c = slot => job'[c].pc \in Drafting
        /\ c \in Places => job'[c].pc \in {"spawned", "queued"}
    BY <1>3, <1>0, <1>a DEF SeeRow, At, Functional, Jobs, Drafting
  <2> QED
    BY <1>0, <2>1, <2>2, <2>3, QueueStays
<1>4. ASSUME NEW c \in Collections, ReadAgain(c) PROVE QueueInv'
  <2>1. InFlight(c) /\ UNCHANGED <<slot, waiting, phase>>
    BY <1>4 DEF ReadAgain, At, InFlight, Writing
  <2>2. \A d \in Collections \ {c} : job'[d] = job[d]
    BY <1>4, <1>0 DEF ReadAgain, At, Functional
  <2>3. /\ job'[c].pc \in {"spawned", "queued"} => job[c].pc \in {"spawned", "queued"}
        /\ job'[c].pc \in {"reading", "seen", "generating"} => c = slot
        /\ c = slot => job'[c].pc \in Drafting
        /\ c \in Places => job'[c].pc \in {"spawned", "queued"}
    BY <1>4, <1>0, <1>a DEF ReadAgain, At, Functional, Jobs, Drafting
  <2> QED
    BY <1>0, <2>1, <2>2, <2>3, QueueStays
<1>5. ASSUME NEW c \in Collections, SaveFails(c) PROVE QueueInv'
  <2>1. InFlight(c) /\ UNCHANGED <<slot, waiting, phase>>
    BY <1>5 DEF SaveFails, At, Goto, InFlight, Writing
  <2>2. \A d \in Collections \ {c} : job'[d] = job[d]
    BY <1>5, <1>0 DEF SaveFails, At, Goto, Functional
  <2>3. /\ job'[c].pc \in {"spawned", "queued"} => job[c].pc \in {"spawned", "queued"}
        /\ job'[c].pc \in {"reading", "seen", "generating"} => c = slot
        /\ c = slot => job'[c].pc \in Drafting
        /\ c \in Places => job'[c].pc \in {"spawned", "queued"}
    BY <1>5, <1>0, <1>a DEF SaveFails, At, Goto, Functional, Jobs, Drafting
  <2> QED
    BY <1>0, <2>1, <2>2, <2>3, QueueStays
<1>6. ASSUME NEW c \in Collections, Merge(c) PROVE QueueInv'
  <2>1. InFlight(c) /\ UNCHANGED <<slot, waiting, phase>>
    BY <1>6 DEF Merge, At, Goto, InFlight, Writing
  <2>2. \A d \in Collections \ {c} : job'[d] = job[d]
    BY <1>6, <1>0 DEF Merge, At, Goto, Functional
  <2>3. /\ job'[c].pc \in {"spawned", "queued"} => job[c].pc \in {"spawned", "queued"}
        /\ job'[c].pc \in {"reading", "seen", "generating"} => c = slot
        /\ c = slot => job'[c].pc \in Drafting
        /\ c \in Places => job'[c].pc \in {"spawned", "queued"}
    BY <1>6, <1>0, <1>a DEF Merge, At, Goto, Functional, Jobs, Drafting
  <2> QED
    BY <1>0, <2>1, <2>2, <2>3, QueueStays
<1>7. ASSUME NEW c \in Collections, ReadFails(c) PROVE QueueInv'
  <2>1. InFlight(c) /\ UNCHANGED phase /\ Release(c)
    BY <1>7 DEF ReadFails, At, FinishFailed, Finish, InFlight
  <2>2. job'[c].pc \notin Drafting /\ \A d \in Collections \ {c} : job'[d] = job[d]
    BY <1>7, <1>0 DEF ReadFails, At, FinishFailed, Finish, Idle, Functional, Jobs, Drafting
  <2> QED
    BY <1>0, <2>1, <2>2, QueueReleased
<1>8. ASSUME NEW c \in Collections, EndGenerate(c) PROVE QueueInv'
  <2>1. InFlight(c) /\ UNCHANGED phase /\ Release(c)
    BY <1>8 DEF EndGenerate, At, Goto, InFlight
  <2>2. job'[c].pc \notin Drafting /\ \A d \in Collections \ {c} : job'[d] = job[d]
    BY <1>8, <1>0 DEF EndGenerate, At, Goto, Functional, Jobs, Drafting
  <2> QED
    BY <1>0, <2>1, <2>2, QueueReleased
<1>9. ASSUME NEW c \in Collections, ApplyMissing(c) PROVE QueueInv'
  <2>1. InFlight(c) /\ UNCHANGED phase /\ Release(c)
    BY <1>9 DEF ApplyMissing, At, Finish, InFlight
  <2>2. job'[c].pc \notin Drafting /\ \A d \in Collections \ {c} : job'[d] = job[d]
    BY <1>9, <1>0 DEF ApplyMissing, At, Finish, Idle, Functional, Jobs, Drafting
  <2> QED
    BY <1>0, <2>1, <2>2, QueueReleased
<1>10. ASSUME NEW c \in Collections, RecordFails(c) PROVE QueueInv'
  <2>1. InFlight(c) /\ UNCHANGED phase /\ Release(c)
    BY <1>10 DEF RecordFails, At, FinishFailed, Finish, InFlight
  <2>2. job'[c].pc \notin Drafting /\ \A d \in Collections \ {c} : job'[d] = job[d]
    BY <1>10, <1>0 DEF RecordFails, At, FinishFailed, Finish, Idle, Functional, Jobs, Drafting
  <2> QED
    BY <1>0, <2>1, <2>2, QueueReleased
<1>11. ASSUME NEW c \in Collections, Settle(c) PROVE QueueInv'
  <2>1. InFlight(c) /\ UNCHANGED phase /\ Release(c)
    BY <1>11 DEF Settle, At, Finish, InFlight
  <2>2. job'[c].pc \notin Drafting /\ \A d \in Collections \ {c} : job'[d] = job[d]
    BY <1>11, <1>0 DEF Settle, At, Finish, Idle, Functional, Jobs, Drafting
  <2> QED
    BY <1>0, <2>1, <2>2, QueueReleased
<1>12. ASSUME NEW c \in Collections, EndCancelled(c) PROVE QueueInv'
  <2>1. InFlight(c) /\ UNCHANGED phase /\ Release(c)
    BY <1>12 DEF EndCancelled, Finish, InFlight
  <2>2. job'[c].pc \notin Drafting /\ \A d \in Collections \ {c} : job'[d] = job[d]
    BY <1>12, <1>0 DEF EndCancelled, Finish, Idle, Functional, Jobs, Drafting
  <2> QED
    BY <1>0, <2>1, <2>2, QueueReleased
<1>13. ASSUME NEW c \in Collections, TakeRow(c) PROVE QueueInv'
  <2>1. InFlight(c) /\ UNCHANGED phase
    BY <1>13 DEF TakeRow, At, InFlight
  <2>2. \A d \in Collections \ {c} : job'[d] = job[d]
    BY <1>13, <1>0 DEF TakeRow, At, Finish, Idle, Functional
  <2>3. CASE Finish(c)
    <3>1. Release(c) /\ job'[c].pc \notin Drafting
      BY <2>3, <1>0 DEF Finish, Idle, Functional, Drafting
    <3> QED
      BY <1>0, <2>1, <2>2, <3>1, QueueReleased
  <2>4. CASE ~Finish(c)
    <3>1. /\ UNCHANGED <<slot, waiting>>
          /\ job'[c].pc \in {"spawned", "queued"} => job[c].pc \in {"spawned", "queued"}
          /\ job'[c].pc \in {"reading", "seen", "generating"} => c = slot
          /\ c = slot => job'[c].pc \in Drafting
          /\ c \in Places => job'[c].pc \in {"spawned", "queued"}
      BY <2>4, <1>13, <1>0, <1>a DEF TakeRow, At, Functional, Jobs, Drafting
    <3> QED
      BY <1>0, <2>1, <2>2, <3>1, QueueStays
  <2> QED
    BY <2>3, <2>4
<1>14. ASSUME NEW c \in Collections, CheckGuard(c) PROVE QueueInv'
  <2>1. InFlight(c) /\ UNCHANGED phase
    BY <1>14 DEF CheckGuard, At, InFlight
  <2>2. \A d \in Collections \ {c} : job'[d] = job[d]
    BY <1>14, <1>0 DEF CheckGuard, At, Goto, Finish, Idle, Functional
  <2>3. CASE Finish(c)
    <3>1. Release(c) /\ job'[c].pc \notin Drafting
      BY <2>3, <1>0 DEF Finish, Idle, Functional, Drafting
    <3> QED
      BY <1>0, <2>1, <2>2, <3>1, QueueReleased
  <2>4. CASE ~Finish(c)
    <3>1. /\ UNCHANGED <<slot, waiting>>
          /\ job'[c].pc \in {"spawned", "queued"} => job[c].pc \in {"spawned", "queued"}
          /\ job'[c].pc \in {"reading", "seen", "generating"} => c = slot
          /\ c = slot => job'[c].pc \in Drafting
          /\ c \in Places => job'[c].pc \in {"spawned", "queued"}
      BY <2>4, <1>14, <1>0, <1>a DEF CheckGuard, At, Goto, Functional, Jobs, Drafting
    <3> QED
      BY <1>0, <2>1, <2>2, <3>1, QueueStays
  <2> QED
    BY <2>3, <2>4
<1>15. ASSUME NEW c \in Collections, CleanupFails(c) PROVE QueueInv'
  <2>1. InFlight(c) /\ UNCHANGED phase
    BY <1>15 DEF CleanupFails, At, InFlight
  <2>2. \A d \in Collections \ {c} : job'[d] = job[d]
    BY <1>15, <1>0 DEF CleanupFails, At, Goto, Finish, Idle, Functional
  <2>3. CASE Finish(c)
    <3>1. Release(c) /\ job'[c].pc \notin Drafting
      BY <2>3, <1>0 DEF Finish, Idle, Functional, Drafting
    <3> QED
      BY <1>0, <2>1, <2>2, <3>1, QueueReleased
  <2>4. CASE ~Finish(c)
    <3>1. /\ UNCHANGED <<slot, waiting>>
          /\ job'[c].pc \in {"spawned", "queued"} => job[c].pc \in {"spawned", "queued"}
          /\ job'[c].pc \in {"reading", "seen", "generating"} => c = slot
          /\ c = slot => job'[c].pc \in Drafting
          /\ c \in Places => job'[c].pc \in {"spawned", "queued"}
      BY <2>4, <1>15, <1>0, <1>a DEF CleanupFails, At, Goto, Functional, Jobs, Drafting
    <3> QED
      BY <1>0, <2>1, <2>2, <3>1, QueueStays
  <2> QED
    BY <2>3, <2>4
<1>16. ASSUME NEW a \in asking, AnswerRequest(a) PROVE QueueInv'
  <2>1. a.collection \in Collections
    BY DEF TypeOK
  <2>2. CASE UNCHANGED <<job, slot, waiting>>
    BY <1>16, <2>2, <1>0 DEF AnswerRequest, QueueInv, SlotAndQueue, InFlight, Places
  <2>3. CASE ~UNCHANGED <<job, slot, waiting>>
    <3>1. PICK kind \in Asked :
            /\ phase = "up" /\ ~InFlight(a.collection) /\ ~IsFull /\ Admit(a.collection, kind)
      BY <1>16, <2>3 DEF AnswerRequest
    <3>2. UNCHANGED phase
      BY <1>16 DEF AnswerRequest
    <3> QED
      BY <1>0, <2>1, <3>1, <3>2, QueueAdmits
  <2> QED
    BY <2>2, <2>3
<1>17. ASSUME UNCHANGED <<job, slot, waiting>>,
              phase' = phase \/ Close \/ Drain \/ Disconnect
      PROVE  QueueInv'
  <2>1. Places' = Places
    BY <1>17 DEF Places
  <2> QED
    BY <1>17, <1>0, <2>1 DEF QueueInv, SlotAndQueue, InFlight, Close, Drain, Disconnect
<1>18. ASSUME NEW c \in Collections,
              \/ RequestGeneration(c) \/ (\E operation \in Operations : TakeLock(c, operation))
              \/ OperatorStep(c) \/ CreateRow(c)
      PROVE  QueueInv'
  BY <1>18, <1>17
     DEF RequestGeneration, TakeLock, OperatorStep, Change, EndChange, GiveUp, CreateRow
<1>19. CASE Close \/ Drain \/ Disconnect
  BY <1>19, <1>17 DEF Close, Drain, Disconnect
<1> QED
  BY <1>1, <1>2, <1>3, <1>4, <1>5, <1>6, <1>7, <1>8, <1>9, <1>10, <1>11, <1>12, <1>13, <1>14,
     <1>15, <1>16, <1>17, <1>18, <1>19
     DEF Next, JobStep

-----------------------------------------------------------------------------
\* Types: a step's new job, row and counters, and a version that never passes its changes.
LEMMA TypePrimed ==
  ASSUME Functional', QueueTyped', \A d \in Collections : version'[d] <= changes'[d]
  PROVE  TypeOK'
BY DEF TypeOK, Functional, QueueTyped, Jobs

\* A new record of one collection's job.
LEMMA JobPrimed ==
  ASSUME job \in [Collections -> Jobs], NEW c \in Collections, NEW j \in Jobs,
         job' = [job EXCEPT ![c] = j]
  PROVE  job' \in [Collections -> Jobs]
OBVIOUS

LEMMA JobFields ==
  ASSUME NEW j \in Jobs, NEW pc \in Pcs, NEW n \in 0..RowReadAttempts, NEW v \in Nat, NEW b \in Nat,
         NEW e \in BOOLEAN
  PROVE  /\ [j EXCEPT !.pc = pc, !.reads = n, !.version = v, !.base = b, !.excused = e] \in Jobs
         /\ [j EXCEPT !.pc = pc, !.reads = n, !.excused = e] \in Jobs
BY DEF Jobs

LEMMA StepTyped ==
  ASSUME IInv, Next
  PROVE  TypeOK'
<1> USE DEF IInv
<1>0. Functional /\ QueueTyped /\ UNCHANGED maxQueued /\ \A c \in Collections : Typed(c) /\ True(c)
  BY TypeParts, TypeAt DEF Next
<1>a. Idle \in Jobs /\ RowReadAttempts \in Nat \ {0}
  BY LimitsFit DEF Idle, Jobs, Pcs, Kinds, Rows
<1>b. ASSUME NEW c \in Collections, Release(c)
      PROVE  /\ slot' \in Collections \cup {NoOne} /\ Places' \subseteq Collections
             /\ waiting' \in [Places' -> SUBSET Places']
  <2>1. /\ Places' \subseteq Places \ {c} /\ waiting' \in [Places' -> SUBSET Places']
        /\ slot' = slot \/ slot' = NoOne \/ slot' \in Places
    BY <1>b, ReleaseFacts
  <2> QED
    BY <2>1, <1>0 DEF QueueTyped
<1>c. UNCHANGED waiting => Places' = Places
  BY DEF Places
<1>1. ASSUME NEW c \in Collections, RequestGeneration(c) PROVE TypeOK'
  <2> USE <1>1 DEF RequestGeneration
  <2>1. Functional'
    BY <1>0, <1>a
       DEF Functional, Typed, Rows, NoRow, Bare, Sources, Stored, LockStates, True,
           GuardHolds, Writing
  <2>2. QueueTyped'
    BY <1>0, <1>b, <1>c DEF QueueTyped, Typed, Rows, NoRow
  <2>3. \A d \in Collections : version'[d] <= changes'[d]
    BY <1>0 DEF Functional, Typed, True, LockFits, Merged
  <2> QED
    BY <2>1, <2>2, <2>3, TypePrimed
<1>2. ASSUME NEW c \in Collections, Begin(c) PROVE TypeOK'
  <2> USE <1>2 DEF Begin, At, Goto
  <2>j. job' \in [Collections -> Jobs]
    <3> DEFINE j == [job[c] EXCEPT !.pc = "queued"]
    <3>1. job' = [job EXCEPT ![c] = j]
      BY <1>0 DEF Functional
    <3>2. j \in Jobs
      BY <1>0, <1>a DEF Typed, Jobs, Pcs, Drafting, Writing, Merged
    <3> HIDE DEF j
    <3> QED
      BY <1>0, <3>1, <3>2 DEF Functional
  <2>1. Functional'
    BY <1>0, <1>a, <2>j
       DEF Functional, Typed, Rows, NoRow, Bare, Sources, Stored, LockStates, True,
           GuardHolds, Writing
  <2>2. QueueTyped'
    BY <1>0, <1>b, <1>c DEF QueueTyped
  <2>3. \A d \in Collections : version'[d] <= changes'[d]
    BY <1>0 DEF Functional, Typed, True, LockFits, Merged
  <2> QED
    BY <2>1, <2>2, <2>3, TypePrimed
<1>3. ASSUME NEW c \in Collections, StartRead(c) PROVE TypeOK'
  <2> USE <1>3 DEF StartRead, At
  <2>j. job' \in [Collections -> Jobs]
    <3> DEFINE j == [job[c] EXCEPT !.pc = "reading", !.reads = 1, !.version = version[c],
                           !.base = changes[c], !.excused = changes[c] # version[c]]
    <3>1. job' = [job EXCEPT ![c] = j]
      BY <1>0 DEF Functional
    <3>2. j \in Jobs
      <4>1. 1 \in 0..RowReadAttempts /\ "reading" \in Pcs /\ (changes[c] # version[c]) \in BOOLEAN
        BY <1>a DEF Pcs, Drafting
      <4> QED
        BY <1>0, <4>1, JobFields DEF Typed
    <3> HIDE DEF j
    <3> QED
      BY <1>0, <3>1, <3>2 DEF Functional
  <2>1. Functional'
    BY <1>0, <1>a, <2>j
       DEF Functional, Typed, Rows, NoRow, Bare, Sources, Stored, LockStates, True,
           GuardHolds, Writing
  <2>2. QueueTyped'
    BY <1>0, <1>b, <1>c DEF QueueTyped
  <2>3. \A d \in Collections : version'[d] <= changes'[d]
    BY <1>0 DEF Functional, Typed, True, LockFits, Merged
  <2> QED
    BY <2>1, <2>2, <2>3, TypePrimed
<1>4. ASSUME NEW c \in Collections, SeeRow(c) PROVE TypeOK'
  <2> USE <1>4 DEF SeeRow, At
  <2>j. job' \in [Collections -> Jobs]
    <3> DEFINE j == [job[c] EXCEPT !.pc = "seen", !.expected = row[c], !.base = changes[c],
                           !.excused = changes[c] # version[c]]
    <3>1. job' = [job EXCEPT ![c] = j]
      BY <1>0 DEF Functional
    <3>2. j \in Jobs
      BY <1>0, <1>a DEF Typed, Jobs, Pcs, Drafting, Writing, Merged
    <3> HIDE DEF j
    <3> QED
      BY <1>0, <3>1, <3>2 DEF Functional
  <2>1. Functional'
    BY <1>0, <1>a, <2>j
       DEF Functional, Typed, Rows, NoRow, Bare, Sources, Stored, LockStates, True,
           GuardHolds, Writing
  <2>2. QueueTyped'
    BY <1>0, <1>b, <1>c DEF QueueTyped
  <2>3. \A d \in Collections : version'[d] <= changes'[d]
    BY <1>0 DEF Functional, Typed, True, LockFits, Merged
  <2> QED
    BY <2>1, <2>2, <2>3, TypePrimed
<1>5. ASSUME NEW c \in Collections, ReadFails(c) PROVE TypeOK'
  <2> USE <1>5 DEF ReadFails, At, FinishFailed, Finish
  <2>j. job' \in [Collections -> Jobs]
    BY <1>0, <1>a DEF Functional
  <2>f. failed' \in [Collections -> [base : Nat \cup {-1}, excused : BOOLEAN]]
    <3>1. /\ job[c].base \in Nat \cup {-1} /\ job[c].excused \in BOOLEAN
          /\ changes[c] \in Nat \cup {-1}
      BY <1>0 DEF Typed, Jobs
    <3> QED
      BY <1>0, <3>1 DEF Functional
  <2>1. Functional'
    BY <1>0, <1>a, RememberAlone, <2>f, <2>j
       DEF Functional, Typed, Rows, NoRow, Bare, Sources, Stored, LockStates, True,
           GuardHolds, Writing
  <2>2. QueueTyped'
    BY <1>0, <1>b, <1>c DEF QueueTyped
  <2>3. \A d \in Collections : version'[d] <= changes'[d]
    BY <1>0 DEF Functional, Typed, True, LockFits, Merged
  <2> QED
    BY <2>1, <2>2, <2>3, TypePrimed
<1>6. ASSUME NEW c \in Collections, ReadAgain(c) PROVE TypeOK'
  <2> USE <1>6 DEF ReadAgain, At
  <2>j. job' \in [Collections -> Jobs]
    <3> DEFINE j == [job[c] EXCEPT !.pc = "reading", !.reads = job[c].reads + 1, !.version = version[c],
                           !.base = changes[c], !.excused = changes[c] # version[c]]
    <3>1. job' = [job EXCEPT ![c] = j]
      BY <1>0 DEF Functional, Jobs
    <3>2. j \in Jobs
      <4>1. job[c].reads + 1 \in 0..RowReadAttempts
        BY <1>0, <1>a DEF Typed, Jobs
      <4>2. "reading" \in Pcs /\ (changes[c] # version[c]) \in BOOLEAN
        BY DEF Pcs, Drafting
      <4> QED
        BY <1>0, <4>1, <4>2, JobFields DEF Typed
    <3> HIDE DEF j
    <3> QED
      BY <1>0, <3>1, <3>2 DEF Functional
  <2>1. Functional'
    BY <1>0, <1>a, <2>j
       DEF Functional, Typed, Rows, NoRow, Bare, Sources, Stored, LockStates, True,
           GuardHolds, Writing
  <2>2. QueueTyped'
    BY <1>0, <1>b, <1>c DEF QueueTyped
  <2>3. \A d \in Collections : version'[d] <= changes'[d]
    BY <1>0 DEF Functional, Typed, True, LockFits, Merged
  <2> QED
    BY <2>1, <2>2, <2>3, TypePrimed
<1>7. ASSUME NEW c \in Collections, TakeRow(c) PROVE TypeOK'
  <2> USE <1>7 DEF TakeRow, At, Finish
  <2>j. job' \in [Collections -> Jobs]
    <3>0. CASE Finish(c)
      BY <3>0, <1>0, <1>a DEF Functional
    <3>1. CASE ~Finish(c)
      <4> DEFINE j == [job[c] EXCEPT !.pc = "generating", !.reads = 0,
                             !.excused = job[c].excused \/ version[c] # job[c].version]
      <4>1. job' = [job EXCEPT ![c] = j]
        BY <3>1, <1>0 DEF Functional, Jobs
      <4>2. j \in Jobs
        <5>1. 0 \in 0..RowReadAttempts /\ "generating" \in Pcs
          BY <1>a DEF Pcs, Drafting
        <5>2. (job[c].excused \/ version[c] # job[c].version) \in BOOLEAN
          BY <1>0 DEF Typed, Jobs
        <5> QED
          BY <1>0, <5>1, <5>2, JobFields DEF Typed
      <4> HIDE DEF j
      <4> QED
        BY <1>0, <4>1, <4>2 DEF Functional
    <3> QED
      BY <3>0, <3>1
  <2>1. Functional'
    BY <1>0, <1>a, <2>j
       DEF Functional, Typed, Rows, NoRow, Bare, Sources, Stored, LockStates, True,
           GuardHolds, Writing
  <2>2. QueueTyped'
    BY <1>0, <1>b, <1>c DEF QueueTyped
  <2>3. \A d \in Collections : version'[d] <= changes'[d]
    BY <1>0 DEF Functional, Typed, True, LockFits, Merged
  <2> QED
    BY <2>1, <2>2, <2>3, TypePrimed
<1>8. ASSUME NEW c \in Collections, EndGenerate(c) PROVE TypeOK'
  <2> USE <1>8 DEF EndGenerate, At, Goto
  <2>j. job' \in [Collections -> Jobs]
    <3>1. PICK pc \in {"landing", "recording"} : job' = [job EXCEPT ![c] = [job[c] EXCEPT !.pc = pc]]
      BY <1>0 DEF Functional
    <3> DEFINE j == [job[c] EXCEPT !.pc = pc]
    <3>2. j \in Jobs
      BY <1>0, <1>a DEF Typed, Jobs, Pcs, Drafting, Writing, Merged
    <3> HIDE DEF j
    <3> QED
      BY <1>0, <3>1, <3>2 DEF Functional, j
  <2>1. Functional'
    BY <1>0, <1>a, <2>j
       DEF Functional, Typed, Rows, NoRow, Bare, Sources, Stored, LockStates, True,
           GuardHolds, Writing
  <2>2. QueueTyped'
    BY <1>0, <1>b, <1>c DEF QueueTyped
  <2>3. \A d \in Collections : version'[d] <= changes'[d]
    BY <1>0 DEF Functional, Typed, True, LockFits, Merged
  <2> QED
    BY <2>1, <2>2, <2>3, TypePrimed
<1>9. ASSUME NEW c \in Collections, CheckGuard(c) PROVE TypeOK'
  <2> USE <1>9 DEF CheckGuard, At, Goto, Finish
  <2>j. job' \in [Collections -> Jobs]
    <3>0. CASE Finish(c)
      BY <3>0, <1>0, <1>a DEF Functional
    <3>1. CASE ~Finish(c)
      <4>1. PICK pc \in {"writing_text", "writing_failed"} : job' = [job EXCEPT ![c] = [job[c] EXCEPT !.pc = pc]]
        BY <3>1, <1>0 DEF Functional
      <4> DEFINE j == [job[c] EXCEPT !.pc = pc]
      <4>2. j \in Jobs
        BY <1>0, <1>a DEF Typed, Jobs, Pcs, Drafting, Writing, Merged
      <4> HIDE DEF j
      <4> QED
        BY <1>0, <4>1, <4>2 DEF Functional, j
    <3> QED
      BY <3>0, <3>1
  <2>1. Functional'
    BY <1>0, <1>a, <2>j
       DEF Functional, Typed, Rows, NoRow, Bare, Sources, Stored, LockStates, True,
           GuardHolds, Writing
  <2>2. QueueTyped'
    BY <1>0, <1>b, <1>c DEF QueueTyped
  <2>3. \A d \in Collections : version'[d] <= changes'[d]
    BY <1>0 DEF Functional, Typed, True, LockFits, Merged
  <2> QED
    BY <2>1, <2>2, <2>3, TypePrimed
<1>10. ASSUME NEW c \in Collections, ApplyMissing(c) PROVE TypeOK'
  <2> USE <1>10 DEF ApplyMissing, At, Finish
  <2>j. job' \in [Collections -> Jobs]
    BY <1>0, <1>a DEF Functional
  <2>1. Functional'
    BY <1>0, <1>a, <2>j
       DEF Functional, Typed, Rows, NoRow, Bare, Sources, Stored, LockStates, True,
           GuardHolds, Writing
  <2>2. QueueTyped'
    BY <1>0, <1>b, <1>c DEF QueueTyped
  <2>3. \A d \in Collections : version'[d] <= changes'[d]
    BY <1>0 DEF Functional, Typed, True, LockFits, Merged
  <2> QED
    BY <2>1, <2>2, <2>3, TypePrimed
<1>11. ASSUME NEW c \in Collections, SaveFails(c) PROVE TypeOK'
  <2> USE <1>11 DEF SaveFails, At, Goto
  <2>j. job' \in [Collections -> Jobs]
    <3> DEFINE j == [job[c] EXCEPT !.pc = "recording"]
    <3>1. job' = [job EXCEPT ![c] = j]
      BY <1>0 DEF Functional
    <3>2. j \in Jobs
      BY <1>0, <1>a DEF Typed, Jobs, Pcs, Drafting, Writing, Merged
    <3> HIDE DEF j
    <3> QED
      BY <1>0, <3>1, <3>2 DEF Functional
  <2>1. Functional'
    BY <1>0, <1>a, <2>j
       DEF Functional, Typed, Rows, NoRow, Bare, Sources, Stored, LockStates, True,
           GuardHolds, Writing
  <2>2. QueueTyped'
    BY <1>0, <1>b, <1>c DEF QueueTyped
  <2>3. \A d \in Collections : version'[d] <= changes'[d]
    BY <1>0 DEF Functional, Typed, True, LockFits, Merged
  <2> QED
    BY <2>1, <2>2, <2>3, TypePrimed
<1>12. ASSUME NEW c \in Collections, RecordFails(c) PROVE TypeOK'
  <2> USE <1>12 DEF RecordFails, At, FinishFailed, Finish
  <2>j. job' \in [Collections -> Jobs]
    BY <1>0, <1>a DEF Functional
  <2>f. failed' \in [Collections -> [base : Nat \cup {-1}, excused : BOOLEAN]]
    <3>1. /\ job[c].base \in Nat \cup {-1} /\ job[c].excused \in BOOLEAN
          /\ changes[c] \in Nat \cup {-1}
      BY <1>0 DEF Typed, Jobs
    <3> QED
      BY <1>0, <3>1 DEF Functional
  <2>1. Functional'
    BY <1>0, <1>a, RememberAlone, <2>f, <2>j
       DEF Functional, Typed, Rows, NoRow, Bare, Sources, Stored, LockStates, True,
           GuardHolds, Writing
  <2>2. QueueTyped'
    BY <1>0, <1>b, <1>c DEF QueueTyped
  <2>3. \A d \in Collections : version'[d] <= changes'[d]
    BY <1>0 DEF Functional, Typed, True, LockFits, Merged
  <2> QED
    BY <2>1, <2>2, <2>3, TypePrimed
<1>13. ASSUME NEW c \in Collections, Merge(c) PROVE TypeOK'
  <2> USE <1>13 DEF Merge, At, Goto
  <2>j. job' \in [Collections -> Jobs]
    <3>1. PICK pc \in {"merged_text", "merged_failed"} : job' = [job EXCEPT ![c] = [job[c] EXCEPT !.pc = pc]]
      BY <1>0 DEF Functional
    <3> DEFINE j == [job[c] EXCEPT !.pc = pc]
    <3>2. j \in Jobs
      BY <1>0, <1>a DEF Typed, Jobs, Pcs, Drafting, Writing, Merged
    <3> HIDE DEF j
    <3> QED
      BY <1>0, <3>1, <3>2 DEF Functional, j
  <2>f. row' \in [Collections -> Rows]
    <3>1. row[c] \in [source : Sources, status : Stored, described : Nat]
      BY <1>0 DEF Typed, Rows, NoRow, True, GuardHolds, Writing
    <3>2. [row[c] EXCEPT !.status = "failed"] \in Rows
      BY <3>1 DEF Rows, Stored
    <3>3. [source |-> "generated", status |-> "ok", described |-> changes[c] + 1] \in Rows
      BY <1>0 DEF Rows, Stored, Sources, Typed
    <3> QED
      BY <1>0, <3>2, <3>3 DEF Functional
  <2>1. Functional'
    BY <1>0, <1>a, <2>f, <2>j
       DEF Functional, Typed, Rows, NoRow, Bare, Sources, Stored, LockStates, True,
           GuardHolds, Writing
  <2>2. QueueTyped'
    BY <1>0, <1>b, <1>c DEF QueueTyped
  <2>3. \A d \in Collections : version'[d] <= changes'[d]
    BY <1>0 DEF Functional, Typed, True, LockFits, Merged
  <2> QED
    BY <2>1, <2>2, <2>3, TypePrimed
<1>14. ASSUME NEW c \in Collections, Settle(c) PROVE TypeOK'
  <2> USE <1>14 DEF Settle, At, Finish, Recorded
  <2>j. job' \in [Collections -> Jobs]
    BY <1>0, <1>a DEF Functional
  <2>1. Functional'
    BY <1>0, <1>a, <2>j
       DEF Functional, Typed, Rows, NoRow, Bare, Sources, Stored, LockStates, True,
           GuardHolds, Writing
  <2>2. QueueTyped'
    BY <1>0, <1>b, <1>c DEF QueueTyped
  <2>3. \A d \in Collections : version'[d] <= changes'[d]
    BY <1>0 DEF Functional, Typed, True, LockFits, Merged
  <2> QED
    BY <2>1, <2>2, <2>3, TypePrimed
<1>15. ASSUME NEW c \in Collections, CleanupFails(c) PROVE TypeOK'
  <2> USE <1>15 DEF CleanupFails, At, Goto, Finish, Recorded
  <2>j. job' \in [Collections -> Jobs]
    <3>0. CASE Finish(c)
      BY <3>0, <1>0, <1>a DEF Functional
    <3>1. CASE ~Finish(c)
      <4>1. PICK pc \in {"recording"} : job' = [job EXCEPT ![c] = [job[c] EXCEPT !.pc = pc]]
        BY <3>1, <1>0 DEF Functional
      <4> DEFINE j == [job[c] EXCEPT !.pc = pc]
      <4>2. j \in Jobs
        BY <1>0, <1>a DEF Typed, Jobs, Pcs, Drafting, Writing, Merged
      <4> HIDE DEF j
      <4> QED
        BY <1>0, <4>1, <4>2 DEF Functional, j
    <3> QED
      BY <3>0, <3>1
  <2>f. failed' \in [Collections -> [base : Nat \cup {-1}, excused : BOOLEAN]]
    <3>1. /\ job[c].base \in Nat \cup {-1} /\ job[c].excused \in BOOLEAN
          /\ changes[c] \in Nat \cup {-1}
      BY <1>0 DEF Typed, Jobs
    <3>2. CASE job[c].pc = "merged_text"
      BY <1>0, <3>2 DEF Functional
    <3>3. CASE job[c].pc # "merged_text"
      <4>1. [base |-> changes[c], excused |-> FALSE] \in [base : Nat \cup {-1}, excused : BOOLEAN]
        BY <3>1
      <4>2. failed' = [failed EXCEPT ![c] = [base |-> changes[c], excused |-> FALSE]]
        BY <3>3
      <4> QED
        BY <1>0, <4>1, <4>2 DEF Functional
    <3> QED
      BY <3>2, <3>3
  <2>1. Functional'
    BY <1>0, <1>a, RememberAlone, <2>f, <2>j
       DEF Functional, Typed, Rows, NoRow, Bare, Sources, Stored, LockStates, True,
           GuardHolds, Writing
  <2>2. QueueTyped'
    BY <1>0, <1>b, <1>c DEF QueueTyped
  <2>3. \A d \in Collections : version'[d] <= changes'[d]
    BY <1>0 DEF Functional, Typed, True, LockFits, Merged
  <2> QED
    BY <2>1, <2>2, <2>3, TypePrimed
<1>16. ASSUME NEW c \in Collections, Change(c) PROVE TypeOK'
  <2> USE <1>16 DEF Change
  <2>0. Outcomes(c) \subseteq Rows
    BY <1>0 DEF Outcomes, Operations, Rows, NoRow, Bare, Sources, Stored, Typed
  <2>1. Functional'
    BY <1>0, <1>a, <2>0
       DEF Functional, Typed, Rows, NoRow, Bare, Sources, Stored, LockStates, True,
           GuardHolds, Writing
  <2>2. QueueTyped'
    BY <1>0, <1>b, <1>c DEF QueueTyped
  <2>3. \A d \in Collections : version'[d] <= changes'[d]
    BY <1>0 DEF Functional, Typed, True, LockFits, Merged
  <2> QED
    BY <2>1, <2>2, <2>3, TypePrimed
<1>17. ASSUME NEW c \in Collections, EndChange(c) PROVE TypeOK'
  <2> USE <1>17 DEF EndChange
  <2>1. Functional'
    BY <1>0, <1>a
       DEF Functional, Typed, Rows, NoRow, Bare, Sources, Stored, LockStates, True,
           GuardHolds, Writing
  <2>2. QueueTyped'
    BY <1>0, <1>b, <1>c DEF QueueTyped
  <2>3. \A d \in Collections : version'[d] <= changes'[d]
    BY <1>0 DEF Functional, Typed, True, LockFits, Merged
  <2> QED
    BY <2>1, <2>2, <2>3, TypePrimed
<1>18. ASSUME NEW c \in Collections, GiveUp(c) PROVE TypeOK'
  <2> USE <1>18 DEF GiveUp
  <2>1. Functional'
    BY <1>0, <1>a
       DEF Functional, Typed, Rows, NoRow, Bare, Sources, Stored, LockStates, True,
           GuardHolds, Writing
  <2>2. QueueTyped'
    BY <1>0, <1>b, <1>c DEF QueueTyped
  <2>3. \A d \in Collections : version'[d] <= changes'[d]
    BY <1>0 DEF Functional, Typed, True, LockFits, Merged
  <2> QED
    BY <2>1, <2>2, <2>3, TypePrimed
<1>19. ASSUME NEW c \in Collections, CreateRow(c) PROVE TypeOK'
  <2> USE <1>19 DEF CreateRow
  <2>1. Functional'
    BY <1>0, <1>a
       DEF Functional, Typed, Rows, NoRow, Bare, Sources, Stored, LockStates, True,
           GuardHolds, Writing
  <2>2. QueueTyped'
    BY <1>0, <1>b, <1>c DEF QueueTyped
  <2>3. \A d \in Collections : version'[d] <= changes'[d]
    BY <1>0 DEF Functional, Typed, True, LockFits, Merged
  <2> QED
    BY <2>1, <2>2, <2>3, TypePrimed
<1>20. ASSUME NEW c \in Collections, EndCancelled(c) PROVE TypeOK'
  <2> USE <1>20 DEF EndCancelled, Finish
  <2>j. job' \in [Collections -> Jobs]
    BY <1>0, <1>a DEF Functional
  <2>1. Functional'
    BY <1>0, <1>a, <2>j
       DEF Functional, Typed, Rows, NoRow, Bare, Sources, Stored, LockStates, True,
           GuardHolds, Writing
  <2>2. QueueTyped'
    BY <1>0, <1>b, <1>c DEF QueueTyped
  <2>3. \A d \in Collections : version'[d] <= changes'[d]
    BY <1>0 DEF Functional, Typed, True, LockFits, Merged
  <2> QED
    BY <2>1, <2>2, <2>3, TypePrimed
<1>21. ASSUME NEW c \in Collections, NEW operation \in Operations, TakeLock(c, operation)
      PROVE  TypeOK'
  <2> USE <1>21 DEF TakeLock
  <2>1. Functional'
    BY <1>0 DEF Functional, LockStates
  <2>2. QueueTyped'
    BY <1>0, <1>c DEF QueueTyped
  <2> QED
    BY <1>0, <2>1, <2>2, TypePrimed DEF Typed
<1>22. ASSUME NEW a \in asking, AnswerRequest(a) PROVE TypeOK'
  <2>1. a.collection \in Collections /\ asking' \subseteq asking
    BY <1>22 DEF TypeOK, AnswerRequest
  <2>2. UNCHANGED <<row, version, lock, failures, phase, changes, failed>>
    BY <1>22 DEF AnswerRequest
  <2>3. CASE UNCHANGED <<job, slot, waiting>>
    BY <1>0, <1>c, <2>1, <2>2, <2>3, TypePrimed DEF Functional, QueueTyped, Typed
  <2>4. CASE ~UNCHANGED <<job, slot, waiting>>
    <3>1. PICK kind \in Asked :
            ~InFlight(a.collection) /\ ~IsFull /\ Admit(a.collection, kind)
      BY <1>22, <2>4 DEF AnswerRequest
    <3>2. kind \in Kinds
      BY InputsFit
    <3>3. Functional'
      BY <1>0, <1>a, <2>1, <2>2, <3>1, <3>2 DEF Functional, Admit, Jobs, Idle, Pcs, Drafting
    <3>4. /\ Places' \subseteq Places \cup {a.collection} /\ waiting' \in [Places' -> SUBSET Places']
          /\ slot' = a.collection \/ slot' = slot
      BY <2>1, <3>1, AdmitFacts
    <3>5. QueueTyped'
      BY <1>0, <2>1, <2>2, <3>4 DEF QueueTyped
    <3> QED
      BY <1>0, <2>2, <3>3, <3>5, TypePrimed DEF Typed
  <2> QED
    BY <2>3, <2>4
<1>23. CASE Close \/ Drain \/ Disconnect
  <2>1. /\ UNCHANGED <<row, version, lock, job, slot, waiting, asking, failures, changes, failed>>
        /\ phase' \in {"closed", "draining", "disconnected"}
    BY <1>23 DEF Close, Drain, Disconnect
  <2> QED
    BY <1>0, <1>c, <2>1, TypePrimed DEF Functional, QueueTyped, Typed
<1> QED
  BY <1>1, <1>2, <1>3, <1>4, <1>5, <1>6, <1>7, <1>8, <1>9, <1>10, <1>11, <1>12, <1>13, <1>14,
     <1>15, <1>16, <1>17, <1>18, <1>19, <1>20, <1>21, <1>22, <1>23
     DEF Next, JobStep, OperatorStep

-----------------------------------------------------------------------------
LEMMA InitInv == Init => IInv
<1> SUFFICES ASSUME Init PROVE IInv
  OBVIOUS
<1>1. Places = {} /\ IsFiniteSet(Places) /\ Cardinality(Places) = 0
  BY FS_EmptySet DEF Init, Places, NoPlaces
<1>2. maxQueued \in Nat /\ RowReadAttempts \in Nat
  BY LimitsFit DEF Init
<1>3. Functional
  BY <1>2, InputsFit DEF Init, Functional, Jobs, Idle, Pcs, Kinds, Rows, LockStates, NoFailure
<1>4. QueueTyped
  BY <1>1 DEF Init, QueueTyped, NoPlaces
<1>5. TypeOK
  BY <1>3, <1>4, TypeParts DEF Init
<1>6. QueueInv
  BY <1>1, <1>2 DEF Init, QueueInv, SlotAndQueue, Idle
<1>7. \A c \in Collections : True(c)
  BY DEF Init, True, LockFits, GuardHolds, ReadTrue, FailureLanded, PastOnly, NotStale,
         FailureKept,
         Idle, NoFailure, Begun, Drawn, Writing, Merged
<1> QED
  BY <1>5, <1>6, <1>7 DEF IInv

LEMMA StepInv ==
  ASSUME IInv, [Next]_vars
  PROVE  IInv'
<1>1. CASE Next
  BY <1>1, StepTyped, StepQueue, StepTrue DEF IInv
<1>2. CASE UNCHANGED vars
  <2>1. TypeOK'
    BY <1>2 DEF IInv, TypeOK, vars, Places
  <2>2. QueueInv'
    BY <1>2 DEF IInv, QueueInv, SlotAndQueue, vars, Places, InFlight
  <2>3. \A c \in Collections : True(c)'
    BY <1>2, AloneTrue DEF IInv, vars, Alone
  <2> QED
    BY <2>1, <2>2, <2>3 DEF IInv
<1> QED
  BY <1>1, <1>2

LEMMA Invariant == Spec => []IInv
  BY InitInv, StepInv, PTL DEF Spec

\* The failure that readers see (overlay_status, visible_description_status) is that of the last
\* run of the row they see, for any number of collections, changes and read attempts.
THEOREM FailuresAreTrue == Spec => []FailureTrue
<1>1. IInv => FailureTrue
  <2> SUFFICES ASSUME IInv PROVE FailureTrue
    OBVIOUS
  <2>1. \A c \in Collections : Typed(c) /\ True(c)
    BY TypeAt DEF IInv
  <2>2. NoStaleFailure
    BY <2>1 DEF NoStaleFailure, True, NotStale
  <2>3. FailureShown
    BY <2>1 DEF FailureShown, Visible, True, FailureKept, Typed
  <2> QED
    BY <2>2, <2>3 DEF IInv, FailureTrue
<1> QED
  BY <1>1, Invariant, PTL

\* One run has the generation slot, the queue is within max_queued (_GenerationSlot), and nothing
\* is in flight or half written once the stores are disconnected.
THEOREM QueueIsSound == Spec => []QueueSound
<1>1. IInv => QueueSound
  BY PcsApart DEF IInv, QueueInv, QueueSound, NothingAfterDisconnect, True, LockFits, InFlight,
                  Writing, TypeOK
<1> QED
  BY <1>1, Invariant, PTL

\* A manual description is changed by operators alone: the guarded write of a run
\* (ExpectedState.refusal under the collection lock) never lands on one.
THEOREM ManualIsKept == Spec => ManualWins
<1>1. ASSUME IInv, [Next]_vars, NEW c \in Collections, row[c].source = "manual", row'[c] # row[c]
      PROVE  lock[c] \in Operations
  <2>0. Functional /\ \A d \in Collections : Typed(d) /\ True(d)
    BY <1>1, TypeParts, TypeAt DEF IInv
  <2>1. PICK d \in Collections : Merge(d) \/ Change(d) \/ CreateRow(d)
    BY <1>1 DEF Next, vars, RequestGeneration, TakeLock, JobStep, OperatorStep, AnswerRequest,
                Begin, StartRead, SeeRow, ReadFails, ReadAgain, TakeRow, EndGenerate, CheckGuard,
                ApplyMissing, SaveFails, RecordFails, Settle, CleanupFails, EndChange, GiveUp,
                EndCancelled, Close, Drain, Disconnect
  <2>2. d = c
    BY <1>1, <2>0, <2>1 DEF Merge, Change, CreateRow, Functional
  <2>3. ~Merge(d)
    BY <1>1, <2>0, <2>2 DEF Merge, At, True, GuardHolds, Writing
  <2>4. ~CreateRow(d)
    BY <1>1, <2>2 DEF CreateRow, NoRow
  <2> QED
    BY <2>1, <2>2, <2>3, <2>4 DEF Change
<1>2. IInv /\ [Next]_vars =>
        [\A c \in Collections :
            row[c].source = "manual" /\ row'[c] # row[c] => lock[c] \in Operations]_vars
  BY <1>1
<1> QED
  BY <1>2, Invariant, PTL DEF Spec, ManualWins
=============================================================================
