----------------------------- MODULE InstallLock -----------------------------
(***************************************************************************)
(* The advisory lock of the installer (install/lock.py): a file created    *)
(* with O_EXCL, into which its owner then writes its process id.  A lock   *)
(* whose owner is dead, or whose content is no process id, is stale: it is *)
(* removed and the creation tried once more.                               *)
(***************************************************************************)
EXTENDS Integers, FiniteSets

CONSTANTS Installers,   \* process ids
          Killable      \* bound: installers that may be killed

VARIABLES lockFile,   \* NoFile, Torn, a process id, or the still empty file that an installer created
          inst,       \* what each installer is at, what it read, whether it has retried
          killed,     \* the dead ones
          mistaken    \* history: an unlink met a file that was not, or no longer, stale

lockVars == <<lockFile, inst, killed, mistaken>>

NoFile == 0
Torn == -100     \* left empty by an installer of long ago
Blank(p) == 0 - p
NotStarted == [at |-> "out", read |-> NoFile, retried |-> FALSE]
InstLockInit == /\ lockFile \in {NoFile, Torn}
                /\ inst = [p \in Installers |-> NotStarted]
                /\ killed = {} /\ mistaken = FALSE

Goes(p, to) == inst' = [inst EXCEPT ![p] = to]
At(p, at) == inst[p].at = at
Alive(pid) == pid \in Installers \ killed
\* Somebody is between its O_EXCL creation and its write of the process id.
BeingWritten == \E p \in Installers : At(p, "claim") /\ lockFile = Blank(p)

-----------------------------------------------------------------------------
\* _try_create.
Create(p) ==
  /\ inst[p].at \in {"out", "again"}
  /\ IF lockFile = NoFile
     THEN lockFile' = Blank(p) /\ Goes(p, [inst[p] EXCEPT !.at = "claim"])
     ELSE Goes(p, [inst[p] EXCEPT !.at = "inspect"]) /\ UNCHANGED lockFile
  /\ UNCHANGED <<killed, mistaken>>
\* The process id is written into the descriptor: into the file of that creation, if it is still there.
Claim(p) ==
  /\ At(p, "claim") /\ Goes(p, [inst[p] EXCEPT !.at = "in"])
  /\ lockFile' = IF lockFile = Blank(p) THEN p ELSE lockFile
  /\ UNCHANGED <<killed, mistaken>>
ClaimFails(p) ==
  /\ At(p, "claim") /\ Goes(p, [inst[p] EXCEPT !.at = "ended"])
  /\ lockFile' = NoFile /\ mistaken' = (mistaken \/ lockFile \notin {Blank(p), NoFile})
  /\ UNCHANGED killed
\* The content of the lock file that is in the way.
Inspect(p) ==
  /\ At(p, "inspect") /\ Goes(p, [inst[p] EXCEPT !.at = "judge", !.read = lockFile])
  /\ UNCHANGED <<lockFile, killed, mistaken>>
HeldByLive(p) == Alive(inst[p].read)
\* A live owner: refused.
Refuse(p) ==
  /\ At(p, "judge") /\ HeldByLive(p) /\ Goes(p, [inst[p] EXCEPT !.at = "ended"])
  /\ UNCHANGED <<lockFile, killed, mistaken>>
\* Unreadable, corrupted or dead: removed, and tried again once.
ClearStale(p) ==
  /\ At(p, "judge") /\ ~HeldByLive(p) /\ lockFile' = NoFile
  /\ Goes(p, [inst[p] EXCEPT !.at = IF inst[p].retried THEN "ended" ELSE "again", !.retried = TRUE])
  /\ mistaken' = (mistaken \/ lockFile # inst[p].read \/ BeingWritten)
  /\ UNCHANGED killed
\* The end of the locked section: the file goes if it is its own, or cannot be read.
ReadOwn(p) ==
  /\ At(p, "in") /\ Goes(p, [inst[p] EXCEPT !.at = IF lockFile \in {p, NoFile} THEN "release" ELSE "ended", !.read = lockFile])
  /\ UNCHANGED <<lockFile, killed, mistaken>>
Release(p) ==
  /\ At(p, "release") /\ lockFile' = NoFile /\ Goes(p, [inst[p] EXCEPT !.at = "ended"])
  /\ mistaken' = (mistaken \/ lockFile # inst[p].read)
  /\ UNCHANGED killed
\* A kill runs no finally.
Kill(p) ==
  /\ inst[p].at \notin {"out", "ended"} /\ Cardinality(killed) < Killable
  /\ killed' = killed \cup {p} /\ Goes(p, [inst[p] EXCEPT !.at = "ended"])
  /\ UNCHANGED <<lockFile, mistaken>>

InstLockNext == \E p \in Installers : Create(p) \/ Claim(p) \/ ClaimFails(p) \/ Inspect(p) \/ Refuse(p) \/ ClearStale(p)
                                      \/ ReadOwn(p) \/ Release(p) \/ Kill(p)
InstLockSpec == InstLockInit /\ [][InstLockNext]_lockVars

-----------------------------------------------------------------------------
Contents == {NoFile, Torn} \cup Installers \cup {Blank(p) : p \in Installers}
\* The types of the state.
InstLockTypeOK ==
  /\ lockFile \in Contents /\ killed \subseteq Installers /\ mistaken \in BOOLEAN
  /\ inst \in [Installers -> [at : {"out", "again", "claim", "inspect", "judge", "in", "release", "ended"},
                              read : Contents, retried : BOOLEAN]]
\* One installer at a time is past the lock, unless a file that was not the stale one that was read was removed:
\* the lock of an owner that had not written its process id yet, or that took over from the stale one.
OneInstaller == mistaken \/ Cardinality({p \in Installers : inst[p].at \in {"in", "release"}}) <= 1
\* Installers that end without being killed leave no lock behind, whatever they met: after them the next one gets in.
NothingLeft == ((\A p \in Installers : inst[p].at = "ended") /\ killed = {} /\ ~mistaken) => lockFile = NoFile
=============================================================================
