------------------------------ MODULE KeyFile -------------------------------
(***************************************************************************)
(* The first key of a data directory (key_manager.load_or_generate_key,    *)
(* _durable_io.atomic_write_bytes): processes that start together, each    *)
(* with a key of its own, named like it, and one name for the temp file.   *)
(***************************************************************************)
EXTENDS Integers

CONSTANTS Starters       \* a set of numbers > 0

VARIABLES envFile,       \* the key in .search.env; 0: no file, -1: a file without a key, -2: an invalid key
          tmpFile,       \* the key in .search.env.tmp, 0: none
          starter, fresh, meddled

fileVars == <<envFile, tmpFile, starter, fresh, meddled>>

\* given: the process has a key in its environment.
Beginning == [at |-> "start", given |-> FALSE, attempt |-> 1, replace |-> FALSE, leftover |-> FALSE, key |-> 0]
FileInit ==
  /\ envFile \in {0, -1, -2} /\ tmpFile = 0
  /\ starter \in [Starters -> {Beginning, [Beginning EXCEPT !.given = TRUE]}]
  /\ fresh = (envFile = 0 /\ \A p \in Starters : ~starter[p].given) /\ meddled = FALSE

Go(p, s) == starter' = [starter EXCEPT ![p] = s] /\ UNCHANGED <<fresh, meddled>>
At(p, at) == Go(p, [starter[p] EXCEPT !.at = at])
With(p, key) == Go(p, [starter[p] EXCEPT !.at = "ready", !.key = key])
\* persist_key swallows what fails: a key of the environment is used in any case.
Fails(p) == IF starter[p].given THEN With(p, p) ELSE At(p, "failed")

\* load_or_generate_key: the environment's key, the file's key, or a new one.
Look(p) ==
  /\ starter[p].at = "start"
  /\ CASE starter[p].given -> Go(p, [starter[p] EXCEPT !.at = "open", !.replace = TRUE])
       [] ~starter[p].given /\ envFile > 0 -> With(p, envFile)
       [] ~starter[p].given /\ envFile = -2 -> At(p, "failed")
       [] OTHER -> At(p, "open")
  /\ UNCHANGED <<envFile, tmpFile>>

\* atomic_write_bytes: O_EXCL on the temp file and the write, then link or replace; the
\* link leaves the temp file to be removed.
OpenTmp(p) ==
  /\ starter[p].at = "open"
  /\ IF tmpFile = 0 THEN tmpFile' = p /\ At(p, "publish") ELSE At(p, "wait") /\ UNCHANGED tmpFile
  /\ UNCHANGED envFile
Publish(p) ==
  /\ starter[p].at = "publish" /\ tmpFile # 0
  /\ CASE starter[p].replace -> /\ envFile' = tmpFile /\ tmpFile' = 0
                                /\ With(p, p) \/ Fails(p)                    \* the directory's fsync
       [] ~starter[p].replace /\ envFile = 0 -> envFile' = tmpFile /\ At(p, "linked") /\ UNCHANGED tmpFile
       [] OTHER -> At(p, "refused") /\ UNCHANGED <<envFile, tmpFile>>
UnlinkTmp(p) ==
  /\ starter[p].at \in {"linked", "refused"} /\ tmpFile' = 0 /\ UNCHANGED envFile
  /\ IF starter[p].at = "linked" THEN With(p, p) \/ Fails(p) ELSE At(p, "wait")
\* The write, the link or the replace fails, as it does when the temp file is gone.
WriteFails(p) == starter[p].at = "publish" /\ tmpFile' = 0 /\ Fails(p) /\ UNCHANGED envFile

\* _await_concurrent_key: is there a file, does it hold a key; and then, as long as the
\* temp file's writer lives (it needs less than KEY_WRITE_CONFLICT_WAIT_SECONDS), again.
\* A temp file that outlives that is an orphan.
Orphan == tmpFile # 0 /\ starter[tmpFile].at \notin {"publish", "linked", "refused"}
Await(p) ==
  /\ starter[p].at = "wait"
  /\ IF envFile > 0 THEN With(p, IF starter[p].given THEN p ELSE envFile)
     ELSE Go(p, [starter[p] EXCEPT !.at = "keyless", !.leftover = (envFile # 0)])
  /\ UNCHANGED <<envFile, tmpFile>>
AwaitTmp(p) ==
  /\ starter[p].at = "keyless" /\ UNCHANGED <<envFile, tmpFile>>
  /\ At(p, IF tmpFile = 0 \/ Orphan THEN "remove" ELSE "wait")
RemoveTmp(p) ==
  /\ starter[p].at = "remove" /\ tmpFile' = 0 /\ UNCHANGED <<envFile, fresh>>
  /\ meddled' = (meddled \/ (tmpFile # 0 /\ ~Orphan))
  /\ LET s == starter[p] IN starter' = [starter EXCEPT ![p] =
       IF s.attempt = 1
       THEN [s EXCEPT !.at = "open", !.attempt = 2, !.replace = s.replace \/ s.leftover]
       ELSE [s EXCEPT !.at = IF s.given THEN "ready" ELSE "failed", !.key = IF s.given THEN p ELSE s.key]]

\* A process dies, at worst with its temp file on disk.
Die(p) ==
  /\ starter[p].at \notin {"ready", "failed", "dead"} /\ At(p, "dead") /\ UNCHANGED <<envFile, tmpFile>>

FileNext ==
  \E p \in Starters : \/ Look(p) \/ OpenTmp(p) \/ Publish(p) \/ UnlinkTmp(p) \/ WriteFails(p) \/ Await(p) \/ AwaitTmp(p)
                     \/ RemoveTmp(p) \/ Die(p)
FileSpec == FileInit /\ [][FileNext]_fileVars

FileTypeOK ==
  /\ envFile \in Starters \cup {0, -1, -2} /\ tmpFile \in Starters \cup {0}
  /\ \A p \in Starters : starter[p].at \in {"start", "open", "publish", "linked", "refused", "wait", "keyless",
                                            "remove", "ready", "failed", "dead"}

-----------------------------------------------------------------------------
\* "both run with the key the file holds": in a data directory without a key file, and with
\* no key in the environment, whoever dies or fails on the way, all processes that come up agree on the key of the file, unless
\* two of them clear the temp file of a dead one at once (see the README).
AgreeOnKey ==
  (fresh /\ ~meddled) => \A p \in Starters : starter[p].at = "ready" => starter[p].key = envFile
=============================================================================
