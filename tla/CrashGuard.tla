----------------------------- MODULE CrashGuard -----------------------------
(***************************************************************************)
(* What the crash-loop guard of the server promises (server/app.py,        *)
(* sync_suppression.py), without files or flags: once the process died     *)
(* while it ingested on record, nothing is ingested on the server's own    *)
(* initiative, however often it restarts, until an operator's sync ends    *)
(* clean.  The promise is void from the moment a write that the guard      *)
(* rests on failed (slipped) until that sync.                              *)
(***************************************************************************)
CONSTANTS Recorded,     \* the ingests that keep a row in the jobs file
          Automatic     \* the ingests that no client asked for

VARIABLES server,   \* "up", "stopped" (a clean exit) or "dead"
          working,  \* the ingests under way
          held,     \* automatic ingests are held back
          slipped   \* a write of the guard failed since the last clean sync

guardVars == <<server, working, held, slipped>>

GuardInit == server = "stopped" /\ working = {} /\ held = FALSE /\ slipped = FALSE

\* A start neither holds nor releases, unless what it rests on was lost.
Start == /\ server # "up" /\ server' = "up"
         /\ held' \in (IF slipped' THEN BOOLEAN ELSE {held})
         /\ slipped' \in {slipped, TRUE} /\ UNCHANGED working

Begin(a) == /\ server = "up" /\ a \notin working /\ working' = working \cup {a}
            /\ a \in Automatic => ~held
            /\ slipped' \in {slipped, TRUE} /\ UNCHANGED <<server, held>>

End(a) == a \in working /\ working' = working \ {a} /\ UNCHANGED <<server, held, slipped>>

\* The operator's sync ends without an error.
CleanSync == /\ "manual" \in working /\ working' = working \ {"manual"}
             /\ held' = FALSE /\ UNCHANGED server
             /\ slipped' \in (IF working' = {} THEN {FALSE} ELSE {FALSE, slipped})

\* A clean exit may leave a row open, which the next start takes for a crash.
Exit == /\ server = "up" /\ working = {} /\ server' = "stopped"
        /\ held' \in (IF slipped THEN BOOLEAN ELSE {held, TRUE})
        /\ UNCHANGED <<working, slipped>>

\* A death during a recorded ingest holds; any other keeps what was held.
Die == /\ server' = "dead" /\ working' = {}
       /\ slipped' \in {slipped, TRUE}
       /\ held' \in (IF slipped' THEN BOOLEAN
                     ELSE IF working \cap Recorded # {} THEN {TRUE} ELSE {held, TRUE})

\* The server cannot write down that it holds: it still does, until it ends.
Slip == slipped' = TRUE /\ UNCHANGED <<server, working, held>>

GuardNext == Start \/ Slip \/ CleanSync \/ Exit \/ Die \/ \E a \in Recorded \cup Automatic : Begin(a) \/ End(a)

GuardSpec == GuardInit /\ [][GuardNext]_guardVars
=============================================================================
