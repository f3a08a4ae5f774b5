----------------------------- MODULE MCRequests -----------------------------
(***************************************************************************)
(* Components that share no state, model-checked in one run for their      *)
(* safety properties: the first state chooses one of them (part), the      *)
(* others rest.  Here: what answers requests and serves the server.        *)
(***************************************************************************)
EXTENDS Integers, FiniteSets

CONSTANTS Chunks, Matching, InScope, PageSize, PoolSize, Depth, MaxChanges,   \* SearchFlow
          Collections, Ranks, GlobRanks, LegTrim, FanOutPage, MaxFanout,  \* SearchFanOut, and Depth
          Rotators, MaxToken, MaxMishaps,                                 \* KeyStore
          Starters,                                                       \* KeyFile
          Backups, LastSecond, LineCount, Keep, Slots, MaxBreaks,         \* BackupLoop
          Wishes, MaxRuns, MaxHands,                                      \* InstallRun
          Installers, Killable,                                           \* InstallLock
          QueueSize, RetentionDays, MaxEntries, LastDay, MaxFaults,       \* TelemetryLog
          Members, MaxSize, MaxDepth, Builders, MaxBuilds, MaxGraphs      \* CommunityClusters

VARIABLES part,
          stored, open, shut, changes, query, work, answer,   \* SearchFlow
          tables, foreign, hiddenSet, ask, flow, leg, reply,   \* SearchFanOut
          keyfile, keys, readable, api, view, loadingView, rotation, lastToken, mishaps, gone,
          byHand, incomplete,   \* KeyStore
          envFile, tmpFile, starter, fresh, meddled,   \* KeyFile
          second, backup, tmpLines, archives, tracked, draining, recorded, breaks, mixed,   \* BackupLoop
          conf, bak, record, packages, index, service, run, runs, hands, broken, crossed,   \* InstallRun
          lockFile, inst, killed, mistaken,   \* InstallLock
          buffer, unfinished, writer, stopping, fd, logs, wrote, today, put, shed, faulty,
          reading,   \* TelemetryLog
          graphs, builder, holder, table, builds, newest   \* CommunityClusters

\* A collection has finitely many chunks.
ASSUME SearchFits == Chunks \subseteq Int /\ IsFiniteSet(Chunks) /\ PageSize \in Nat /\ PoolSize \in Nat /\ Depth \in Nat
\* The queue has a maxsize, and the configuration wants at least a day of retention.
ASSUME TelemetryFits == /\ QueueSize \in Nat \ {0} /\ RetentionDays \in Nat \ {0}
                        /\ MaxEntries \in Nat /\ LastDay \in Nat \ {0} /\ MaxFaults \in Nat
ASSUME BackupsFit == /\ Backups \subseteq Nat \ {0} /\ LastSecond \in Nat \ {0} /\ LineCount \in Nat
                     /\ Keep \in Nat /\ Slots \in Nat /\ MaxBreaks \in Nat
\* There is a first token, and the number of a starting process names the key it generates.
ASSUME KeysFit == MaxToken \in Nat \ {0} /\ Starters \subseteq Nat \ {0}
\* The configuration wants communities of at least one entity.
ASSUME ClustersFit == /\ IsFiniteSet(Members) /\ MaxSize \in Nat \ {0} /\ MaxDepth \in Nat
                      /\ MaxBuilds \in Nat /\ MaxGraphs \in Nat \ {0} /\ "nobody" \notin Builders

Search == INSTANCE SearchFlow
FanOut == INSTANCE SearchFanOut
Keys == INSTANCE KeyStore
FirstKey == INSTANCE KeyFile
Backed == INSTANCE BackupLoop
Install == INSTANCE InstallRun
Lock == INSTANCE InstallLock
Log == INSTANCE TelemetryLog
Communities == INSTANCE CommunityClusters

\* Wishes are for features the wizard offers; somebody installs, and process ids are apart from the marks of a lock file.
ASSUME InstallFits == Wishes \subseteq SUBSET Install!Features /\ Installers # {} /\ Installers \subseteq Nat \ {0, 100}

searchVars == <<stored, open, shut, changes, query, work, answer>>
fanVars == <<tables, foreign, hiddenSet, ask, flow, leg, reply>>
keyVars == <<keyfile, keys, readable, api, view, loadingView, rotation, lastToken, mishaps, gone, byHand,
             incomplete>>
fileVars == <<envFile, tmpFile, starter, fresh, meddled>>
bakVars == <<second, backup, tmpLines, archives, tracked, draining, recorded, breaks, mixed>>
installVars == <<conf, bak, record, packages, index, service, run, runs, hands, broken, crossed>>
lockVars == <<lockFile, inst, killed, mistaken>>
logVars == <<buffer, unfinished, writer, stopping, fd, logs, wrote, today, put, shed, faulty, reading>>
clusterVars == <<graphs, builder, holder, table, builds, newest>>
allVars == <<part, searchVars, fanVars, keyVars, fileVars, bakVars, installVars, lockVars, logVars, clusterVars>>

\* Where a part that rests stands: one of its first states is enough.
SearchRests == /\ stored = {} /\ open = {} /\ shut = {} /\ changes = 0
               /\ query = (CHOOSE q \in Search!Queries : TRUE)
               /\ work = Search!NoWork /\ answer = Search!NoAnswer
FanOutRests == /\ tables = {} /\ foreign = {} /\ hiddenSet = {} /\ ask = (CHOOSE a \in FanOut!Asks : TRUE)
               /\ flow = FanOut!NoFlow /\ leg = [c \in Collections |-> FanOut!NoLeg] /\ reply = FanOut!NoReply
FirstKeyRests == /\ envFile = 0 /\ tmpFile = 0 /\ starter = [p \in Starters |-> FirstKey!Beginning]
                 /\ fresh = TRUE /\ meddled = FALSE
InstallRests == /\ conf = Install!NoConf /\ bak = Install!NoConf /\ record = Install!NoRecord /\ packages = {}
                /\ index = {} /\ service = Install!Stopped /\ run = Install!NoRun /\ runs = 0 /\ hands = 0
                /\ broken = FALSE /\ crossed = FALSE
LockRests == /\ lockFile = 0 /\ inst = [p \in Installers |-> Lock!NotStarted] /\ killed = {}
             /\ mistaken = FALSE
CommunitiesRest == /\ graphs = <<{}>> /\ builder = [b \in Builders |-> Communities!Off] /\ holder = "nobody"
                   /\ table = {} /\ builds = 0 /\ newest = 0

RequestsInit ==
  /\ part \in {"search", "fanout", "keys", "firstkey", "backups", "install", "instlock", "telemetry",
               "communities"}
  /\ IF part = "search" THEN Search!SearchInit ELSE SearchRests
  /\ IF part = "fanout" THEN FanOut!FanInit ELSE FanOutRests
  /\ Keys!KeyInit
  /\ IF part = "firstkey" THEN FirstKey!FileInit ELSE FirstKeyRests
  /\ Backed!BackupInit
  /\ IF part = "install" THEN Install!InstallInit ELSE InstallRests
  /\ IF part = "instlock" THEN Lock!InstLockInit ELSE LockRests
  /\ Log!LogInit
  /\ IF part = "communities" THEN Communities!ClusterInit ELSE CommunitiesRest

RequestsNext ==
  \/ /\ part = "search" /\ Search!SearchNext
     /\ UNCHANGED <<part, fanVars, keyVars, fileVars, bakVars, installVars, lockVars, logVars, clusterVars>>
  \/ /\ part = "fanout" /\ FanOut!FanNext
     /\ UNCHANGED <<part, searchVars, keyVars, fileVars, bakVars, installVars, lockVars, logVars, clusterVars>>
  \/ /\ part = "keys" /\ Keys!KeyNext
     /\ UNCHANGED <<part, searchVars, fanVars, fileVars, bakVars, installVars, lockVars, logVars, clusterVars>>
  \/ /\ part = "firstkey" /\ FirstKey!FileNext
     /\ UNCHANGED <<part, searchVars, fanVars, keyVars, bakVars, installVars, lockVars, logVars, clusterVars>>
  \/ /\ part = "backups" /\ Backed!BackupNext
     /\ UNCHANGED <<part, searchVars, fanVars, keyVars, fileVars, installVars, lockVars, logVars, clusterVars>>
  \/ /\ part = "install" /\ Install!InstallNext
     /\ UNCHANGED <<part, searchVars, fanVars, keyVars, fileVars, bakVars, lockVars, logVars, clusterVars>>
  \/ /\ part = "instlock" /\ Lock!InstLockNext
     /\ UNCHANGED <<part, searchVars, fanVars, keyVars, fileVars, bakVars, installVars, logVars, clusterVars>>
  \/ /\ part = "telemetry" /\ Log!LogNext
     /\ UNCHANGED <<part, searchVars, fanVars, keyVars, fileVars, bakVars, installVars, lockVars, clusterVars>>
  \/ /\ part = "communities" /\ Communities!ClusterNext
     /\ UNCHANGED <<part, searchVars, fanVars, keyVars, fileVars, bakVars, installVars, lockVars, logVars>>

RequestsSpec == RequestsInit /\ [][RequestsNext]_allVars

\* SearchFlow: an answer holds only chunks that the caller may see and asked for (AnswerPermitted),
\* and says what HyDE did (HydeUsed); of a collection that fits in the candidate depth it holds the
\* best (RightPage) and says what the acl hid (HiddenTold); a cold embedder is never waited for
\* (ColdNeverEmbeds).
AnswersRight ==
  part = "search" => Search!SearchTypeOK /\ Search!AnswerPermitted /\ Search!RightPage /\
                     Search!HiddenTold /\ Search!HydeUsed /\ Search!ColdNeverEmbeds

\* SearchFanOut: an answer over several collections holds visible chunks (FanOutPermitted), speaks
\* for each collection that was not dropped under it (EveryLegCounted), leaves no search running (LegsEndWithAnswer), and a 404 is
\* true (NotFoundIsTrue).
FanOutRight ==
  part = "fanout" => FanOut!FanTypeOK /\ FanOut!FanOutPermitted /\ FanOut!EveryLegCounted /\
                     FanOut!LegsEndWithAnswer /\ FanOut!NotFoundIsTrue

\* KeyStore, KeyFile: a retired token opens nothing (RetiredStaysOut), the server's own key opens it
\* (NoLockOut), the files and the cached view agree (KeyFileFollowed, ViewIsFile), no change loses
\* another's record (RecordsKept), and processes that start together agree on the key (AgreeOnKey).
KeysHold ==
  /\ [](part = "keys" => Keys!KeyTypeOK /\ Keys!RetiredStaysOut /\ Keys!NoLockOut /\
                         Keys!KeyFileFollowed /\ Keys!ViewIsFile)
  /\ [](part = "firstkey" => FirstKey!FileTypeOK /\ FirstKey!AgreeOnKey)
  /\ Keys!RecordsKept

\* BackupLoop: a DONE backup is whole (DoneIsWhole), the one on record can be restored
\* (RecordedIsKept), and a process has one of its own on its way (OneOnItsWay).
BackupsKept ==
  part = "backups" => Backed!BackupTypeOK /\ Backed!DoneIsWhole /\ Backed!RecordedIsKept /\
                      Backed!OneOnItsWay

\* InstallRun, InstallLock: an enabled feature has its package (FlagHasPackage), the index fits the
\* config (IndexFitsConfig), hand edits are noticed (EditsNoticed) and nothing else is taken for one
\* (NoFalseAlarm); one installer at a time (OneInstaller), which leaves no lock (NothingLeft).
InstallSafe ==
  /\ [](part = "install" => Install!InstallTypeOK /\ Install!FlagHasPackage /\
                            Install!IndexFitsConfig /\ Install!NoFalseAlarm)
  /\ [](part = "instlock" => Lock!InstLockTypeOK /\ Lock!OneInstaller /\ Lock!NothingLeft)
  /\ Install!EditsNoticed

\* TelemetryLog: the drain waits for what is queued and for nothing else (JoinBalanced), leaves no
\* entry behind (DrainedAll), and a read shows what was written within the retention (WindowRead).
LogWhole ==
  part = "telemetry" => Log!LogTypeOK /\ Log!JoinBalanced /\ Log!DrainedAll /\ Log!WindowRead

\* CommunityClusters: each entity is in one community (EveryEntityPlaced), oversized ones are split
\* (SizeHeld), a reader sees one build (OneBuildShown) and never an older one than before
\* (NeverOlder).
CommunitiesWhole ==
  /\ [](part = "communities" => Communities!ClusterTypeOK /\ Communities!EveryEntityPlaced /\
                                Communities!SizeHeld /\ Communities!OneBuildShown)
  /\ Communities!NeverOlder
=============================================================================
