----------------------------- MODULE InstallRun ------------------------------
(***************************************************************************)
(* The wizard's run (install/installer.py and the config, package and      *)
(* pre-warm helpers it calls): the config is written before the packages   *)
(* of its features are installed and the model is loaded, so every way out *)
(* has something to undo.  Meanwhile the service indexes and the operator  *)
(* edits the config, starts and uninstalls.  One installer runs at a time  *)
(* (InstallLock); a dry run changes nothing and is not modelled.           *)
(***************************************************************************)
EXTENDS Naturals

CONSTANTS Wishes,     \* the sets of features an operator asks for
          MaxRuns,    \* bound: wizard runs
          MaxHands    \* bound: edits, starts and uninstalls by the operator

VARIABLES conf,       \* archon-search.toml: its model, feature flags, whether a managed key was edited
          bak,        \* its .toml.bak
          record,     \* .toml.wizard.json: the managed values of the last run
          packages,   \* the extras that are installed
          index,      \* the models whose vectors the database holds
          service,    \* the running service, with the model it loaded
          run,        \* the run under way
          runs, hands,
          broken,     \* history: a run was killed, interrupted, or could not write its record
          crossed     \* history: the operator acted during a run, or the service outlived its stop

installVars == <<conf, bak, record, packages, index, service, run, runs, hands, broken, crossed>>

Features == {"graph", "multilingual", "hyde", "description", "enrichment"}
\* HyDE, descriptions and graph enrichment with the default provider share its package.
ExtraOf(f) == IF f \in {"graph", "multilingual"} THEN f ELSE "provider"
Extras == {"graph", "multilingual", "provider"}
\* The order in which the packages are installed.
NextExtra(extras) == IF "graph" \in extras THEN "graph" ELSE IF "multilingual" \in extras THEN "multilingual" ELSE "provider"
Models == {"english", "multilingual"}
ModelFor(features) == IF "multilingual" \in features THEN "multilingual" ELSE "english"

NoConf == [there |-> FALSE, model |-> "english", flags |-> {}, edited |-> FALSE]
NoRecord == [kept |-> FALSE, model |-> "english", flags |-> {}, edited |-> FALSE]
NoRun == [at |-> "none", branch |-> "none", wish |-> {}, model |-> "english", force |-> FALSE, asks |-> FALSE,
          confirmed |-> FALSE, noticed |-> FALSE, hasBak |-> FALSE, records |-> FALSE, extras |-> {}]
Stopped == [up |-> FALSE, model |-> "english"]

\* _managed_values: [graph] is not among the keys that are compared.
Managed(c) == [kept |-> TRUE, model |-> c.model, flags |-> c.flags \ {"graph", "enrichment"}, edited |-> c.edited]
InstallInit ==
  /\ \/ conf = NoConf /\ record = NoRecord
     \/ conf = [NoConf EXCEPT !.there = TRUE] /\ record \in {NoRecord, Managed(conf)}
  /\ bak = NoConf /\ packages = {} /\ index = {} /\ service = Stopped /\ run = NoRun
  /\ runs = 0 /\ hands = 0 /\ broken = FALSE /\ crossed = FALSE

At(at) == run.at = at
Goes(to) == run' = to
\* Out of the locked section; on_exit records what the wizard left once the config was written.
Leaves == Goes(IF run.records THEN [run EXCEPT !.at = "leave"] ELSE NoRun)
Rest == UNCHANGED <<runs, hands, broken, crossed>>

-----------------------------------------------------------------------------
\* What the questions and flags can come to: nobody is asked for descriptions or enrichment in a script.
AskedOnly == {"description", "enrichment"}
Offered(asks) == IF asks THEN Wishes ELSE {w \ AskedOnly : w \in Wishes}
\* Profile, licences, features; --force comes with --delete-db.
Begin(wish, force, asks) ==
  /\ At("none") /\ runs < MaxRuns /\ runs' = runs + 1
  /\ Goes([NoRun EXCEPT !.at = "guard", !.wish = wish, !.model = ModelFor(wish), !.force = force, !.asks = asks])
  /\ UNCHANGED <<conf, bak, record, packages, index, service, hands, broken, crossed>>
\* The language model cannot be downloaded: English only, with the profile that was chosen.
Degrade ==
  /\ At("guard") /\ "multilingual" \in run.wish
  /\ Goes([run EXCEPT !.wish = @ \ {"multilingual"}])
  /\ UNCHANGED <<conf, bak, record, packages, index, service>> /\ Rest

\* _check_reinstall_guard.
FitsIndex == conf.there => conf.model = run.model
\* Edited since the wizard last wrote it; without a record, other than what a bare profile run writes.
DiffersFromBaseline == conf.edited \/ conf.flags \ {"graph", "enrichment", "multilingual"} # {}
HandEdited == IF record.kept THEN Managed(conf) # record ELSE DiffersFromBaseline
Guard ==
  /\ At("guard")
  /\ \/ /\ ~FitsIndex /\ ~run.force /\ Leaves         \* refused, or declined
     \/ /\ ~FitsIndex /\ ~run.force /\ run.asks       \* "Rebuild the index now?"
        /\ Goes([run EXCEPT !.at = "backup", !.branch = "force", !.confirmed = TRUE])
     \/ /\ run.force /\ Goes([run EXCEPT !.at = "backup", !.branch = "force"])
     \/ /\ ~run.force /\ ~conf.there /\ Goes([run EXCEPT !.at = "write", !.branch = "fresh"])
     \/ /\ ~run.force /\ conf.there /\ FitsIndex
        /\ Goes([run EXCEPT !.at = "overwrite", !.branch = "idempotent", !.noticed = HandEdited])
  /\ UNCHANGED <<conf, bak, record, packages, index, service>> /\ Rest

\* _execute_force_reinstall: backup, confirmation, stop, deletion, new config.
BackUp ==
  /\ At("backup") /\ bak' = IF conf.there THEN conf ELSE bak
  /\ Goes([run EXCEPT !.at = IF run.asks /\ ~run.confirmed THEN "confirm" ELSE "stop", !.hasBak = conf.there])
  /\ UNCHANGED <<conf, record, packages, index, service>> /\ Rest
Restored == IF run.hasBak THEN bak ELSE conf
Confirm ==
  /\ At("confirm")
  /\ \/ Goes([run EXCEPT !.at = "stop"]) /\ UNCHANGED conf
     \/ conf' = Restored /\ Leaves
  /\ UNCHANGED <<bak, record, packages, index, service>> /\ Rest
StopService ==
  /\ At("stop")
  /\ \/ service' = Stopped /\ Goes([run EXCEPT !.at = "delete"]) /\ UNCHANGED <<conf, crossed>>
     \/ service.up /\ conf' = Restored /\ Leaves /\ UNCHANGED <<service, crossed>>
     \* stop() gave up waiting and says so in a result that nobody looks at
     \/ service.up /\ Goes([run EXCEPT !.at = "delete"]) /\ crossed' = TRUE /\ UNCHANGED <<service, conf>>
  /\ UNCHANGED <<bak, record, packages, index, runs, hands, broken>>
DeleteDatabase ==
  /\ At("delete")
  /\ \/ index' = {} /\ Goes([run EXCEPT !.at = "write"])
     \/ UNCHANGED index /\ Leaves      \* part of it may be gone
  /\ UNCHANGED <<conf, bak, record, packages, service>> /\ Rest

\* _apply_wizard_features_to_toml: an unanswered key goes; [graph] stays unless it is asked for.
GraphKeys == {"graph", "enrichment"}
Overlaid(c) == run.wish \cup (c.flags \cap GraphKeys)
\* _write_profile_config, _profile_toml: the answers over the keys that are there.
\* A fresh config takes the profile's English model when it degraded.
Written(c) == [there |-> TRUE, edited |-> FALSE,
               model |-> IF run.branch = "fresh" THEN ModelFor(run.wish) ELSE run.model,
               flags |-> Overlaid(c)]
WriteConfig ==
  /\ At("write")
  /\ \/ /\ conf' = Written(conf) /\ bak' = IF run.branch = "fresh" THEN conf' ELSE bak
        /\ Goes([run EXCEPT !.at = "written", !.records = TRUE])
     \/ run.branch = "force" /\ Leaves /\ UNCHANGED <<conf, bak>>
  /\ UNCHANGED <<record, packages, index, service>> /\ Rest
\* "Existing config has custom values. Overwrite?"; a script is only warned.
Overwrite ==
  /\ At("overwrite")
  /\ \/ /\ bak' = conf /\ conf' = Written(conf) /\ Goes([run EXCEPT !.at = "written", !.records = TRUE])
     \/ run.noticed /\ run.asks /\ Leaves /\ UNCHANGED <<conf, bak>>
  /\ UNCHANGED <<record, packages, index, service>> /\ Rest

-----------------------------------------------------------------------------
Reverted(c, features) == [c EXCEPT !.flags = @ \ features]
\* _revert_unfinished_features: the choices did not persist, the disk is too small, or "Proceed?" was declined.
Abort ==
  /\ At("written") /\ conf' = Reverted(conf, run.wish) /\ Leaves
  /\ UNCHANGED <<bak, record, packages, index, service>> /\ Rest
\* The device is probed; the packages that the wish needs are up next.
Proceed ==
  /\ At("written")
  /\ Goes([run EXCEPT !.at = "install", !.extras = {ExtraOf(f) : f \in run.wish}])
  /\ UNCHANGED <<conf, bak, record, packages, index, service>> /\ Rest
OfExtra(e) == {f \in run.wish : ExtraOf(f) = e}
\* A package that fails to install takes the flags of every feature that needs it.
InstallExtra ==
  /\ At("install") /\ run.extras # {}
  /\ LET extra == NextExtra(run.extras)
     IN /\ \/ packages' = packages \cup {extra} /\ UNCHANGED conf
           \/ conf' = Reverted(conf, OfExtra(extra)) /\ UNCHANGED packages
        /\ Goes([run EXCEPT !.extras = @ \ {extra}])
  /\ UNCHANGED <<bak, record, index, service>> /\ Rest
\* _prewarm_models: the embedder loads, or the preload is skipped.
Prewarm ==
  /\ At("install") /\ run.extras = {} /\ Goes([run EXCEPT !.at = "register"])
  /\ UNCHANGED <<conf, bak, record, packages, index, service>> /\ Rest
\* Mutant: the restored config is recorded as the wizard's own.
RecordsRestored == TRUE
\* A restored config is described by the record of the run that wrote it.
RecordsAfterFailure == run.branch # "idempotent"
PrewarmFails ==
  /\ At("install") /\ run.extras = {}
  /\ CASE run.branch = "fresh" -> conf' = NoConf /\ bak' = NoConf
       [] run.branch = "idempotent" -> conf' = bak /\ UNCHANGED bak
       [] run.branch = "force" -> UNCHANGED <<conf, bak>>
  /\ Goes(IF RecordsAfterFailure THEN [run EXCEPT !.at = "leave"] ELSE NoRun)
  /\ UNCHANGED <<record, packages, index, service>> /\ Rest
\* create_app refuses to start a feature whose package is missing; those that are only asked for in prompts just fail.
Starts == {ExtraOf(f) : f \in conf.flags \ AskedOnly} \subseteq packages
Started == IF Starts THEN [up |-> TRUE, model |-> conf.model] ELSE Stopped
\* replace_registration, start, the wait for readiness; a service that is not ready ends the run with 1.
Register ==
  /\ At("register") /\ service' \in {Started, Stopped} /\ Leaves
  /\ UNCHANGED <<conf, bak, record, packages, index>> /\ Rest
Recorded == conf
\* _record_wizard_values.
Leave ==
  /\ At("leave") /\ Goes(NoRun)
  /\ \/ record' = (IF conf.there THEN Managed(Recorded) ELSE NoRecord) /\ UNCHANGED broken
     \/ UNCHANGED record /\ broken' = TRUE
  /\ UNCHANGED <<conf, bak, packages, index, service, runs, hands, crossed>>
\* An exception or Ctrl-C passes through on_exit only; a kill does not.
Interrupt ==
  /\ ~At("none") /\ broken' = TRUE /\ (Leaves \/ Goes(NoRun))
  /\ UNCHANGED <<conf, bak, record, packages, index, service, runs, hands, crossed>>

-----------------------------------------------------------------------------
\* The service writes vectors of the model it loaded.
Index ==
  /\ service.up /\ index' = index \cup {service.model}
  /\ UNCHANGED <<conf, bak, record, packages, service, run>> /\ Rest
ByHand == hands < MaxHands /\ hands' = hands + 1 /\ crossed' = (crossed \/ ~At("none"))
Edit ==
  /\ ByHand /\ conf.there /\ conf' = [conf EXCEPT !.edited = TRUE]
  /\ UNCHANGED <<bak, record, packages, index, service, run, runs, broken>>
\* run_register_and_start takes no lock.
Start ==
  /\ ByHand /\ conf.there /\ service' \in {Started, Stopped}
  /\ UNCHANGED <<conf, bak, record, packages, index, run, runs, broken>>
\* run_uninstall: the config stays.
Uninstall ==
  /\ ByHand /\ service' = Stopped /\ index' \in {index, {}}
  /\ UNCHANGED <<conf, bak, record, packages, run, runs, broken>>

InstallNext ==
  \/ \E force, asks \in BOOLEAN : \E wish \in Offered(asks) : Begin(wish, force, asks)
  \/ Degrade \/ Guard \/ BackUp \/ Confirm \/ StopService \/ DeleteDatabase \/ WriteConfig \/ Overwrite
  \/ Abort \/ Proceed \/ InstallExtra \/ Prewarm \/ PrewarmFails \/ Register \/ Leave \/ Interrupt
  \/ Index \/ Edit \/ Start \/ Uninstall
InstallSpec == InstallInit /\ [][InstallNext]_installVars

-----------------------------------------------------------------------------
\* The types of the state.
Confs == [there : BOOLEAN, model : Models, flags : SUBSET Features, edited : BOOLEAN]
InstallTypeOK ==
  /\ {conf, bak} \subseteq Confs /\ record \in [kept : BOOLEAN, model : Models, flags : SUBSET Features, edited : BOOLEAN]
  /\ packages \subseteq Extras /\ index \subseteq Models /\ service \in [up : BOOLEAN, model : Models]
  /\ run.wish \subseteq Features /\ run.model \in Models

\* Whichever way a wizard run ends by itself, each feature that the config enables has its package, so the server starts.
FlagHasPackage == (At("none") /\ ~broken) => {ExtraOf(f) : f \in conf.flags} \subseteq packages
\* The database holds vectors of the config's model only, whatever runs failed halfway and whenever the service indexed.
IndexFitsConfig == (conf.there /\ ~crossed) => index \subseteq {conf.model}
\* A re-run that says the config was edited by hand is right: reverted flags and failed runs are not taken for edits.
NoFalseAlarm == (run.noticed /\ At("overwrite") /\ record.kept /\ ~broken /\ ~crossed) => conf.edited
\* A hand edit is never overwritten by a plain re-run that did not notice it, also when earlier runs failed and restored it.
EditsNoticed == [][(conf.edited /\ conf'.there /\ ~conf'.edited /\ ~crossed') => (run.noticed \/ run.branch = "force")]_installVars
=============================================================================
